-------------------------- MODULE GdsRing_proofs ---------------------------
(***************************************************************************)
(* Proofs about GdsRing, for any groups, sizes, requests and block tables. *)
(*                                                                         *)
(* RingInv is the inductive invariant of the shape of the state: JobInv    *)
(* says that the job is the plan of its request and where its items are,   *)
(* Memory that bytes, files and pages have their sizes, Registration what  *)
(* is registered in each mode.  ContentInv, on top of it, says what the    *)
(* bytes are: the files hold the blocks of their chunks, the slots of the  *)
(* job those of the chunk they are used for, no slot has two items, and    *)
(* the pages are those the scatters so far have made.  It needs            *)
(* OneReference, one reference in each group.                              *)
(***************************************************************************)
EXTENDS GdsRing, DataLemmas

-----------------------------------------------------------------------------
(* Sizes. *)

\* What the assumption says of the constants, one by one.
LEMMA ConstantFacts ==
  /\ Len(Refs) \in Nat \ {0} /\ Groups = 1..Len(Refs) /\ Groups # {}
  /\ \A g \in Groups : Refs[g] \in Seq(Nat \ {0}) /\ Refs[g] # <<>>
  /\ BlocksPerChunk \in Nat \ {0} /\ Align \in Nat \ {0}
  /\ Depth \in Nat \ {0} /\ NumChunks \in Nat \ {0} /\ NumPages \in Nat
  /\ Tables \subseteq [Groups -> [Blocks -> Pages]]
<1>1. Refs \in Seq(Seq(Nat \ {0})) /\ Refs # <<>> /\ \A g \in Groups : Refs[g] # <<>>
  BY RingAssumption
<1>2. Len(Refs) \in Nat /\ Groups = 1..Len(Refs)
  BY <1>1 DEF Groups
<1>3. Len(Refs) # 0
  BY <1>1, EmptySeq
<1>4. 1 \in Groups
  BY <1>2, <1>3
<1>5. \A g \in Groups : Refs[g] \in Seq(Nat \ {0})
  BY <1>1, <1>2
<1>6. /\ BlocksPerChunk \in Nat \ {0} /\ Align \in Nat \ {0}
      /\ Depth \in Nat \ {0} /\ NumChunks \in Nat \ {0} /\ NumPages \in Nat
      /\ Tables \subseteq [Groups -> [Blocks -> Pages]]
  BY RingAssumption
<1> QED
  BY <1>1, <1>2, <1>3, <1>4, <1>5, <1>6

\* Padding keeps at least what is there, and the order.
LEMMA PadFacts ==
  ASSUME NEW n \in Nat
  PROVE  /\ Pad(n) \in Nat /\ n <= Pad(n)
         /\ \A m \in Nat : n <= m => Pad(n) <= Pad(m)
<1>1. PICK a \in Nat \ {0} : a = Align
  BY ConstantFacts
<1>2. ASSUME NEW m \in Nat
      PROVE  \E k \in Nat : Pad(m) = k * a /\ k * a <= m + a - 1 /\ m <= k * a
  <2>1. PICK x \in Nat : x = m + a - 1
    OBVIOUS
  <2>2. PICK k \in Nat, r \in 0..a - 1 : x = k * a + r /\ x \div a = k
    BY DivBounds
  <2>3. k * a \in Nat
    OBVIOUS
  <2>4. Pad(m) = k * a
    BY <1>1, <2>1, <2>2 DEF Pad
  <2> QED
    BY <2>1, <2>2, <2>3, <2>4
<1>3. PICK k \in Nat : Pad(n) = k * a /\ k * a <= n + a - 1 /\ n <= k * a
  BY <1>2
<1>4. k * a \in Nat
  OBVIOUS
<1>5. ASSUME NEW m \in Nat, n <= m
      PROVE  Pad(n) <= Pad(m)
  <2>1. PICK l \in Nat : Pad(m) = l * a /\ l * a <= m + a - 1 /\ m <= l * a
    BY <1>2
  <2>2. k <= l
    <3>1. SUFFICES ASSUME l + 1 <= k
                   PROVE  FALSE
      OBVIOUS
    <3>2. (l + 1) * a <= k * a
      BY <3>1
    <3>3. (l + 1) * a = l * a + a /\ l * a \in Nat
      OBVIOUS
    <3> QED
      BY <1>3, <1>4, <1>5, <2>1, <3>2, <3>3
  <2>3. k * a <= l * a
    BY <2>2
  <2> QED
    BY <1>3, <2>1, <2>3
<1> QED
  BY <1>3, <1>4, <1>5

\* A chunk file has room for the blocks of each reference of its group.
LEMMA ChunkBytesFacts ==
  ASSUME NEW g \in Groups
  PROVE  /\ GroupChunkBytes(g) \in Nat
         /\ \A r \in DOMAIN Refs[g] :
              Refs[g][r] \in Nat \ {0} /\ BlocksPerChunk * Refs[g][r] <= GroupChunkBytes(g)
<1>1. PICK f : f = Refs[g]
  OBVIOUS
<1>2. PICK D : D = DOMAIN f
  OBVIOUS
<1>3. f \in Seq(Nat \ {0}) /\ D = 1..Len(f) /\ Len(f) \in Nat
  BY <1>1, <1>2, ConstantFacts
<1>4. f \in [D -> Nat] /\ IsFiniteSet(D) /\ \A r \in D : f[r] \in Nat \ {0}
  <2>1. f \in [D -> Nat \ {0}]
    BY <1>3
  <2>2. IsFiniteSet(D)
    BY <1>3, FS_Interval
  <2> QED
    BY <2>1, <2>2
<1>5. SumFunction(f) = Total(f, D)
  BY <1>2, SumIsTotal DEF SumFunction
<1>6. Total(f, D) \in Nat
  BY <1>4, TotalType
<1>7. ASSUME NEW r \in D
      PROVE  f[r] <= Total(f, D)
  <2>1. Total(f, D) = f[r] + Total(f, D \ {r})
    BY <1>4, TotalRemove
  <2>2. IsFiniteSet(D \ {r}) /\ D \ {r} \in SUBSET D
    BY <1>4, FS_Subset
  <2>3. Total(f, D \ {r}) \in Nat
    BY <1>4, <2>2, TotalType
  <2> QED
    BY <1>4, <2>1, <2>3
<1>8. PICK b \in Nat \ {0} : b = BlocksPerChunk
  BY ConstantFacts
<1>9. GroupChunkBytes(g) = Total(f, D) * b
  BY <1>1, <1>5, <1>8 DEF GroupChunkBytes
<1>10. PICK n \in Nat : n = Total(f, D)
  BY <1>6
<1>11. \A r \in D : f[r] \in Nat /\ f[r] <= n
  BY <1>4, <1>7, <1>10
<1>12. \A x \in Nat : x <= n => b * x <= n * b
  OBVIOUS
<1>13. n * b \in Nat
  OBVIOUS
<1> QED
  BY <1>1, <1>2, <1>4, <1>8, <1>9, <1>10, <1>11, <1>12, <1>13

\* The slots are as large as any group needs, and divide the ring.
LEMMA SlotFacts ==
  /\ SlotBytes \in Nat
  /\ \A g \in Groups :
       SlotPad(g) \in Nat /\ GroupChunkBytes(g) <= SlotPad(g) /\ SlotPad(g) <= SlotBytes
  /\ RingBytes = Depth * SlotBytes /\ RingBytes \in Nat /\ RingBytes \div Depth = SlotBytes
<1>1. PICK f : f = [g \in Groups |-> GroupChunkBytes(g)]
  OBVIOUS
<1>2. PICK N \in Nat \ {0} : N = Len(Refs) /\ Groups = 1..N
  BY ConstantFacts
<1>3. f \in [1..N -> Nat]
  BY <1>1, <1>2, ChunkBytesFacts
<1>4. PICK S : S = {GroupChunkBytes(g) : g \in Groups}
  OBVIOUS
<1>5. S = {f[g] : g \in 1..N} /\ S \subseteq Nat
  BY <1>1, <1>2, <1>3, <1>4
<1>6. \E m \in S : \A x \in S : m >= x
  BY <1>3, <1>5, GreatestExists
<1>7. Max(S) \in S /\ \A x \in S : Max(S) >= x
  BY <1>6 DEF Max
<1>8. PICK m \in Nat : m = Max(S) /\ SlotBytes = Pad(m) /\ \A x \in S : x <= m
  BY <1>4, <1>5, <1>7 DEF SlotBytes
<1>9. SlotBytes \in Nat
  BY <1>8, PadFacts
<1>10. ASSUME NEW g \in Groups
       PROVE  SlotPad(g) \in Nat /\ GroupChunkBytes(g) <= SlotPad(g) /\ SlotPad(g) <= SlotBytes
  <2>1. PICK n \in Nat : n = GroupChunkBytes(g) /\ n <= m
    BY <1>4, <1>8, ChunkBytesFacts
  <2>2. SlotPad(g) = Pad(n)
    BY <2>1 DEF SlotPad
  <2> QED
    BY <1>8, <2>1, <2>2, PadFacts
<1>11. PICK d \in Nat \ {0}, n \in Nat : d = Depth /\ n = SlotBytes
  BY <1>9, ConstantFacts
<1>12. d * n \in Nat /\ d * n = n * d + 0 /\ 0 \in 0..d - 1
  OBVIOUS
<1>13. (n * d + 0) \div d = n
  BY <1>12, DivUnique
<1>14. RingBytes = d * n
  BY <1>11 DEF RingBytes
<1> QED
  BY <1>9, <1>10, <1>11, <1>12, <1>13, <1>14

-----------------------------------------------------------------------------
(* Requests, and the chunks they touch. *)

\* A request ends where a chunk does, and names blocks the model has.
LEMMA AskedFacts ==
  ASSUME NEW q \in Asked, NEW g \in Groups
  PROVE  /\ q.from[g] \in Nat /\ q.to[g] \in Nat /\ q.from[g] <= q.to[g]
         /\ \E k \in 0..NumChunks : q.to[g] = k * BlocksPerChunk
         /\ q.from[g]..q.to[g] - 1 \subseteq Blocks
         /\ q.table \in Tables /\ q.table[g] \in [Blocks -> Pages]
<1>1. PICK a \in Nat \ {0}, N \in Nat \ {0} : a = BlocksPerChunk /\ N = NumChunks
  BY ConstantFacts
<1>2. Blocks = 0..N * a - 1 /\ N * a \in Nat
  BY <1>1 DEF Blocks
<1>3. /\ q.from \in [Groups -> Blocks \cup ChunkEnds] /\ q.to \in [Groups -> ChunkEnds]
      /\ q.table \in Tables /\ q.from[g] <= q.to[g]
  BY DEF Asked, Requests
<1>4. \A x \in ChunkEnds : \E k \in 0..N : x = k * a
  BY <1>1 DEF ChunkEnds, Chunks
<1>5. \A k \in 0..N : k * a \in Nat /\ k * a <= N * a
  OBVIOUS
<1>6. PICK k \in 0..N : q.to[g] = k * a
  BY <1>3, <1>4
<1>7. q.to[g] \in Nat /\ q.to[g] <= N * a
  BY <1>5, <1>6
<1>8. q.from[g] \in Nat
  <2>1. CASE q.from[g] \in Blocks
    BY <1>2, <2>1
  <2>2. CASE q.from[g] \in ChunkEnds
    <3>1. PICK l \in 0..N : q.from[g] = l * a
      BY <1>4, <2>2
    <3> QED
      BY <1>5, <3>1
  <2> QED
    BY <1>3, <2>1, <2>2
<1>9. q.from[g]..q.to[g] - 1 \subseteq Blocks
  BY <1>2, <1>7, <1>8
<1>10. q.table[g] \in [Blocks -> Pages]
  BY <1>3, ConstantFacts
<1> QED
  BY <1>1, <1>3, <1>6, <1>7, <1>8, <1>9, <1>10

\* The chunks of a group in a request: the first one and the number of them, the
\* same for the files the connector names and for the plan.
LEMMA ChunksOfRequest ==
  ASSUME NEW q \in Asked, NEW g \in Groups
  PROVE  /\ FirstChunk(q, g) \in Nat /\ Skip(q, g) \in 0..BlocksPerChunk - 1
         /\ q.from[g] = FirstChunk(q, g) * BlocksPerChunk + Skip(q, g)
         /\ Touched(q, g) \in Nat /\ PlannedChunks(q, g) = Touched(q, g)
         /\ q.to[g] = (FirstChunk(q, g) + Touched(q, g)) * BlocksPerChunk
         /\ FirstChunk(q, g) + Touched(q, g) <= NumChunks
<1>1. PICK a \in Nat \ {0}, N \in Nat \ {0} : a = BlocksPerChunk /\ N = NumChunks
  BY ConstantFacts
<1>2. PICK x \in Nat, y \in Nat, k \in 0..N :
        x = q.from[g] /\ y = q.to[g] /\ x <= y /\ y = k * a
  <2>1. q.from[g] \in Nat /\ q.to[g] \in Nat /\ q.from[g] <= q.to[g]
    BY AskedFacts
  <2>2. PICK k \in 0..NumChunks : q.to[g] = k * BlocksPerChunk
    BY AskedFacts
  <2> QED
    BY <1>1, <2>1, <2>2
<1>3. PICK n \in Nat, r \in 0..a - 1 : x = n * a + r /\ x \div a = n /\ x % a = r
  BY DivBounds
<1>4. FirstChunk(q, g) = n /\ Skip(q, g) = r
  BY <1>1, <1>2, <1>3 DEF FirstChunk, Skip, BlockIndex
<1>5. n <= k
  <2>1. SUFFICES ASSUME k + 1 <= n
                 PROVE  FALSE
    BY <1>2
  <2>2. (k + 1) * a <= n * a /\ (k + 1) * a = k * a + a /\ n * a \in Nat /\ k * a \in Nat
    BY <2>1
  <2> QED
    BY <1>2, <1>3, <2>2
<1>6. PICK t \in Nat : t = k - n
  BY <1>5
<1>7. k = n + t /\ y = (n + t) * a
  BY <1>2, <1>6
<1>8. GroupSize(q, g) = y - x
  BY <1>2 DEF GroupSize
<1>9. PlannedChunks(q, g) = t
  <2>1. (n + t) * a = n * a + t * a /\ n * a \in Nat /\ t * a \in Nat
    OBVIOUS
  <2>2. y - x + r = t * a + 0
    BY <1>3, <1>7, <2>1
  <2>3. (t * a + 0) \div a = t
    <3>1. 0 \in 0..a - 1
      OBVIOUS
    <3> QED
      BY <3>1, DivUnique
  <2> QED
    BY <1>1, <1>4, <1>8, <2>2, <2>3 DEF PlannedChunks
<1>10. Touched(q, g) = t
  <2>1. CASE y = x
    <3>1. (n + t) * a = n * a + t * a /\ n * a \in Nat /\ t * a \in Nat
      OBVIOUS
    <3>2. t * a = r
      BY <1>3, <1>7, <2>1, <3>1
    <3>3. t # 0 => t * a >= a
      OBVIOUS
    <3>4. t = 0
      BY <3>2, <3>3
    <3> QED
      BY <1>8, <2>1, <3>4 DEF Touched
  <2>2. CASE y # x
    <3>1. y - 1 \in Nat /\ y # 0
      BY <1>2, <2>2
    <3>2. k # 0
      BY <1>2, <3>1
    <3>3. (k - 1) * a = k * a - a /\ k - 1 \in Nat /\ k * a \in Nat
      BY <3>2
    <3>4. (k - 1) * a <= y - 1 /\ y - 1 < (k - 1 + 1) * a
      BY <1>2, <3>3
    <3>5. (y - 1) \div a = k - 1
      BY <3>1, <3>3, <3>4, DivIs
    <3>6. GroupSize(q, g) # 0
      BY <1>2, <1>8, <2>2
    <3>7. Touched(q, g) = k - 1 - n + 1
      BY <1>1, <1>2, <1>4, <3>5, <3>6 DEF Touched
    <3> QED
      BY <1>6, <3>7
  <2> QED
    BY <2>1, <2>2
<1> QED
  BY <1>1, <1>2, <1>3, <1>4, <1>7, <1>9, <1>10

\* lo_j and hi_j of a chunk delimit the blocks that belong to it, and Rel is their
\* place in it.
LEMMA ChunkBlocks ==
  ASSUME NEW q \in Asked, NEW g \in Groups, NEW c \in Nat, NEW j \in Int
  PROVE  LET b == q.from[g] + j IN
         /\ j \in Lo(q, g, c)..Hi(q, g, c) - 1 <=>
              b \in q.from[g]..q.to[g] - 1 /\ b \div BlocksPerChunk = FirstChunk(q, g) + c
         /\ j \in Lo(q, g, c)..Hi(q, g, c) - 1 => Rel(q, g, c, j) = b % BlocksPerChunk
<1>1. PICK a \in Nat \ {0} : a = BlocksPerChunk
  BY ConstantFacts
<1>2. PICK x \in Nat, y \in Nat : x = q.from[g] /\ y = q.to[g] /\ x <= y
  BY AskedFacts
<1>3. PICK n \in Nat, r \in 0..a - 1 : n = FirstChunk(q, g) /\ r = Skip(q, g) /\ x = n * a + r
  BY <1>1, <1>2, ChunksOfRequest
<1>4. PICK s \in Nat : s = GroupSize(q, g) /\ s = y - x
  BY <1>2 DEF GroupSize
<1>5. PICK u \in Int, v \in Int : u = c * a - r /\ v = (c + 1) * a - r
  OBVIOUS
<1>6. Lo(q, g, c) = IF u >= 0 THEN u ELSE 0
  <2>1. Lo(q, g, c) = Max({0, u})
    BY <1>1, <1>3, <1>5 DEF Lo
  <2>2. \E m \in {0, u} : \A w \in {0, u} : m >= w
    OBVIOUS
  <2> QED
    BY <2>1, <2>2 DEF Max
<1>7. Hi(q, g, c) = IF s <= v THEN s ELSE v
  <2>1. Hi(q, g, c) = Min({s, v})
    BY <1>1, <1>3, <1>4, <1>5 DEF Hi
  <2>2. \E m \in {s, v} : \A w \in {s, v} : m <= w
    OBVIOUS
  <2> QED
    BY <2>1, <2>2 DEF Min
<1>8. j \in Lo(q, g, c)..Hi(q, g, c) - 1 <=> j \in 0..s - 1 /\ u <= j /\ j < v
  BY <1>6, <1>7
<1>9. x + j \in x..y - 1 <=> j \in 0..s - 1
  BY <1>4
<1>10. ASSUME j \in 0..s - 1
       PROVE  /\ u <= j /\ j < v <=> (x + j) \div a = n + c
              /\ u <= j /\ j < v => (x + j) % a = r + j - c * a
  <2>1. PICK k \in Nat, m \in 0..a - 1 : x + j = k * a + m /\ (x + j) \div a = k /\ (x + j) % a = m
    <3>1. x + j \in Nat
      BY <1>10
    <3> QED
      BY <3>1, DivBounds
  <2>2. (n + c) * a = n * a + c * a /\ n * a \in Nat /\ c * a \in Nat /\ (c + 1) * a = c * a + a
    OBVIOUS
  <2>3. k * a + m = n * a + r + j
    BY <1>3, <2>1
  <2>4. ASSUME k = n + c
        PROVE  u <= j /\ j < v
    <3>1. k * a = n * a + c * a
      BY <2>2, <2>4
    <3>2. c * a + m = r + j
      BY <2>2, <2>3, <3>1
    <3> QED
      BY <1>5, <2>2, <3>2
  <2>5. ASSUME u <= j, j < v
        PROVE  (x + j) \div a = n + c /\ (x + j) % a = r + j - c * a
    <3>1. c * a <= r + j /\ r + j < c * a + a
      BY <1>5, <2>2, <2>5
    <3>2. r + j - c * a \in 0..a - 1
      BY <2>2, <3>1
    <3>3. PICK p \in 0..a - 1 : p = r + j - c * a
      BY <3>2
    <3>4. x + j = (n + c) * a + p
      BY <1>3, <2>2, <3>3
    <3>5. ((n + c) * a + p) \div a = n + c /\ ((n + c) * a + p) % a = p
      BY DivUnique
    <3> QED
      BY <3>3, <3>4, <3>5
  <2> QED
    BY <2>1, <2>4, <2>5
<1>11. Rel(q, g, c, j) = r + j - c * a
  BY <1>1, <1>3 DEF Rel
<1>12. j \in Lo(q, g, c)..Hi(q, g, c) - 1 <=>
         x + j \in x..y - 1 /\ (x + j) \div a = n + c
  BY <1>8, <1>9, <1>10
<1>13. j \in Lo(q, g, c)..Hi(q, g, c) - 1 => Rel(q, g, c, j) = (x + j) % a
  BY <1>8, <1>10, <1>11
<1> QED
  BY <1>1, <1>2, <1>3, <1>12, <1>13

-----------------------------------------------------------------------------
(* The plan of a request. *)

\* Sequences of known lengths, joined.
LEMMA FlattenAt ==
  ASSUME NEW D, NEW N \in Nat, NEW len \in [1..N -> Nat],
         NEW ss \in Seq(Seq(D)), Len(ss) = N, \A g \in 1..N : Len(ss[g]) = len[g]
  PROVE  Joined(FlattenSeq(ss), ss, [g \in 1..N + 1 |-> Total(len, 1..g - 1)], N, D)
<1>1. len \in [1..Len(ss) -> Nat] /\ \A g \in 1..Len(ss) : len[g] = Len(ss[g])
  OBVIOUS
<1>2. Starts([g \in 1..Len(ss) + 1 |-> Total(len, 1..g - 1)], ss)
  BY <1>1, StartsTotal
<1> QED
  BY <1>2, FlattenJoined

\* The page ids of a group start after those of the groups before it.
LEMMA BlockIdsAt ==
  ASSUME NEW q \in Asked, NEW g \in Groups, NEW j \in 0..GroupSize(q, g) - 1
  PROVE  BlockIds(q)[Off(q, g) + j + 1] = q.table[g][q.from[g] + j]
<1>1. PICK N \in Nat : N = Len(Refs) /\ Groups = 1..N
  BY ConstantFacts
<1>2. PICK len : len = [h \in Groups |-> GroupSize(q, h)]
  OBVIOUS
<1>3. PICK ss : ss = [h \in Groups |->
                        [k \in 1..GroupSize(q, h) |-> q.table[h][q.from[h] + k - 1]]]
  OBVIOUS
<1>4. \A h \in Groups : GroupSize(q, h) \in Nat
  BY AskedFacts DEF GroupSize
<1>5. ASSUME NEW h \in Groups
      PROVE  ss[h] \in Seq(Pages) /\ Len(ss[h]) = len[h]
  <2>1. PICK n \in Nat : n = GroupSize(q, h)
    BY <1>4
  <2>2. PICK x \in Nat, y \in Nat : x = q.from[h] /\ y = q.to[h] /\ n = y - x
    BY <2>1, AskedFacts DEF GroupSize
  <2>3. PICK t \in [Blocks -> Pages] : t = q.table[h]
    BY AskedFacts
  <2>4. x..y - 1 \subseteq Blocks
    BY <2>2, AskedFacts
  <2>5. \A k \in 1..n : t[x + k - 1] \in Pages
    BY <2>2, <2>4
  <2>6. ss[h] = [k \in 1..n |-> t[x + k - 1]]
    BY <1>3, <2>1, <2>2, <2>3
  <2> QED
    BY <1>2, <2>1, <2>5, <2>6
<1>6. len \in [1..N -> Nat]
  BY <1>1, <1>2, <1>4
<1>7. ss \in Seq(Seq(Pages)) /\ Len(ss) = N
  BY <1>1, <1>3, <1>5
<1>8. PICK start : start = [h \in 1..N + 1 |-> Total(len, 1..h - 1)]
  OBVIOUS
<1>9. Joined(FlattenSeq(ss), ss, start, N, Pages)
  BY <1>1, <1>5, <1>6, <1>7, <1>8, FlattenAt
<1>10. BlockIds(q) = FlattenSeq(ss)
  BY <1>3 DEF BlockIds
<1>11. Off(q, g) = start[g]
  <2>1. g \in 1..N + 1
    BY <1>1
  <2> QED
    BY <1>2, <1>8, <2>1, SumIsTotal DEF Off
<1>12. j + 1 \in 1..Len(ss[g]) /\ j + 1 \in Nat
  <2>1. Len(ss[g]) = GroupSize(q, g)
    BY <1>2, <1>5
  <2> QED
    BY <1>4, <2>1
<1>13. FlattenSeq(ss)[start[g] + (j + 1)] = ss[g][j + 1]
  BY <1>1, <1>9, <1>12 DEF Joined
<1>14. ss[g][j + 1] = q.table[g][q.from[g] + (j + 1) - 1]
  <2>1. j + 1 \in 1..GroupSize(q, g)
    BY <1>4
  <2> QED
    BY <1>3, <2>1
<1>15. q.from[g] + (j + 1) - 1 = q.from[g] + j
  BY AskedFacts
<1>16. Off(q, g) + j + 1 = start[g] + (j + 1)
  <2>1. start[g] \in Nat
    <3>1. g - 1 \in Nat /\ 1..g - 1 \subseteq 1..N /\ g \in 1..N + 1
      BY <1>1
    <3> QED
      BY <1>6, <1>8, <3>1, TotalPrefix
  <2> QED
    BY <1>11, <2>1
<1> QED
  BY <1>10, <1>13, <1>14, <1>15, <1>16

\* The copies a request wants are the ones planned.
LEMMA CopiesAreWanted ==
  ASSUME NEW q \in Asked, NEW g \in Groups, NEW c \in Nat
  PROVE  Copies(q, g, c) = Wanted(q, g, FirstChunk(q, g) + c)
<1>1. PICK n : n = FirstChunk(q, g) + c
  OBVIOUS
<1>2. PICK x \in Nat, y \in Nat : x = q.from[g] /\ y = q.to[g] /\ x <= y
  BY AskedFacts
<1>3. PICK S : S = Lo(q, g, c)..Hi(q, g, c) - 1
  OBVIOUS
<1>4. PICK R : R = DOMAIN Refs[g]
  OBVIOUS
<1>5. ASSUME NEW j \in Int, NEW r \in R, j \in S
      PROVE  [ref |-> r, page |-> BlockIds(q)[Off(q, g) + j + 1],
              off |-> Rel(q, g, c, j) * Refs[g][r], size |-> Refs[g][r]] = CopyOf(q, g, x + j, r)
  <2>1. Rel(q, g, c, j) = (x + j) % BlocksPerChunk /\ x + j \in x..y - 1
    BY <1>2, <1>3, <1>5, ChunkBlocks
  <2>2. j \in 0..GroupSize(q, g) - 1
    BY <1>2, <2>1 DEF GroupSize
  <2>3. BlockIds(q)[Off(q, g) + j + 1] = q.table[g][x + j]
    BY <1>2, <2>2, BlockIdsAt
  <2> QED
    BY <2>1, <2>3 DEF CopyOf
<1>6. \A j \in Int : j \in S <=> x + j \in Here(q, g, n)
  BY <1>1, <1>2, <1>3, ChunkBlocks DEF Here
<1>7. S \subseteq Int /\ \A b \in Here(q, g, n) : b \in Int /\ b - x \in Int /\ x + (b - x) = b
  <2>1. \A l, h : \A k \in l..h : k \in Int
    OBVIOUS
  <2>2. \A b \in Here(q, g, n) : b \in x..y - 1
    BY <1>2 DEF Here
  <2> QED
    BY <1>3, <2>1, <2>2
<1>8. Copies(q, g, c) = {[ref |-> r, page |-> BlockIds(q)[Off(q, g) + j + 1],
              off |-> Rel(q, g, c, j) * Refs[g][r], size |-> Refs[g][r]] : j \in S, r \in R}
  BY <1>3, <1>4 DEF Copies
<1>9. Wanted(q, g, n) = {CopyOf(q, g, b, r) : b \in Here(q, g, n), r \in R}
  BY <1>4 DEF Wanted
<1>10. ASSUME NEW op \in Copies(q, g, c)
       PROVE  op \in Wanted(q, g, n)
  <2>1. PICK j \in S, r \in R : op =
           [ref |-> r, page |-> BlockIds(q)[Off(q, g) + j + 1],
            off |-> Rel(q, g, c, j) * Refs[g][r], size |-> Refs[g][r]]
    BY <1>8
  <2>2. op = CopyOf(q, g, x + j, r) /\ x + j \in Here(q, g, n)
    BY <1>5, <1>6, <1>7, <2>1
  <2> QED
    BY <1>9, <2>2
<1>11. ASSUME NEW op \in Wanted(q, g, n)
       PROVE  op \in Copies(q, g, c)
  <2>1. PICK b \in Here(q, g, n), r \in R : op = CopyOf(q, g, b, r)
    BY <1>9
  <2>2. PICK j \in Int : j = b - x /\ x + j = b
    BY <1>7
  <2>3. j \in S
    BY <1>6, <2>2
  <2>4. op = [ref |-> r, page |-> BlockIds(q)[Off(q, g) + j + 1],
              off |-> Rel(q, g, c, j) * Refs[g][r], size |-> Refs[g][r]]
    BY <1>5, <2>1, <2>2, <2>3
  <2> QED
    BY <1>8, <2>3, <2>4
<1> QED
  BY <1>1, <1>10, <1>11

\* The copy of a block fits in the chunk's file, so that _validate_item accepts it.
LEMMA WantedFacts ==
  ASSUME NEW q \in Asked, NEW g \in Groups, NEW c, NEW op \in Wanted(q, g, c)
  PROVE  /\ op \in Copy /\ Valid(op)
         /\ op.ref \in DOMAIN Refs[g] /\ op.size = Refs[g][op.ref]
         /\ op.off + op.size <= GroupChunkBytes(g)
<1>1. PICK b \in Here(q, g, c), r \in DOMAIN Refs[g] : op = CopyOf(q, g, b, r)
  BY DEF Wanted
<1>2. PICK a \in Nat \ {0}, z \in Nat \ {0} : a = BlocksPerChunk /\ z = Refs[g][r]
  BY ConstantFacts, ChunkBytesFacts
<1>3. b \in Blocks /\ b \in Nat
  <2>1. b \in Blocks
    BY AskedFacts DEF Here
  <2> QED
    BY <2>1 DEF Blocks
<1>4. PICK m \in 0..a - 1 : m = b % a
  BY <1>3, DivBounds
<1>5. m * z \in Nat /\ m * z + z <= a * z
  <2>1. (m + 1) * z <= a * z /\ (m + 1) * z = m * z + z
    BY <1>4
  <2> QED
    BY <2>1
<1>6. PICK w \in Nat, B \in Nat : w = m * z /\ B = GroupChunkBytes(g) /\ w + z <= B
  <2>1. a * z <= GroupChunkBytes(g) /\ GroupChunkBytes(g) \in Nat
    BY <1>2, ChunkBytesFacts
  <2>2. PICK w \in Nat, v \in Nat : w = m * z /\ v = a * z /\ w + z <= v
    <3>1. a * z \in Nat
      OBVIOUS
    <3> QED
      BY <1>5, <3>1
  <2>3. PICK B \in Nat : B = GroupChunkBytes(g) /\ v <= B
    BY <2>1, <2>2
  <2>4. w + z <= B
    BY <2>2, <2>3
  <2> QED
    BY <2>2, <2>3, <2>4
<1>7. op.ref = r /\ op.page = q.table[g][b] /\ op.off = w /\ op.size = z
  BY <1>1, <1>2, <1>4, <1>6 DEF CopyOf
<1>8. op = [ref |-> r, page |-> q.table[g][b], off |-> w, size |-> z]
  BY <1>1, <1>2, <1>4, <1>6 DEF CopyOf
<1>9. q.table[g][b] \in Pages
  BY <1>3, AskedFacts
<1>10. r \in Nat
  BY ConstantFacts
<1>11. op \in Copy
  BY <1>8, <1>9, <1>10 DEF Copy
<1>12. B <= SlotBytes /\ SlotBytes \in Nat
  <2>1. GroupChunkBytes(g) <= SlotPad(g) /\ SlotPad(g) <= SlotBytes /\ SlotPad(g) \in Nat
    BY SlotFacts
  <2>2. SlotBytes \in Nat
    BY SlotFacts
  <2> QED
    BY <1>6, <2>1, <2>2
<1>13. Valid(op)
  BY <1>6, <1>7, <1>9, <1>12 DEF Valid
<1> QED
  BY <1>2, <1>6, <1>7, <1>11, <1>13

\* A function on 1..N is a sequence.
LEMMA ASequence ==
  ASSUME NEW S, NEW N \in Nat, NEW f \in [1..N -> S]
  PROVE  f \in Seq(S) /\ Len(f) = N
OBVIOUS

\* What an item is for: a chunk of a group, with the copies of its blocks.
ItemOf(it, q, path) ==
  it.group = path[1] /\ it.copies = Wanted(q, path[1], path[2])

\* The files of a request, group by group.
LEMMA PathsJoined ==
  ASSUME NEW q \in Asked
  PROVE  \E N \in Nat, len \in [1..Len(Refs) -> Nat], ps \in Seq(Seq(Groups \X Chunks)) :
           /\ N = Len(Refs) /\ Groups = 1..N
           /\ \A g \in Groups : len[g] = Touched(q, g) /\ Len(ps[g]) = len[g]
           /\ \A g \in Groups : \A c \in 1..Touched(q, g) : ps[g][c] = <<g, FirstChunk(q, g) + c - 1>>
           /\ Joined(Paths(q), ps, [g \in 1..N + 1 |-> Total(len, 1..g - 1)], N, Groups \X Chunks)
<1>1. PICK N \in Nat : N = Len(Refs) /\ Groups = 1..N
  BY ConstantFacts
<1>2. PICK len : len = [g \in Groups |-> Touched(q, g)]
  OBVIOUS
<1>3. len \in [1..N -> Nat]
  BY <1>1, <1>2, ChunksOfRequest
<1>4. PICK ps : ps = [g \in Groups |-> [c \in 1..Touched(q, g) |-> <<g, FirstChunk(q, g) + c - 1>>]]
  OBVIOUS
<1>5. ASSUME NEW g \in Groups
      PROVE  /\ ps[g] \in Seq(Groups \X Chunks) /\ Len(ps[g]) = len[g] /\ len[g] = Touched(q, g)
             /\ \A c \in 1..Touched(q, g) : ps[g][c] = <<g, FirstChunk(q, g) + c - 1>>
  <2>1. PICK t \in Nat, n \in Nat : t = Touched(q, g) /\ n = FirstChunk(q, g) /\ n + t <= NumChunks
    BY ChunksOfRequest
  <2>2. ps[g] = [c \in 1..t |-> <<g, n + c - 1>>]
    BY <1>4, <2>1
  <2>3. \A c \in 1..t : n + c - 1 \in Chunks
    <3>1. NumChunks \in Nat
      BY ConstantFacts
    <3> QED
      BY <2>1, <3>1 DEF Chunks
  <2>4. len[g] = t
    BY <1>2, <2>1
  <2> QED
    BY <2>1, <2>2, <2>3, <2>4
<1>6. ps \in Seq(Seq(Groups \X Chunks)) /\ Len(ps) = N
  <2>1. ps \in [1..N -> Seq(Groups \X Chunks)]
    BY <1>1, <1>4, <1>5
  <2> QED
    BY <2>1, ASequence
<1>7. Joined(FlattenSeq(ps), ps, [g \in 1..N + 1 |-> Total(len, 1..g - 1)], N, Groups \X Chunks)
  BY <1>1, <1>3, <1>5, <1>6, FlattenAt
<1>8. Paths(q) = FlattenSeq(ps)
  BY <1>4 DEF Paths
<1> QED
  BY <1>1, <1>3, <1>5, <1>6, <1>7, <1>8

\* The plan has one item for each file of the request.
LEMMA PlanFacts ==
  ASSUME NEW q \in Asked
  PROVE  /\ Paths(q) \in Seq(Groups \X Chunks) /\ Plan(q) \in Seq(Item)
         /\ Len(Plan(q)) = Len(Paths(q))
         /\ \A p \in 1..Len(Paths(q)) :
              /\ ItemOf(Plan(q)[p], q, Paths(q)[p])
              /\ Plan(q)[p].stage = "queued" /\ Plan(q)[p].slot = None
<1>1. PICK N \in Nat, len \in [1..Len(Refs) -> Nat], ps \in Seq(Seq(Groups \X Chunks)) :
           /\ N = Len(Refs) /\ Groups = 1..N
           /\ \A g \in Groups : len[g] = Touched(q, g) /\ Len(ps[g]) = len[g]
           /\ \A g \in Groups : \A c \in 1..Touched(q, g) : ps[g][c] = <<g, FirstChunk(q, g) + c - 1>>
           /\ Joined(Paths(q), ps, [g \in 1..N + 1 |-> Total(len, 1..g - 1)], N, Groups \X Chunks)
  BY PathsJoined
<1>2. PICK start : start = [g \in 1..N + 1 |-> Total(len, 1..g - 1)]
  OBVIOUS
<1>3. Joined(Paths(q), ps, start, N, Groups \X Chunks)
  BY <1>1, <1>2
<1>4. PICK is : is = [g \in Groups |->
        [c \in 1..PlannedChunks(q, g) |->
          [group |-> g, copies |-> Copies(q, g, c - 1), stage |-> "queued", slot |-> None]]]
  OBVIOUS
<1>5. ASSUME NEW g \in Groups
      PROVE  /\ is[g] \in Seq(Item) /\ Len(is[g]) = len[g]
             /\ \A c \in 1..Len(is[g]) :
                  /\ ItemOf(is[g][c], q, ps[g][c])
                  /\ is[g][c].stage = "queued" /\ is[g][c].slot = None
  <2>1. PICK t \in Nat, n \in Nat : t = Touched(q, g) /\ n = FirstChunk(q, g) /\ t = PlannedChunks(q, g)
    BY ChunksOfRequest
  <2>2. is[g] = [c \in 1..t |->
           [group |-> g, copies |-> Copies(q, g, c - 1), stage |-> "queued", slot |-> None]]
    BY <1>4, <2>1
  <2>3. \A c \in 1..t : Copies(q, g, c - 1) = Wanted(q, g, n + c - 1)
    <3>1. \A c \in 1..t : c - 1 \in Nat /\ n + (c - 1) = n + c - 1
      OBVIOUS
    <3> QED
      BY <2>1, <3>1, CopiesAreWanted
  <2>4. \A c \in 1..t : Copies(q, g, c - 1) \in SUBSET Copy
    BY <2>3, WantedFacts
  <2>5. \A c \in 1..t : is[g][c] \in Item
    BY <2>2, <2>4 DEF Item, Stages
  <2>6. is[g] \in Seq(Item) /\ Len(is[g]) = t
    BY <2>2, <2>5
  <2>7. \A c \in 1..t : ps[g][c] = <<g, n + c - 1>>
    BY <1>1, <2>1
  <2>8. \A c \in 1..t :
          /\ is[g][c].group = g /\ is[g][c].copies = Wanted(q, g, n + c - 1)
          /\ is[g][c].stage = "queued" /\ is[g][c].slot = None
    BY <2>2, <2>3
  <2>9. \A c \in 1..t : ItemOf(is[g][c], q, ps[g][c])
    <3> SUFFICES ASSUME NEW c \in 1..t
                 PROVE  ItemOf(is[g][c], q, ps[g][c])
      OBVIOUS
    <3>1. ps[g][c] = <<g, n + c - 1>>
      BY <2>7
    <3>2. ps[g][c][1] = g /\ ps[g][c][2] = n + c - 1
      BY <3>1
    <3> QED
      BY <2>8, <3>2 DEF ItemOf
  <2>10. len[g] = t /\ 1..Len(is[g]) = 1..t
    BY <1>1, <2>1, <2>6
  <2> QED
    BY <2>6, <2>8, <2>9, <2>10
<1>6. Joined(FlattenSeq(is), is, start, N, Item)
  <2>1. DOMAIN is = 1..N /\ is = [g \in 1..N |-> is[g]]
    BY <1>1, <1>4
  <2>2. \A g \in 1..N : is[g] \in Seq(Item)
    BY <1>1, <1>5
  <2>3. is \in [1..N -> Seq(Item)]
    BY <2>1, <2>2
  <2>4. is \in Seq(Seq(Item)) /\ Len(is) = N
    BY <2>3, ASequence
  <2> QED
    BY <1>1, <1>2, <1>5, <2>4, FlattenAt
<1>7. Plan(q) = FlattenSeq(is)
  BY <1>4 DEF Plan
<1>8. /\ Paths(q) \in Seq(Groups \X Chunks) /\ Plan(q) \in Seq(Item)
      /\ Len(Plan(q)) = Len(Paths(q))
  BY <1>3, <1>6, <1>7 DEF Joined
<1>9. ASSUME NEW p \in 1..Len(Paths(q))
      PROVE  /\ ItemOf(Plan(q)[p], q, Paths(q)[p])
             /\ Plan(q)[p].stage = "queued" /\ Plan(q)[p].slot = None
  <2>1. PICK g \in 1..N, c \in Nat : c \in 1..Len(ps[g]) /\ p = start[g] + c
    BY <1>3 DEF Joined
  <2>2. Paths(q)[p] = ps[g][c]
    BY <1>3, <2>1 DEF Joined
  <2>3. c \in 1..Len(is[g])
    BY <1>1, <1>5, <2>1
  <2>4. Plan(q)[p] = is[g][c]
    BY <1>6, <1>7, <2>1, <2>3 DEF Joined
  <2> QED
    BY <1>1, <1>5, <2>2, <2>3, <2>4
<1> QED
  BY <1>8, <1>9

-----------------------------------------------------------------------------
(* The inductive invariant. *)

\* The items of a job are its plan, and keep a slot while they have data in it.
Planned(J) ==
  /\ J \in Job
  /\ Len(J.items) = Len(Paths(J.q))
  /\ \A p \in 1..Len(J.items) :
       /\ ItemOf(J.items[p], J.q, Paths(J.q)[p])
       /\ J.items[p].stage \in {"io", "read"} => J.items[p].slot \in Slots

\* The files a load reads are there.
Backed(J, F) == ~J.store => \A p \in 1..Len(J.items) : F[Paths(J.q)[p]] # None

JobInv == job # None => Planned(job) /\ Backed(job, files)

Memory ==
  /\ ring \in [0..RingBytes - 1 -> Bytes]
  /\ DOMAIN files = Groups \X Chunks
  /\ \A f \in Groups \X Chunks :
       files[f] # None => files[f] \in [0..SlotPad(f[1]) - 1 -> Bytes]
  /\ DOMAIN gpu = GpuPages
  /\ \A x \in GpuPages : gpu[x] \in [PageBytes(x[1], x[2]) -> Bytes]

\* What is registered follows from the mode until the pool is shut down, and the only
\* worker that has it waits for its IO before that.
Registration ==
  /\ mode \in {"none", "full", "per_slot", "compat"} /\ pool \in Uses
  /\ registered \subseteq Nat \X Nat
  /\ mode = "none" => job = None /\ pool = NoUse
  /\ mode = "full" /\ ~pool.shut => registered = FullRing
  /\ mode = "per_slot" /\ ~pool.shut => registered = {SlotRange(s) : s \in Slots}
  /\ pool.shut /\ ~pool.shared => ~Open /\ IoDrained

RingInv == JobInv /\ Memory /\ Registration

-----------------------------------------------------------------------------
(* Addresses. *)

\* A slot is inside the ring, and a byte of the ring in one slot.
LEMMA AddressFacts ==
  ASSUME NEW s \in Slots, NEW i \in 0..SlotBytes - 1
  PROVE  /\ s * SlotBytes + i \in 0..RingBytes - 1
         /\ (s * SlotBytes + i) \div SlotBytes = s
<1>1. PICK d \in Nat \ {0}, n \in Nat : d = Depth /\ n = SlotBytes /\ RingBytes = d * n
  BY ConstantFacts, SlotFacts
<1>2. s \in 0..d - 1 /\ i \in 0..n - 1 /\ n # 0
  BY <1>1 DEF Slots
<1>3. (s + 1) * n <= d * n /\ (s + 1) * n = s * n + n /\ s * n \in Nat
  BY <1>2
<1>4. (s * n + i) \div n = s
  BY <1>2, DivUnique
<1>5. s * n + i \in 0..d * n - 1
  <2>1. d * n \in Nat
    OBVIOUS
  <2> QED
    BY <1>2, <1>3, <2>1
<1> QED
  BY <1>1, <1>4, <1>5

\* Copies and IO address a slot alike in every mode.
LEMMA SameAddress ==
  ASSUME NEW it, it.slot \in Slots, NEW i \in Nat
  PROVE  IoByte(it, i) = it.slot * SlotBytes + i /\ CopyByte(it, i) = it.slot * SlotBytes + i
<1>1. PICK s : s = it.slot
  OBVIOUS
<1>2. PICK n \in Nat : n = SlotBytes /\ RingBytes \div Depth = n
  BY SlotFacts
<1>3. s \in Nat
  BY <1>1, ConstantFacts DEF Slots
<1>4. PICK m \in Nat : m = s * n
  BY <1>3
<1>5. IoByte(it, i) = m + i
  <2>1. BufArgs(s).base + BufArgs(s).off = m
    BY <1>2, <1>4 DEF BufArgs
  <2> QED
    BY <1>1, <2>1 DEF IoByte
<1>6. CopyByte(it, i) = m + i
  BY <1>1, <1>2, <1>4 DEF CopyByte
<1> QED
  BY <1>1, <1>2, <1>4, <1>5, <1>6

\* What the model may find in a page.
LEMMA BytesFacts ==
  /\ Junk \in Bytes
  /\ \A x \in GpuPages : JunkPages[x] \in [PageBytes(x[1], x[2]) -> Bytes]
  /\ \A x \in GpuPages, b \in Blocks : Kv(x[1], x[2], b) \in [PageBytes(x[1], x[2]) -> Bytes]
<1>1. Junk \in Bytes
  BY DEF Bytes
<1>2. \A x \in GpuPages : JunkPages[x] \in [PageBytes(x[1], x[2]) -> Bytes]
  BY <1>1 DEF JunkPages
<1>3. ASSUME NEW x \in GpuPages, NEW b \in Blocks
      PROVE  Kv(x[1], x[2], b) \in [PageBytes(x[1], x[2]) -> Bytes]
  <2>1. \A i \in PageBytes(x[1], x[2]) : <<x[1], x[2], b, i>> \in Bytes
    BY DEF Bytes
  <2> QED
    BY <2>1 DEF Kv
<1> QED
  BY <1>1, <1>2, <1>3

\* The page of a copy.
LEMMA CopyPage ==
  ASSUME NEW q \in Asked, NEW g \in Groups, NEW c, NEW op \in Wanted(q, g, c)
  PROVE  /\ <<g, op.ref, op.page>> \in GpuPages
         /\ op.off \in Nat /\ op.size \in Nat
         /\ PageBytes(g, op.ref) = 0..op.size - 1
         /\ op.off + op.size <= SlotBytes
<1>1. op \in Copy /\ Valid(op) /\ op.ref \in DOMAIN Refs[g] /\ op.size = Refs[g][op.ref]
  BY WantedFacts
<1>2. op.page \in Pages /\ op.off \in Nat /\ op.size \in Nat
  BY <1>1 DEF Copy
<1> QED
  BY <1>1, <1>2 DEF Valid, PageBytes, GpuPages

-----------------------------------------------------------------------------
(* What the steps do to the job. *)

\* An item moves on.
Moved(J, p, stage, s) == [J EXCEPT !.items[p].stage = stage, !.items[p].slot = s]

\* An item that moves keeps its chunk and its copies, and so does every other item.
LEMMA MovedFacts ==
  ASSUME NEW J, Planned(J), NEW p \in 1..Len(J.items), NEW stage \in Stages,
         NEW s \in Slots \cup {None}, stage \in {"io", "read"} => s \in Slots,
         NEW K, K = Moved(J, p, stage, s)
  PROVE  /\ Planned(K) /\ K.q = J.q /\ K.store = J.store /\ Len(K.items) = Len(J.items)
         /\ K.items[p].stage = stage /\ K.items[p].slot = s
         /\ \A k \in 1..Len(J.items) : k # p => K.items[k] = J.items[k]
<1>1. J \in Job /\ J.items \in Seq(Item) /\ Len(J.items) \in Nat /\ J.items[p] \in Item
  BY DEF Planned, Job
<1>2. PICK it : it = [[J.items[p] EXCEPT !.stage = stage] EXCEPT !.slot = s]
  OBVIOUS
<1>3. /\ it \in Item /\ it.stage = stage /\ it.slot = s
      /\ it.group = J.items[p].group /\ it.copies = J.items[p].copies
  BY <1>1, <1>2 DEF Item
<1>4. PICK is : is = [J.items EXCEPT ![p] = it]
  OBVIOUS
<1>5. /\ is \in Seq(Item) /\ Len(is) = Len(J.items) /\ is[p] = it
      /\ \A k \in 1..Len(J.items) : k # p => is[k] = J.items[k]
  BY <1>1, <1>3, <1>4
<1>6. K = [J EXCEPT !.items = is]
  BY <1>1, <1>2, <1>4 DEF Moved, Job
<1>7. K \in Job /\ K.items = is /\ K.q = J.q /\ K.store = J.store
  BY <1>1, <1>5, <1>6 DEF Job
<1>8. \A k \in 1..Len(is) :
        /\ ItemOf(is[k], K.q, Paths(K.q)[k])
        /\ is[k].stage \in {"io", "read"} => is[k].slot \in Slots
  BY <1>3, <1>5, <1>7 DEF Planned, ItemOf
<1>9. Planned(K)
  BY <1>5, <1>7, <1>8 DEF Planned
<1> QED
  BY <1>3, <1>5, <1>7, <1>9

\* A read keeps the slot of its item.
LEMMA ReadMoves ==
  ASSUME NEW J, Planned(J), NEW p \in 1..Len(J.items)
  PROVE  [J EXCEPT !.items[p].stage = "read"] = Moved(J, p, "read", J.items[p].slot)
<1>1. J \in Job /\ J.items \in Seq(Item) /\ J.items[p] \in Item
  BY DEF Planned, Job
<1>2. PICK it : it = [J.items[p] EXCEPT !.stage = "read"]
  OBVIOUS
<1>3. PICK same : same = [[J.items[p] EXCEPT !.stage = "read"] EXCEPT !.slot = J.items[p].slot]
  OBVIOUS
<1>4. same = it
  BY <1>1, <1>2, <1>3 DEF Item
<1>5. [J EXCEPT !.items[p].stage = "read"] = [J EXCEPT !.items = [J.items EXCEPT ![p] = it]]
  BY <1>1, <1>2 DEF Job
<1>6. Moved(J, p, "read", J.items[p].slot) = [J EXCEPT !.items = [J.items EXCEPT ![p] = same]]
  BY <1>1, <1>3 DEF Moved, Job
<1> QED
  BY <1>4, <1>5, <1>6

\* The item of a step, with its chunk.
LEMMA ItemFacts ==
  ASSUME NEW J, Planned(J), NEW p \in 1..Len(J.items)
  PROVE  LET it == J.items[p]
         IN  /\ it \in Item /\ it.group \in Groups /\ J.q \in Asked
             /\ Paths(J.q)[p] \in Groups \X Chunks
             /\ Paths(J.q)[p][1] = it.group
             /\ it.copies = Wanted(J.q, it.group, Paths(J.q)[p][2])
<1>1. PICK it : it = J.items[p]
  OBVIOUS
<1>2. J \in Job /\ J.items \in Seq(Item) /\ J.q \in Asked
  BY DEF Planned, Job
<1>3. it \in Item
  BY <1>1, <1>2
<1>4. Paths(J.q) \in Seq(Groups \X Chunks) /\ Len(J.items) = Len(Paths(J.q))
  BY <1>2, PlanFacts DEF Planned
<1>5. Paths(J.q)[p] \in Groups \X Chunks
  BY <1>4
<1>6. ItemOf(it, J.q, Paths(J.q)[p])
  BY <1>1 DEF Planned
<1>7. it.group \in Groups
  BY <1>3 DEF Item
<1> QED
  BY <1>1, <1>2, <1>3, <1>5, <1>6, <1>7 DEF ItemOf

\* An item of the job in flight moves on, and the files of a load stay as they are.
Moves(p, stage, s) ==
  /\ job # None /\ p \in DOMAIN job.items
  /\ stage \in Stages /\ s \in Slots \cup {None} /\ (stage \in {"io", "read"} => s \in Slots)
  /\ job' = Moved(job, p, stage, s)
  /\ job.store \/ files' = files

\* The job in flight is still planned, and its other items are as they were.
LEMMA MovesJob ==
  ASSUME JobInv, NEW p, NEW stage, NEW s, Moves(p, stage, s)
  PROVE  /\ JobInv'
         /\ \A k \in DOMAIN job'.items : k \in DOMAIN job.items /\ (k # p => job'.items[k] = job.items[k])
         /\ job'.items[p].stage = stage
<1>1. PICK J : J = job
  OBVIOUS
<1>2. PICK K : K = Moved(J, p, stage, s)
  OBVIOUS
<1>3. Planned(J) /\ Backed(J, files) /\ p \in DOMAIN J.items
  BY <1>1 DEF JobInv, Moves
<1>4. DOMAIN J.items = 1..Len(J.items)
  BY <1>3 DEF Planned, Job
<1>5. /\ Planned(K) /\ K.q = J.q /\ K.store = J.store /\ Len(K.items) = Len(J.items)
      /\ K.items[p].stage = stage
      /\ \A k \in 1..Len(J.items) : k # p => K.items[k] = J.items[k]
  <2>1. /\ p \in 1..Len(J.items) /\ stage \in Stages /\ s \in Slots \cup {None}
        /\ (stage \in {"io", "read"} => s \in Slots)
    BY <1>3, <1>4 DEF Moves
  <2> QED
    BY <1>2, <1>3, <2>1, MovedFacts
<1>6. DOMAIN K.items = 1..Len(K.items)
  BY <1>5 DEF Planned, Job
<1>7. Backed(K, files')
  BY <1>1, <1>3, <1>5 DEF Backed, Moves
<1>8. job' = K
  BY <1>1, <1>2 DEF Moves
<1>9. JobInv'
  BY <1>5, <1>7, <1>8 DEF JobInv
<1> QED
  BY <1>1, <1>4, <1>5, <1>6, <1>8, <1>9

\* Registration survives, as no IO starts once the only worker is shut down.
LEMMA MovesRegistration ==
  ASSUME JobInv, Registration, NEW p, NEW stage, NEW s, Moves(p, stage, s),
         mode' = mode, registered' = registered, pool' = pool, stage # "io" \/ Open
  PROVE  Registration'
<1>1. mode # "none"
  BY DEF Registration, Moves
<1>2. ASSUME pool.shut, ~pool.shared
      PROVE  ~Open' /\ IoDrained'
  <2>1. stage # "io" /\ \A k \in DOMAIN job.items : job.items[k].stage # "io"
    BY <1>2 DEF Registration, IoDrained, At, Open, Moves
  <2>2. \A k \in DOMAIN job'.items : job'.items[k].stage # "io"
    BY <2>1, MovesJob
  <2> QED
    BY <1>2, <2>2 DEF Registration, IoDrained, At, Open
<1> QED
  BY <1>1, <1>2 DEF Registration

-----------------------------------------------------------------------------
(* What the steps of an item do to the bytes. *)

\* Where byte i of a copy is in slot s.
At0(s, op, i) == s * SlotBytes + op.off + i

\* The offset of a copy is a place in the slot.
LEMMA PlaceFacts ==
  ASSUME NEW q \in Asked, NEW g \in Groups, NEW c, NEW op \in Wanted(q, g, c),
         NEW s \in Slots, NEW i \in 0..op.size - 1
  PROVE  /\ op.off + i \in 0..SlotBytes - 1 /\ s * SlotBytes \in Nat
         /\ At0(s, op, i) = s * SlotBytes + (op.off + i)
         /\ At0(s, op, i) \in 0..RingBytes - 1 /\ At0(s, op, i) \div SlotBytes = s
<1>1. PICK o \in Nat, z \in Nat : o = op.off /\ z = op.size /\ o + z <= SlotBytes
  BY CopyPage
<1>2. PICK n \in Nat, k \in Nat : n = SlotBytes /\ k = s
  BY ConstantFacts, SlotFacts DEF Slots
<1>3. o + i \in 0..n - 1 /\ i \in Nat
  BY <1>1, <1>2
<1>4. k * n \in Nat
  OBVIOUS
<1>5. k * n + o + i = k * n + (o + i)
  BY <1>3, <1>4
<1>6. s * SlotBytes + (o + i) \in 0..RingBytes - 1 /\ (s * SlotBytes + (o + i)) \div SlotBytes = s
  BY <1>2, <1>3, AddressFacts
<1> QED
  BY <1>1, <1>2, <1>3, <1>4, <1>5, <1>6 DEF At0

\* A gather puts pages where the copies say, into a free slot, and nothing elsewhere.
LEMMA GatherFacts ==
  ASSUME RingInv, NEW p, Gather(p)
  PROVE  /\ Open /\ job.store /\ At(p, "queued")
         /\ UNCHANGED <<mode, registered, pool, files, gpu>>
         /\ \E s \in Slots :
              /\ ~Holding(s) /\ Moves(p, "io", s)
              /\ DOMAIN ring' = 0..RingBytes - 1 /\ ring' = [x \in 0..RingBytes - 1 |-> ring'[x]]
              /\ \A x \in 0..RingBytes - 1 :
                   \/ /\ ring'[x] = ring[x]
                      /\ \A op \in job.items[p].copies, i \in Nat : i < op.size => At0(s, op, i) # x
                   \/ \E op \in job.items[p].copies, i \in Nat :
                        /\ i < op.size /\ At0(s, op, i) = x
                        /\ ring'[x] = gpu[<<job.items[p].group, op.ref, op.page>>][i]
<1>1. Open /\ job.store /\ At(p, "queued") /\ UNCHANGED <<mode, registered, pool, files, gpu>>
  BY DEF Gather
<1>2. PICK J : J = job
  OBVIOUS
<1>3. PICK g : g = J.items[p].group
  OBVIOUS
<1>4. Planned(J) /\ p \in 1..Len(J.items)
  <2>1. Planned(J) /\ p \in DOMAIN J.items
    BY <1>1, <1>2 DEF RingInv, JobInv, At
  <2> QED
    BY <2>1 DEF Planned, Job
<1>5. PICK s \in Slots :
       \E it :
         /\ it = [job.items[p] EXCEPT !.slot = s]
         /\ ~Holding(s) /\ SetItem(p, "io", s)
         /\ \E last \in [Filled(it) -> it.copies] :
              /\ \A o \in Filled(it) : last[o] \in Hits(it, o)
              /\ ring' = [x \in DOMAIN ring |->
                            IF \E o \in Filled(it) : CopyByte(it, o) = x
                            THEN LET o == x - CopyByte(it, 0)
                                     op == last[o]
                                 IN gpu[<<it.group, op.ref, op.page>>][o - op.off]
                            ELSE ring[x]]
  BY Zenon DEF Gather
<1>6. PICK it :
         /\ it = [job.items[p] EXCEPT !.slot = s]
         /\ ~Holding(s) /\ SetItem(p, "io", s)
         /\ \E last \in [Filled(it) -> it.copies] :
              /\ \A o \in Filled(it) : last[o] \in Hits(it, o)
              /\ ring' = [x \in DOMAIN ring |->
                            IF \E o \in Filled(it) : CopyByte(it, o) = x
                            THEN LET o == x - CopyByte(it, 0)
                                     op == last[o]
                                 IN gpu[<<it.group, op.ref, op.page>>][o - op.off]
                            ELSE ring[x]]
  BY <1>5, Zenon
<1>7. PICK last \in [Filled(it) -> it.copies] :
              /\ \A o \in Filled(it) : last[o] \in Hits(it, o)
              /\ ring' = [x \in DOMAIN ring |->
                            IF \E o \in Filled(it) : CopyByte(it, o) = x
                            THEN LET o == x - CopyByte(it, 0)
                                     op == last[o]
                                 IN gpu[<<it.group, op.ref, op.page>>][o - op.off]
                            ELSE ring[x]]
  BY <1>6, Zenon
<1>8. Moves(p, "io", s)
  BY <1>1, <1>6 DEF SetItem, Moved, Moves, At, Stages
<1>9. /\ J.items[p] \in Item /\ g \in Groups /\ J.q \in Asked
      /\ J.items[p].copies = Wanted(J.q, g, Paths(J.q)[p][2])
  BY <1>3, <1>4, ItemFacts
<1>10. it.group = g /\ it.copies = J.items[p].copies /\ it.slot = s
  BY <1>2, <1>3, <1>6, <1>9 DEF Item
<1>11. PICK base \in Nat : base = s * SlotBytes
  BY ConstantFacts, SlotFacts DEF Slots
<1>12. \A o \in Nat : CopyByte(it, o) = base + o
  BY <1>10, <1>11, SameAddress
<1>13. \A op \in it.copies : op.off \in Nat /\ op.size \in Nat /\ op.off + op.size <= SlotBytes
  <2>1. PICK c : it.copies = Wanted(J.q, g, c)
    BY <1>9, <1>10
  <2>2. \A op \in Wanted(J.q, g, c) :
          op.off \in Nat /\ op.size \in Nat /\ op.off + op.size <= SlotBytes
    BY <1>9, CopyPage
  <2> QED
    BY <2>1, <2>2
<1>14. DOMAIN ring = 0..RingBytes - 1
  BY DEF RingInv, Memory
<1>15. ASSUME NEW x \in 0..RingBytes - 1, NEW o \in Filled(it), CopyByte(it, o) = x
       PROVE  \E op \in it.copies, i \in Nat :
                        /\ i < op.size /\ At0(s, op, i) = x
                        /\ ring'[x] = gpu[<<g, op.ref, op.page>>][i]
  <2>1. o \in Nat /\ 0 \in Nat
    BY DEF Filled
  <2>2. x - CopyByte(it, 0) = o
    BY <1>12, <1>15, <2>1
  <2>3. PICK op : op = last[o]
    OBVIOUS
  <2>4. op \in it.copies /\ op.off <= o /\ o < op.off + op.size
    BY <1>7, <2>3 DEF Hits
  <2>5. PICK i \in Nat : i = o - op.off /\ i < op.size
    BY <1>13, <2>1, <2>4
  <2>6. base + op.off + i = x
    BY <1>12, <1>13, <1>15, <2>1, <2>4, <2>5
  <2>7. ring'[x] = gpu[<<g, op.ref, op.page>>][i]
    BY <1>7, <1>10, <1>14, <1>15, <2>2, <2>3, <2>5
  <2> QED
    BY <1>11, <2>4, <2>5, <2>6, <2>7 DEF At0
<1>16. ASSUME NEW x \in 0..RingBytes - 1, ~ \E o \in Filled(it) : CopyByte(it, o) = x
       PROVE  /\ ring'[x] = ring[x]
              /\ \A op \in it.copies, i \in Nat : i < op.size => At0(s, op, i) # x
  <2>1. ring'[x] = ring[x]
    BY <1>7, <1>14, <1>16
  <2>2. ASSUME NEW op \in it.copies, NEW i \in Nat, i < op.size, At0(s, op, i) = x
        PROVE  FALSE
    <3>1. PICK o : o = op.off + i
      OBVIOUS
    <3>2. o \in 0..SlotBytes - 1 /\ o \in Nat /\ op.off <= o /\ o < op.off + op.size
      BY <1>13, <2>2, <3>1, SlotFacts
    <3>3. o \in Filled(it)
      BY <2>2, <3>2 DEF Filled, Hits
    <3>4. CopyByte(it, o) = x
      BY <1>11, <1>12, <1>13, <2>2, <3>1, <3>2 DEF At0
    <3> QED
      BY <1>16, <3>3, <3>4
  <2> QED
    BY <2>1, <2>2
<1>17. DOMAIN ring' = 0..RingBytes - 1 /\ ring' = [x \in 0..RingBytes - 1 |-> ring'[x]]
  BY <1>7, <1>14
<1>18. /\ it.copies = job.items[p].copies /\ g = job.items[p].group
       /\ \A x \in 0..RingBytes - 1 :
            \/ /\ ring'[x] = ring[x]
               /\ \A op \in it.copies, i \in Nat : i < op.size => At0(s, op, i) # x
            \/ \E op \in it.copies, i \in Nat :
                 /\ i < op.size /\ At0(s, op, i) = x
                 /\ ring'[x] = gpu[<<g, op.ref, op.page>>][i]
  <2>1. it.copies = job.items[p].copies /\ g = job.items[p].group
    BY <1>2, <1>3, <1>10
  <2>2. \A x \in 0..RingBytes - 1 :
          (\E o \in Filled(it) : CopyByte(it, o) = x) =>
            \E op \in it.copies, i \in Nat :
              /\ i < op.size /\ At0(s, op, i) = x
              /\ ring'[x] = gpu[<<g, op.ref, op.page>>][i]
    BY <1>15, Zenon
  <2>3. \A x \in 0..RingBytes - 1 :
          (~ \E o \in Filled(it) : CopyByte(it, o) = x) =>
            /\ ring'[x] = ring[x]
            /\ \A op \in it.copies, i \in Nat : i < op.size => At0(s, op, i) # x
    BY <1>16, Zenon
  <2> QED
    BY <2>1, <2>2, <2>3, Zenon
<1>19. ASSUME NEW x \in 0..RingBytes - 1
       PROVE  \/ /\ ring'[x] = ring[x]
                 /\ \A op \in job.items[p].copies, i \in Nat : i < op.size => At0(s, op, i) # x
              \/ \E op \in job.items[p].copies, i \in Nat :
                   /\ i < op.size /\ At0(s, op, i) = x
                   /\ ring'[x] = gpu[<<job.items[p].group, op.ref, op.page>>][i]
  <2>1. CASE /\ ring'[x] = ring[x]
             /\ \A op \in it.copies, i \in Nat : i < op.size => At0(s, op, i) # x
    <3>1. \A op \in job.items[p].copies, i \in Nat : i < op.size => At0(s, op, i) # x
      BY <1>18, <2>1
    <3> QED
      BY <2>1, <3>1
  <2>2. ASSUME NEW op \in it.copies, NEW i \in Nat, i < op.size, At0(s, op, i) = x,
               ring'[x] = gpu[<<g, op.ref, op.page>>][i]
        PROVE  \E o \in job.items[p].copies, k \in Nat :
                   /\ k < o.size /\ At0(s, o, k) = x
                   /\ ring'[x] = gpu[<<job.items[p].group, o.ref, o.page>>][k]
    <3>1. op \in job.items[p].copies
      BY <1>18
    <3>2. ring'[x] = gpu[<<job.items[p].group, op.ref, op.page>>][i]
      BY <1>18, <2>2
    <3> QED
      BY <2>2, <3>1, <3>2
  <2> QED
    BY <1>18, <2>1, <2>2, Zenon
<1> QED
  BY <1>1, <1>6, <1>8, <1>17, <1>19

\* The bytes of a slot.
SlotByte(s, i) == s * SlotBytes + i

\* A write takes the bytes of the slot to the file, and gives the slot back.
LEMMA WriteFacts ==
  ASSUME RingInv, NEW p, Write(p)
  PROVE  LET J == job
             it == J.items[p]
             path == Paths(J.q)[p]
         IN  /\ J.store /\ At(p, "io") /\ p \in 1..Len(J.items) /\ Planned(J)
             /\ UNCHANGED <<mode, registered, pool, gpu>>
             /\ it.slot \in Slots /\ Moves(p, "done", None)
             /\ ring' = ClearSlot(it.slot)
             /\ path \in Groups \X Chunks /\ path[1] = it.group
             /\ it.copies = Wanted(J.q, it.group, path[2])
             /\ DOMAIN files' = DOMAIN files
             /\ \A f \in Groups \X Chunks : f # path => files'[f] = files[f]
             /\ files'[path] = [i \in 0..SlotPad(it.group) - 1 |-> ring[SlotByte(it.slot, i)]]
<1>1. PICK J, it, path : J = job /\ it = J.items[p] /\ path = Paths(J.q)[p]
  OBVIOUS
<1>2. /\ J.store /\ At(p, "io") /\ UNCHANGED <<mode, registered, pool, gpu>>
      /\ SetItem(p, "done", None) /\ ring' = ClearSlot(it.slot)
      /\ files' = [files EXCEPT ![path] = [i \in 0..SlotPad(it.group) - 1 |-> ring[IoByte(it, i)]]]
  BY <1>1 DEF Write
<1>3. Planned(J) /\ p \in 1..Len(J.items)
  <2>1. Planned(J) /\ p \in DOMAIN J.items
    BY <1>1, <1>2 DEF RingInv, JobInv, At
  <2> QED
    BY <2>1 DEF Planned, Job
<1>4. /\ path \in Groups \X Chunks /\ path[1] = it.group /\ it.group \in Groups
      /\ it.copies = Wanted(J.q, it.group, path[2])
  BY <1>1, <1>3, ItemFacts
<1>5. it.slot \in Slots
  BY <1>1, <1>2, <1>3 DEF Planned, At
<1>6. Moves(p, "done", None)
  BY <1>1, <1>2 DEF SetItem, Moved, Moves, At, Stages
<1>7. \A i \in 0..SlotPad(it.group) - 1 : IoByte(it, i) = SlotByte(it.slot, i)
  BY <1>5, SameAddress DEF SlotByte
<1>8. PICK bytes : bytes = [i \in 0..SlotPad(it.group) - 1 |-> ring[IoByte(it, i)]]
  OBVIOUS
<1>9. bytes = [i \in 0..SlotPad(it.group) - 1 |-> ring[SlotByte(it.slot, i)]]
  BY <1>7, <1>8
<1>10. /\ DOMAIN files' = DOMAIN files /\ files'[path] = bytes
       /\ \A f \in Groups \X Chunks : f # path => files'[f] = files[f]
  <2>1. DOMAIN files = Groups \X Chunks
    BY DEF RingInv, Memory
  <2> QED
    BY <1>2, <1>4, <1>8, <2>1
<1> QED
  BY <1>1, <1>2, <1>3, <1>4, <1>5, <1>6, <1>9, <1>10

\* A read fills a free slot later on.
LEMMA StartReadFacts ==
  ASSUME RingInv, NEW p, StartRead(p)
  PROVE  /\ Open /\ ~job.store /\ At(p, "queued")
         /\ UNCHANGED <<mode, registered, pool, ring, files, gpu>>
         /\ \E s \in Slots : ~Holding(s) /\ Moves(p, "io", s)
<1>1. /\ Open /\ ~job.store /\ At(p, "queued")
      /\ UNCHANGED <<mode, registered, pool, ring, files, gpu>>
  BY DEF StartRead
<1>2. PICK s \in Slots : ~Holding(s) /\ SetItem(p, "io", s)
  BY DEF StartRead
<1>3. Moves(p, "io", s)
  BY <1>1, <1>2 DEF SetItem, Moved, Moves, At, Stages
<1> QED
  BY <1>1, <1>2, <1>3

\* A read takes the bytes of the file to the slot.
LEMMA ReadFacts ==
  ASSUME RingInv, NEW p, Read(p)
  PROVE  LET J == job
             it == J.items[p]
             path == Paths(J.q)[p]
         IN  /\ ~J.store /\ At(p, "io") /\ p \in 1..Len(J.items) /\ Planned(J)
             /\ UNCHANGED <<mode, registered, pool, files, gpu>>
             /\ it.slot \in Slots /\ Moves(p, "read", it.slot)
             /\ path \in Groups \X Chunks /\ path[1] = it.group
             /\ it.copies = Wanted(J.q, it.group, path[2])
             /\ files[path] # None
             /\ files[path] \in [0..SlotPad(it.group) - 1 -> Bytes]
             /\ DOMAIN ring' = 0..RingBytes - 1 /\ ring' = [x \in 0..RingBytes - 1 |-> ring'[x]]
             /\ \A i \in 0..SlotPad(it.group) - 1 : ring'[SlotByte(it.slot, i)] = files[path][i]
             /\ \A x \in 0..RingBytes - 1 :
                  \/ ring'[x] = ring[x] /\ \A i \in 0..SlotPad(it.group) - 1 : SlotByte(it.slot, i) # x
                  \/ \E i \in 0..SlotPad(it.group) - 1 : SlotByte(it.slot, i) = x
<1>1. PICK J, it, path : J = job /\ it = J.items[p] /\ path = Paths(J.q)[p]
  OBVIOUS
<1>2. PICK bytes : bytes = files[path]
  OBVIOUS
<1>3. PICK Window : Window = {IoByte(it, i) : i \in DOMAIN bytes}
  OBVIOUS
<1>4. /\ ~J.store /\ At(p, "io") /\ UNCHANGED <<mode, registered, pool, files, gpu>>
      /\ job' = [J EXCEPT !.items[p].stage = "read"]
      /\ ring' = [x \in DOMAIN ring |-> IF x \in Window THEN bytes[x - IoByte(it, 0)] ELSE ring[x]]
  BY <1>1, <1>2, <1>3 DEF Read
<1>5. Planned(J) /\ Backed(J, files) /\ p \in 1..Len(J.items) /\ p \in DOMAIN J.items
  <2>1. Planned(J) /\ Backed(J, files) /\ p \in DOMAIN J.items
    BY <1>1, <1>4 DEF RingInv, JobInv, At
  <2> QED
    BY <2>1 DEF Planned, Job
<1>6. /\ path \in Groups \X Chunks /\ path[1] = it.group /\ it.group \in Groups
      /\ it.copies = Wanted(J.q, it.group, path[2])
  BY <1>1, <1>5, ItemFacts
<1>7. it.slot \in Slots
  BY <1>1, <1>4, <1>5 DEF Planned, At
<1>8. Moves(p, "read", it.slot)
  <2>1. job' = Moved(J, p, "read", it.slot)
    BY <1>1, <1>4, <1>5, ReadMoves
  <2> QED
    BY <1>1, <1>4, <1>5, <1>7, <2>1 DEF Moves, At, Stages
<1>9. bytes # None
  BY <1>1, <1>2, <1>4, <1>5 DEF Backed
<1>10. PICK n \in Nat : n = SlotPad(it.group) /\ n <= SlotBytes
  BY <1>6, SlotFacts
<1>11. bytes \in [0..n - 1 -> Bytes]
  BY <1>2, <1>6, <1>9, <1>10 DEF RingInv, Memory
<1>12. PICK base \in Nat : base = it.slot * SlotBytes
  BY <1>7, ConstantFacts, SlotFacts DEF Slots
<1>13. \A i \in Nat : IoByte(it, i) = base + i
  BY <1>7, <1>12, SameAddress
<1>14. \A i \in 0..n - 1 : SlotByte(it.slot, i) = base + i /\ base + i \in 0..RingBytes - 1
  <2>1. \A i \in 0..n - 1 : i \in 0..SlotBytes - 1
    BY <1>10, SlotFacts
  <2> QED
    BY <1>7, <1>12, <2>1, AddressFacts DEF SlotByte
<1>15. DOMAIN ring = 0..RingBytes - 1
  BY DEF RingInv, Memory
<1>16. DOMAIN bytes = 0..n - 1 /\ \A i \in 0..n - 1 : i \in Nat
  BY <1>11
<1>17. Window = {base + i : i \in 0..n - 1}
  BY <1>3, <1>13, <1>16
<1>18. IoByte(it, 0) = base
  BY <1>13
<1>19. \A i \in 0..n - 1 : ring'[base + i] = bytes[i]
  <2>1. \A i \in 0..n - 1 : base + i - base = i
    OBVIOUS
  <2> QED
    BY <1>4, <1>14, <1>15, <1>17, <1>18, <2>1
<1>20. \A x \in 0..RingBytes - 1 :
         \/ ring'[x] = ring[x] /\ \A i \in 0..n - 1 : base + i # x
         \/ \E i \in 0..n - 1 : base + i = x
  BY <1>4, <1>15, <1>17
<1>21. /\ \A i \in 0..n - 1 : ring'[SlotByte(it.slot, i)] = bytes[i]
       /\ \A x \in 0..RingBytes - 1 :
            \/ ring'[x] = ring[x] /\ \A i \in 0..n - 1 : SlotByte(it.slot, i) # x
            \/ \E i \in 0..n - 1 : SlotByte(it.slot, i) = x
  BY <1>14, <1>19, <1>20
<1>22. DOMAIN ring' = 0..RingBytes - 1 /\ ring' = [x \in 0..RingBytes - 1 |-> ring'[x]]
  BY <1>4, <1>15
<1>23. /\ files[path] # None /\ files[path] \in [0..SlotPad(it.group) - 1 -> Bytes]
       /\ \A i \in 0..SlotPad(it.group) - 1 : ring'[SlotByte(it.slot, i)] = files[path][i]
       /\ \A x \in 0..RingBytes - 1 :
            \/ ring'[x] = ring[x] /\ \A i \in 0..SlotPad(it.group) - 1 : SlotByte(it.slot, i) # x
            \/ \E i \in 0..SlotPad(it.group) - 1 : SlotByte(it.slot, i) = x
  BY <1>2, <1>9, <1>10, <1>11, <1>21
<1>24. ~J.store /\ At(p, "io") /\ UNCHANGED <<mode, registered, pool, files, gpu>>
  BY <1>4
<1> QED
  BY <1>1, <1>5, <1>6, <1>7, <1>8, <1>22, <1>23, <1>24

\* The copies of an item that fill page x.
Mine(it, x) == {op \in it.copies : x = <<it.group, op.ref, op.page>>}

\* A scatter fills the pages of the copies from the slot, and gives the slot back.
Scatters(J, it, p) ==
  /\ At(p, "read") /\ p \in 1..Len(J.items) /\ Planned(J)
  /\ UNCHANGED <<mode, registered, pool, files>>
  /\ it.slot \in Slots /\ Moves(p, "done", None) /\ ring' = ClearSlot(it.slot)
  /\ DOMAIN gpu' = GpuPages
  /\ \A x \in GpuPages : Mine(it, x) = {} => gpu'[x] = gpu[x]
  /\ \A x \in GpuPages : Mine(it, x) # {} =>
       \E op \in Mine(it, x) :
         gpu'[x] = [i \in PageBytes(x[1], x[2]) |-> ring[At0(it.slot, op, i)]]

\* That is what the action does.
LEMMA ScatterFacts ==
  ASSUME RingInv, NEW p, Scatter(p)
  PROVE  \E J, it : J = job /\ it = J.items[p] /\ Scatters(J, it, p)
<1>1. PICK J, it : J = job /\ it = J.items[p]
  OBVIOUS
<1>2. /\ At(p, "read") /\ UNCHANGED <<mode, registered, pool, files>>
      /\ SetItem(p, "done", None) /\ ring' = ClearSlot(it.slot)
  BY <1>1 DEF Scatter
<1>3. gpu' = [x \in GpuPages |->
                IF Mine(it, x) = {} THEN gpu[x]
                ELSE LET op == CHOOSE o \in Mine(it, x) : TRUE
                     IN [i \in DOMAIN gpu[x] |-> ring[CopyByte(it, op.off + i)]]]
  BY <1>1 DEF Scatter, Mine
<1>4. Planned(J) /\ p \in 1..Len(J.items)
  <2>1. Planned(J) /\ p \in DOMAIN J.items
    BY <1>1, <1>2 DEF RingInv, JobInv, At
  <2> QED
    BY <2>1 DEF Planned, Job
<1>5. it.slot \in Slots
  BY <1>1, <1>2, <1>4 DEF Planned, At
<1>6. Moves(p, "done", None)
  BY <1>1, <1>2 DEF SetItem, Moved, Moves, At, Stages
<1>7. DOMAIN gpu' = GpuPages /\ \A x \in GpuPages : Mine(it, x) = {} => gpu'[x] = gpu[x]
  BY <1>3
<1>8. ASSUME NEW x \in GpuPages, Mine(it, x) # {}
      PROVE  \E op \in Mine(it, x) :
                    gpu'[x] = [i \in PageBytes(x[1], x[2]) |-> ring[At0(it.slot, op, i)]]
  <2>1. PICK op : op = CHOOSE o \in Mine(it, x) : TRUE
    OBVIOUS
  <2>2. op \in Mine(it, x) /\ op \in it.copies /\ x = <<it.group, op.ref, op.page>>
    BY <1>8, <2>1 DEF Mine
  <2>3. DOMAIN gpu[x] = PageBytes(x[1], x[2])
    BY DEF RingInv, Memory
  <2>4. gpu'[x] = [i \in PageBytes(x[1], x[2]) |-> ring[CopyByte(it, op.off + i)]]
    BY <1>3, <1>8, <2>1, <2>3
  <2>5. PICK q \in Asked, g \in Groups, c \in Chunks : g = it.group /\ op \in Wanted(q, g, c)
    <3>1. PICK q \in Asked, g \in Groups, c \in Chunks : g = it.group /\ it.copies = Wanted(q, g, c)
      BY <1>1, <1>4, ItemFacts
    <3> QED
      BY <2>2, <3>1
  <2>6. op.off \in Nat /\ PageBytes(x[1], x[2]) = 0..op.size - 1
    <3>1. op.off \in Nat /\ PageBytes(g, op.ref) = 0..op.size - 1
      <4>1. op \in Wanted(q, g, c)
        BY <2>5
      <4> QED
        BY <4>1, CopyPage
    <3> QED
      BY <2>2, <2>5, <3>1
  <2>7. ASSUME NEW i \in PageBytes(x[1], x[2])
        PROVE  CopyByte(it, op.off + i) = At0(it.slot, op, i)
    <3>1. op.off + i \in Nat /\ i \in Nat /\ i \in 0..op.size - 1
      BY <2>6
    <3>2. CopyByte(it, op.off + i) = it.slot * SlotBytes + (op.off + i)
      BY <1>5, <3>1, SameAddress
    <3>3. At0(it.slot, op, i) = it.slot * SlotBytes + (op.off + i)
      BY <1>5, <2>5, <3>1, PlaceFacts
    <3> QED
      BY <3>2, <3>3
  <2> QED
    BY <2>2, <2>4, <2>7
<1>9. Scatters(J, it, p)
  BY <1>2, <1>4, <1>5, <1>6, <1>7, <1>8 DEF Scatters
<1> QED
  BY <1>1, <1>9

-----------------------------------------------------------------------------
(* Each step keeps the invariant. *)

\* A slot that is given back holds bytes.
LEMMA ClearFacts ==
  ASSUME ring \in [0..RingBytes - 1 -> Bytes], NEW s
  PROVE  /\ ClearSlot(s) \in [0..RingBytes - 1 -> Bytes]
         /\ \A x \in 0..RingBytes - 1 : x \div SlotBytes # s => ClearSlot(s)[x] = ring[x]
BY BytesFacts DEF ClearSlot

\* An item that moves keeps what is known of jobs and registration.
LEMMA MovesKeeps ==
  ASSUME RingInv, NEW p, NEW stage, NEW s, Moves(p, stage, s),
         mode' = mode, registered' = registered, pool' = pool, stage # "io" \/ Open
  PROVE  JobInv' /\ Registration'
BY MovesJob, MovesRegistration DEF RingInv

\* Gather keeps the invariant.
LEMMA GatherStep ==
  ASSUME RingInv, NEW p, Gather(p)
  PROVE  RingInv'
<1>1. PICK s \in Slots :
        /\ Moves(p, "io", s)
        /\ DOMAIN ring' = 0..RingBytes - 1 /\ ring' = [x \in 0..RingBytes - 1 |-> ring'[x]]
        /\ \A x \in 0..RingBytes - 1 :
             \/ ring'[x] = ring[x]
             \/ \E op \in job.items[p].copies, i \in Nat :
                  i < op.size /\ ring'[x] = gpu[<<job.items[p].group, op.ref, op.page>>][i]
  BY GatherFacts
<1>2. Open /\ At(p, "queued") /\ UNCHANGED <<mode, registered, pool, files, gpu>>
  BY GatherFacts
<1>3. JobInv' /\ Registration'
  BY <1>1, <1>2, MovesKeeps
<1>4. PICK g \in Groups, q \in Asked, c \in Chunks :
        g = job.items[p].group /\ job.items[p].copies = Wanted(q, g, c)
  <2>1. PICK J : J = job
    OBVIOUS
  <2>2. Planned(J) /\ p \in 1..Len(J.items)
    BY <1>2, <2>1 DEF RingInv, JobInv, At, Planned, Job
  <2> QED
    BY <2>1, <2>2, ItemFacts
<1>5. ASSUME NEW x \in 0..RingBytes - 1
      PROVE  ring'[x] \in Bytes
  <2>1. CASE ring'[x] = ring[x]
    BY <2>1 DEF RingInv, Memory
  <2>2. ASSUME NEW op \in Wanted(q, g, c), NEW i \in Nat,
               i < op.size, ring'[x] = gpu[<<g, op.ref, op.page>>][i]
        PROVE  ring'[x] \in Bytes
    <3>1. /\ <<g, op.ref, op.page>> \in GpuPages /\ op.size \in Nat
          /\ PageBytes(g, op.ref) = 0..op.size - 1
      BY CopyPage
    <3>2. gpu[<<g, op.ref, op.page>>] \in [0..op.size - 1 -> Bytes]
      BY <3>1 DEF RingInv, Memory
    <3>3. i \in 0..op.size - 1
      BY <2>2, <3>1
    <3>4. gpu[<<g, op.ref, op.page>>][i] \in Bytes
      BY <3>2, <3>3
    <3> QED
      BY <2>2, <3>4
  <2> QED
    BY <1>1, <1>4, <2>1, <2>2
<1>6. ring' \in [0..RingBytes - 1 -> Bytes]
  BY <1>1, <1>5
<1>7. Memory'
  BY <1>2, <1>6 DEF RingInv, Memory
<1> QED
  BY <1>3, <1>7 DEF RingInv

\* Write keeps the invariant.
LEMMA WriteStep ==
  ASSUME RingInv, NEW p, Write(p)
  PROVE  RingInv'
<1>1. PICK it, path :
        /\ it.slot \in Slots /\ Moves(p, "done", None) /\ UNCHANGED <<mode, registered, pool, gpu>>
        /\ ring' = ClearSlot(it.slot)
        /\ path \in Groups \X Chunks /\ path[1] = it.group
        /\ DOMAIN files' = DOMAIN files
        /\ \A f \in Groups \X Chunks : f # path => files'[f] = files[f]
        /\ files'[path] = [i \in 0..SlotPad(it.group) - 1 |-> ring[SlotByte(it.slot, i)]]
  BY WriteFacts
<1>2. JobInv' /\ Registration'
  BY <1>1, MovesKeeps
<1>3. ring \in [0..RingBytes - 1 -> Bytes]
  BY DEF RingInv, Memory
<1>4. ring' \in [0..RingBytes - 1 -> Bytes]
  BY <1>1, <1>3, ClearFacts
<1>5. files'[path] \in [0..SlotPad(path[1]) - 1 -> Bytes]
  <2>1. it.group \in Groups
    BY <1>1
  <2>2. \A i \in 0..SlotPad(it.group) - 1 : i \in 0..SlotBytes - 1
    BY <2>1, SlotFacts
  <2>3. \A i \in 0..SlotPad(it.group) - 1 : SlotByte(it.slot, i) \in 0..RingBytes - 1
    BY <1>1, <2>2, AddressFacts DEF SlotByte
  <2> QED
    BY <1>1, <1>3, <2>3
<1>6. Memory'
  <2>1. \A f \in Groups \X Chunks :
          files'[f] # None => files'[f] \in [0..SlotPad(f[1]) - 1 -> Bytes]
    BY <1>1, <1>5 DEF RingInv, Memory
  <2> QED
    BY <1>1, <1>4, <2>1 DEF RingInv, Memory
<1> QED
  BY <1>2, <1>6 DEF RingInv

\* StartRead keeps the invariant.
LEMMA StartReadStep ==
  ASSUME RingInv, NEW p, StartRead(p)
  PROVE  RingInv'
<1>1. PICK s \in Slots : Moves(p, "io", s)
  BY StartReadFacts
<1>2. Open /\ UNCHANGED <<mode, registered, pool, ring, files, gpu>>
  BY StartReadFacts
<1>3. JobInv' /\ Registration'
  BY <1>1, <1>2, MovesKeeps
<1>4. Memory'
  BY <1>2 DEF RingInv, Memory
<1> QED
  BY <1>3, <1>4 DEF RingInv

\* Read keeps the invariant.
LEMMA ReadStep ==
  ASSUME RingInv, NEW p, Read(p)
  PROVE  RingInv'
<1> DEFINE it == job.items[p]
           path == Paths(job.q)[p]
<1>1.   /\ Moves(p, "read", it.slot) /\ UNCHANGED <<mode, registered, pool, files, gpu>>
        /\ files[path] \in [0..SlotPad(it.group) - 1 -> Bytes]
        /\ DOMAIN ring' = 0..RingBytes - 1 /\ ring' = [x \in 0..RingBytes - 1 |-> ring'[x]]
        /\ \A i \in 0..SlotPad(it.group) - 1 : ring'[SlotByte(it.slot, i)] = files[path][i]
        /\ \A x \in 0..RingBytes - 1 :
             \/ ring'[x] = ring[x]
             \/ \E i \in 0..SlotPad(it.group) - 1 : SlotByte(it.slot, i) = x
  BY ReadFacts
<1> HIDE DEF it, path
<1>2. JobInv' /\ Registration'
  BY <1>1, MovesKeeps
<1>3. \A x \in 0..RingBytes - 1 : ring'[x] \in Bytes
  <2>1. ring \in [0..RingBytes - 1 -> Bytes]
    BY DEF RingInv, Memory
  <2>2. ASSUME NEW x \in 0..RingBytes - 1,
               NEW i \in 0..SlotPad(it.group) - 1, SlotByte(it.slot, i) = x
        PROVE  ring'[x] \in Bytes
    <3>1. files[path][i] \in Bytes
      BY <1>1
    <3>2. ring'[SlotByte(it.slot, i)] = files[path][i]
      BY <1>1
    <3> QED
      BY <2>2, <3>1, <3>2
  <2> QED
    BY <1>1, <2>1, <2>2
<1>4. ring' \in [0..RingBytes - 1 -> Bytes]
  BY <1>1, <1>3
<1>5. Memory'
  BY <1>1, <1>4 DEF RingInv, Memory
<1> QED
  BY <1>2, <1>5 DEF RingInv

\* Scatter keeps the invariant.
LEMMA ScatterStep ==
  ASSUME RingInv, NEW p, Scatter(p)
  PROVE  RingInv'
<1>1. PICK J, it : J = job /\ it = J.items[p] /\ Scatters(J, it, p)
  BY ScatterFacts, Zenon
<1>2. Moves(p, "done", None) /\ UNCHANGED <<mode, registered, pool, files>>
  BY <1>1 DEF Scatters
<1>3. JobInv' /\ Registration'
  BY <1>2, MovesKeeps
<1>4. ring \in [0..RingBytes - 1 -> Bytes]
  BY DEF RingInv, Memory
<1>5. ring' \in [0..RingBytes - 1 -> Bytes]
  BY <1>1, <1>4, ClearFacts DEF Scatters
<1>6. PICK g \in Groups, q \in Asked, c \in Chunks : g = it.group /\ it.copies = Wanted(q, g, c)
  BY <1>1, ItemFacts DEF Scatters
<1>7. ASSUME NEW x \in GpuPages
      PROVE  gpu'[x] \in [PageBytes(x[1], x[2]) -> Bytes]
  <2>1. CASE Mine(it, x) = {}
    BY <1>1, <2>1 DEF RingInv, Memory, Scatters
  <2>2. ASSUME NEW op \in Mine(it, x),
               gpu'[x] = [i \in PageBytes(x[1], x[2]) |-> ring[At0(it.slot, op, i)]]
        PROVE  gpu'[x] \in [PageBytes(x[1], x[2]) -> Bytes]
    <3>1. op \in Wanted(q, g, c) /\ x = <<g, op.ref, op.page>>
      BY <1>6 DEF Mine
    <3>2. PageBytes(x[1], x[2]) = 0..op.size - 1
      <4>1. PageBytes(g, op.ref) = 0..op.size - 1
        BY <3>1, CopyPage
      <4> QED
        BY <3>1, <4>1
    <3>3. \A i \in PageBytes(x[1], x[2]) : At0(it.slot, op, i) \in 0..RingBytes - 1
      <4>1. it.slot \in Slots
        BY <1>1 DEF Scatters
      <4> QED
        BY <3>1, <3>2, <4>1, PlaceFacts
    <3> QED
      BY <1>4, <2>2, <3>3
  <2> QED
    BY <1>1, <2>1, <2>2 DEF Scatters
<1>8. Memory'
  BY <1>1, <1>2, <1>5, <1>7 DEF RingInv, Memory, Scatters
<1> QED
  BY <1>3, <1>8 DEF RingInv

\* A job that is submitted is planned.
LEMMA NewJobPlanned ==
  ASSUME NEW q \in Asked, NEW store \in BOOLEAN, NewJob(q, store),
         ~store => \A f \in ToSet(Paths(q)) : files'[f] # None
  PROVE  JobInv' /\ \A p \in DOMAIN job'.items : job'.items[p].stage = "queued"
<1>1. PICK J : J = [store |-> store, q |-> q, items |-> Plan(q)]
  OBVIOUS
<1>2. /\ Paths(q) \in Seq(Groups \X Chunks) /\ Plan(q) \in Seq(Item)
      /\ Len(Plan(q)) = Len(Paths(q))
      /\ \A p \in 1..Len(Paths(q)) :
           ItemOf(Plan(q)[p], q, Paths(q)[p]) /\ Plan(q)[p].stage = "queued"
  BY PlanFacts
<1>3. J.store = store /\ J.q = q /\ J.items = Plan(q) /\ J \in Job
  BY <1>1, <1>2 DEF Job
<1>4. Planned(J) /\ \A p \in DOMAIN J.items : J.items[p].stage = "queued"
  BY <1>2, <1>3 DEF Planned
<1>5. Backed(J, files')
  <2>1. \A p \in 1..Len(Plan(q)) : Paths(q)[p] \in ToSet(Paths(q))
    BY <1>2 DEF ToSet
  <2> QED
    BY <1>3, <2>1 DEF Backed
<1>6. job' = J
  BY <1>1 DEF NewJob
<1> QED
  BY <1>4, <1>5, <1>6 DEF JobInv

\* The blocks of a request, in their pages, are bytes.
LEMMA InPagesFacts ==
  ASSUME NEW q \in Asked
  PROVE  /\ DOMAIN InPages(q) = GpuPages
         /\ \A x \in GpuPages : InPages(q)[x] \in [PageBytes(x[1], x[2]) -> Bytes]
<1>1. DOMAIN InPages(q) = GpuPages
  BY DEF InPages
<1>2. ASSUME NEW x \in GpuPages
      PROVE  InPages(q)[x] \in [PageBytes(x[1], x[2]) -> Bytes]
  <2>1. PICK here : here = {b \in q.from[x[1]]..q.to[x[1]] - 1 : q.table[x[1]][b] = x[3]}
    OBVIOUS
  <2>2. InPages(q)[x] = IF here = {} THEN JunkPages[x] ELSE Kv(x[1], x[2], CHOOSE b \in here : TRUE)
    BY <2>1 DEF InPages
  <2>3. x[1] \in Groups
    BY DEF GpuPages
  <2>4. here \subseteq Blocks
    BY <2>1, <2>3, AskedFacts
  <2> QED
    BY <2>2, <2>4, BytesFacts
<1> QED
  BY <1>1, <1>2

\* What a worker is counted as.
LEMMA UseFacts ==
  ASSUME NEW u \in Uses
  PROVE  /\ LET w == [u EXCEPT !.serving = TRUE]
            IN w \in Uses /\ w.shared = u.shared /\ w.shut = u.shut
         /\ LET w == [u EXCEPT !.serving = FALSE, !.shut = TRUE]
            IN w \in Uses /\ w.shared = u.shared /\ w.shut = TRUE /\ w.serving = FALSE
         /\ LET w == [u EXCEPT !.shut = TRUE]
            IN w \in Uses /\ w.shared = u.shared /\ w.shut = TRUE
         /\ NoUse \in Uses
         /\ NoUse.serving = FALSE /\ NoUse.shared = FALSE /\ NoUse.shut = FALSE
BY DEF Uses, NoUse

\* Who has the pool, or has shared it, has made it.
LEMMA PoolMade ==
  ASSUME RingInv, Open \/ pool.shared
  PROVE  mode # "none"
<1>1. CASE mode = "none"
  <2>1. pool = NoUse
    BY <1>1 DEF RingInv, Registration
  <2>2. pool.serving = FALSE /\ pool.shared = FALSE
    BY <2>1 DEF NoUse
  <2> QED
    BY <2>2 DEF Open
<1> QED
  BY <1>1

\* The submission of a job keeps the invariant.
LEMMA SubmitStep ==
  ASSUME RingInv, NEW q \in Asked, SubmitStore(q) \/ SubmitLoad(q)
  PROVE  RingInv'
<1>1. Open /\ UNCHANGED <<mode, registered, pool, ring, files>>
  BY DEF SubmitStore, SubmitLoad
<1>2. JobInv' /\ \A p \in DOMAIN job'.items : job'.items[p].stage = "queued"
  <2>1. CASE SubmitStore(q)
    BY <2>1, NewJobPlanned DEF SubmitStore
  <2>2. CASE SubmitLoad(q)
    <3>1. NewJob(q, FALSE) /\ \A f \in ToSet(Paths(q)) : files'[f] # None
      BY <2>2 DEF SubmitLoad
    <3> QED
      BY <3>1, NewJobPlanned
  <2> QED
    BY <2>1, <2>2
<1>3. Registration'
  BY <1>1, PoolMade DEF RingInv, Registration, Open
<1>4. gpu' = gpu \/ gpu' = InPages(q)
  BY DEF SubmitStore, SubmitLoad
<1>5. DOMAIN gpu' = GpuPages /\ \A x \in GpuPages : gpu'[x] \in [PageBytes(x[1], x[2]) -> Bytes]
  BY <1>4, InPagesFacts DEF RingInv, Memory
<1>6. Memory'
  BY <1>1, <1>5 DEF RingInv, Memory
<1> QED
  BY <1>2, <1>3, <1>6 DEF RingInv

\* Ranges of the ring.
LEMMA RangeFacts ==
  /\ FullRing \subseteq Nat \X Nat
  /\ \A s \in Slots : SlotRange(s) \in Nat \X Nat
<1>1. FullRing \subseteq Nat \X Nat
  BY SlotFacts DEF FullRing
<1>2. ASSUME NEW s \in Slots
      PROVE  SlotRange(s) \in Nat \X Nat
  <2>1. PICK n \in Nat : n = SlotBytes /\ RingBytes \div Depth = n
    BY SlotFacts
  <2>2. PICK k \in Nat : k = s
    BY ConstantFacts DEF Slots
  <2>3. k * n \in Nat
    OBVIOUS
  <2> QED
    BY <2>1, <2>2, <2>3 DEF SlotRange
<1> QED
  BY <1>1, <1>2

\* The first get_pool() keeps the invariant, whatever it could register.
LEMMA GetPoolStep ==
  ASSUME RingInv, GetPool
  PROVE  RingInv'
<1>1. job = None /\ UNCHANGED <<ring, files, gpu, job>>
  BY DEF RingInv, Registration, GetPool
<1>2. pool = NoUse /\ pool' = [NoUse EXCEPT !.serving = TRUE] /\ mode' # "none"
  BY DEF RingInv, Registration, GetPool, ModeWith
<1>3. pool' \in Uses /\ pool'.shut = FALSE
  BY <1>2 DEF NoUse, Uses
<1>4. Registration'
  <2>1. CASE mode' = "full" /\ registered' = FullRing
    BY <1>2, <1>3, <2>1, RangeFacts DEF Registration
  <2>2. ASSUME NEW done \in SUBSET Slots,
               mode' = ModeWith(done) /\ registered' = {SlotRange(s) : s \in done}
        PROVE  Registration'
    <3>1. registered' \subseteq Nat \X Nat
      BY <2>2, RangeFacts
    <3> QED
      BY <1>2, <1>3, <2>2, <3>1 DEF Registration, ModeWith
  <2> QED
    BY <2>1, <2>2 DEF GetPool
<1>5. JobInv' /\ Memory'
  BY <1>1 DEF RingInv, JobInv, Memory
<1> QED
  BY <1>4, <1>5 DEF RingInv

\* A worker that takes over has no job, and an empty ring.
LEMMA EmptyMemory ==
  ASSUME RingInv, ring' = [x \in DOMAIN ring |-> Junk], gpu' = JunkPages, files' = files
  PROVE  Memory'
<1>1. DOMAIN gpu' = GpuPages /\ \A x \in GpuPages : gpu'[x] \in [PageBytes(x[1], x[2]) -> Bytes]
  BY BytesFacts DEF JunkPages
<1>2. ring' \in [0..RingBytes - 1 -> Bytes]
  BY BytesFacts DEF RingInv, Memory
<1> QED
  BY <1>1, <1>2 DEF RingInv, Memory

\* A later get_pool() keeps the invariant: it registers nothing.
LEMMA GetPoolAgainStep ==
  ASSUME RingInv, GetPoolAgain
  PROVE  RingInv'
<1>1. /\ mode # "none" /\ UNCHANGED <<mode, registered, files>>
      /\ pool' = [pool EXCEPT !.serving = TRUE, !.shared = TRUE]
  BY DEF GetPoolAgain
<1>2. pool \in Uses
  BY DEF RingInv, Registration
<1>3. pool' \in Uses /\ pool'.shared /\ pool'.shut = pool.shut
  BY <1>1, <1>2 DEF Uses
<1>4. Registration'
  BY <1>1, <1>3 DEF RingInv, Registration
<1>5. CASE UNCHANGED <<ring, gpu, job>>
  <2>1. JobInv' /\ Memory'
    BY <1>1, <1>5 DEF RingInv, JobInv, Memory
  <2> QED
    BY <1>4, <2>1 DEF RingInv
<1>6. CASE ring' = [x \in DOMAIN ring |-> Junk] /\ gpu' = JunkPages /\ job' = None
  <2>1. JobInv' /\ Memory'
    BY <1>1, <1>6, EmptyMemory DEF JobInv
  <2> QED
    BY <1>4, <2>1 DEF RingInv
<1> QED
  BY <1>5, <1>6 DEF GetPoolAgain

\* A shutdown by the worker that has the jobs, or by another one.
LEMMA ShutdownStep ==
  ASSUME RingInv, Shutdown \/ OtherShutdown
  PROVE  RingInv'
<1>1. registered' \subseteq registered /\ UNCHANGED <<mode, ring, files, gpu, job>>
  BY DEF Shutdown, OtherShutdown, ShutPool
<1>2. pool \in Uses
  BY DEF RingInv, Registration
<1>3. /\ pool' \in Uses /\ pool'.shut
      /\ ~pool'.shared => ~pool'.serving /\ IoDrained
      /\ mode # "none"
  <2>1. CASE Shutdown
    <3>1. Open /\ IoDrained /\ pool' = [pool EXCEPT !.serving = FALSE, !.shut = TRUE]
      BY <2>1 DEF Shutdown
    <3>2. pool' \in Uses /\ pool'.shut = TRUE /\ pool'.serving = FALSE
      BY <1>2, <3>1, UseFacts
    <3> QED
      BY <3>1, <3>2, PoolMade
  <2>2. CASE OtherShutdown
    <3>1. pool.shared /\ pool' = [pool EXCEPT !.shut = TRUE]
      BY <2>2 DEF OtherShutdown
    <3>2. pool' \in Uses /\ pool'.shut = TRUE /\ pool'.shared = pool.shared
      BY <1>2, <3>1, UseFacts
    <3> QED
      BY <3>1, <3>2, PoolMade
  <2> QED
    BY <2>1, <2>2
<1>4. IoDrained' <=> IoDrained
  BY <1>1 DEF IoDrained, At
<1>5. Registration'
  BY <1>1, <1>3, <1>4 DEF RingInv, Registration, Open
<1>6. JobInv' /\ Memory'
  BY <1>1 DEF RingInv, JobInv, Memory
<1> QED
  BY <1>5, <1>6 DEF RingInv

\* The end of a job and a restart keep the invariant.
LEMMA OtherSteps ==
  ASSUME RingInv, JobEnds \/ Restart
  PROVE  RingInv'
<1>1. CASE JobEnds
  <2>1. job' = None /\ gpu' = JunkPages /\ UNCHANGED <<mode, registered, pool, ring, files>>
    BY <1>1 DEF JobEnds
  <2>2. DOMAIN gpu' = GpuPages /\ \A x \in GpuPages : gpu'[x] \in [PageBytes(x[1], x[2]) -> Bytes]
    BY <2>1, BytesFacts DEF JunkPages
  <2>3. JobInv' /\ Memory' /\ Registration'
    BY <2>1, <2>2 DEF RingInv, JobInv, Memory, Registration, IoDrained, Open
  <2> QED
    BY <2>3 DEF RingInv
<1>2. CASE Restart
  <2>1. /\ mode' = "none" /\ registered' = {} /\ pool' = NoUse /\ job' = None
        /\ gpu' = JunkPages /\ ring' = [x \in DOMAIN ring |-> Junk] /\ files' = files
    BY <1>2 DEF Restart
  <2>2. JobInv' /\ Memory'
    BY <2>1, EmptyMemory DEF JobInv
  <2>3. Registration'
    BY <2>1 DEF Registration, Uses, NoUse
  <2> QED
    BY <2>2, <2>3 DEF RingInv
<1> QED
  BY <1>1, <1>2

\* The requests of stores are among those the lemmas are about.
LEMMA StoresAsked ==
  ASSUME NEW q \in Requests(ChunkEnds, ChunkEnds)
  PROVE  q \in Asked /\ \A g \in Groups : q.from[g] \in ChunkEnds
<1>1. /\ q \in [from : [Groups -> ChunkEnds], to : [Groups -> ChunkEnds], table : Tables]
      /\ \A g \in Groups : q.from[g] <= q.to[g]
      /\ \E g \in Groups : q.from[g] < q.to[g]
  BY DEF Requests
<1>2. q \in [from : [Groups -> Blocks \cup ChunkEnds], to : [Groups -> ChunkEnds], table : Tables]
  BY <1>1
<1>3. q \in Asked
  BY <1>1, <1>2 DEF Asked, Requests
<1> QED
  BY <1>1, <1>3

\* Every step keeps the invariant.
LEMMA StepKeeps ==
  ASSUME RingInv, [Next]_vars
  PROVE  RingInv'
<1>1. CASE UNCHANGED vars
  <2>1. UNCHANGED <<mode, registered, pool, ring, files, gpu, job>>
    BY <1>1 DEF vars
  <2>2. JobInv' /\ Memory' /\ Registration'
    BY <2>1 DEF RingInv, JobInv, Memory, Registration, IoDrained, At, Open
  <2> QED
    BY <2>2 DEF RingInv
<1>2. CASE GetPool \/ GetPoolAgain
  BY <1>2, GetPoolStep, GetPoolAgainStep
<1>3. CASE \E q \in Requests(ChunkEnds, ChunkEnds) : SubmitStore(q)
  BY <1>3, StoresAsked, SubmitStep
<1>4. CASE \E q \in Asked : SubmitLoad(q)
  BY <1>4, SubmitStep
<1>5. CASE \E p \in 1..Cardinality(Groups \X Chunks) : Steps(p)
  <2>1. PICK p : Steps(p)
    BY <1>5
  <2> QED
    BY <2>1, GatherStep, WriteStep, StartReadStep, ReadStep, ScatterStep DEF Steps
<1>6. CASE JobEnds \/ Shutdown \/ OtherShutdown \/ Restart
  BY <1>6, OtherSteps, ShutdownStep
<1> QED
  BY <1>1, <1>2, <1>3, <1>4, <1>5, <1>6 DEF Next

\* The invariant holds at the start.
LEMMA InitHolds ==
  ASSUME Init
  PROVE  RingInv
<1>1. Memory
  BY BytesFacts DEF Init, Memory, JunkPages
<1>2. JobInv /\ Registration
  BY DEF Init, JobInv, Registration, Uses, NoUse
<1> QED
  BY <1>1, <1>2 DEF RingInv

-----------------------------------------------------------------------------
(* Theorems. *)

\* RingInv holds in every state.
THEOREM Invariance == Spec => []RingInv
<1>1. Init => RingInv
  BY InitHolds
<1>2. RingInv /\ [Next]_vars => RingInv'
  BY StepKeeps
<1> QED
  BY <1>1, <1>2, PTL DEF Spec

\* The type invariant: bytes are bytes, and files, pages and copies have their sizes.
THEOREM TypeCorrect == Spec => []TypeOK
<1>1. RingInv => job \in Job \cup {None}
  BY DEF RingInv, JobInv, Planned
<1>2. RingInv => TypeOK
  <2> SUFFICES ASSUME RingInv
               PROVE  TypeOK
    OBVIOUS
  <2>1. /\ ring \in [0..RingBytes - 1 -> Bytes]
        /\ \A f \in Groups \X Chunks :
             files[f] # None => files[f] \in [0..SlotPad(f[1]) - 1 -> Bytes]
        /\ DOMAIN gpu = GpuPages
        /\ \A x \in GpuPages : gpu[x] \in [PageBytes(x[1], x[2]) -> Bytes]
    BY DEF RingInv, Memory
  <2>2. /\ mode \in {"none", "full", "per_slot", "compat"} /\ pool \in Uses
        /\ registered \subseteq Nat \X Nat
    BY DEF RingInv, Registration
  <2> QED
    BY <1>1, <2>1, <2>2 DEF TypeOK
<1> QED
  BY <1>2, Invariance, PTL

\* The plan of every job is what the request says: an item for each file, a copy
\* for each block of its chunk that is asked for, none that _validate_item refuses.
THEOREM PlansMatch == Spec => []PlanMatches
<1>1. ASSUME RingInv, job # None
      PROVE  Len(job.items) = Len(Paths(job.q)) /\ DOMAIN job.items = 1..Len(job.items)
  BY <1>1 DEF RingInv, JobInv, Planned, Job
<1>2. ASSUME RingInv, job # None, NEW p \in DOMAIN job.items
      PROVE  LET it == job.items[p]
                 g == Paths(job.q)[p][1]
                 c == Paths(job.q)[p][2]
             IN it.group = g /\ it.copies = Wanted(job.q, g, c) /\ ~Refused(p)
  <2>1. PICK J : J = job
    OBVIOUS
  <2>2. Planned(J) /\ p \in 1..Len(J.items)
    BY <1>1, <1>2, <2>1 DEF RingInv, JobInv
  <2>3. /\ J.items[p].group \in Groups /\ J.q \in Asked
        /\ Paths(J.q)[p][1] = J.items[p].group
        /\ J.items[p].copies = Wanted(J.q, J.items[p].group, Paths(J.q)[p][2])
    BY <2>2, ItemFacts
  <2>4. \A op \in J.items[p].copies : Valid(op)
    BY <2>3, WantedFacts
  <2>5. ~Refused(p)
    BY <2>1, <2>4 DEF Refused
  <2> QED
    BY <2>1, <2>3, <2>5
<1>3. RingInv => PlanMatches
  BY <1>1, <1>2 DEF PlanMatches
<1> QED
  BY <1>3, Invariance, PTL

\* An IO stays inside a registered range of the ring as long as the mode is not
\* compat, and as long as no pool that is shared has been shut down: the range is there
\* from the first get_pool() until the IO has ended.
THEOREM WindowsRegistered == Spec => []WindowRegistered
<1>1. ASSUME RingInv, NEW p, At(p, "io"), mode # "compat", ~(pool.shared /\ pool.shut)
      PROVE  LET it == job.items[p]
                 w == BufArgs(it.slot)
             IN \E range \in registered :
                  range[1] = w.base /\ w.off + SlotPad(it.group) <= range[2]
  <2>1. PICK J : J = job
    OBVIOUS
  <2>2. Planned(J) /\ p \in 1..Len(J.items)
    BY <1>1, <2>1 DEF RingInv, JobInv, At, Planned, Job
  <2>3. PICK s \in Slots, g \in Groups : s = J.items[p].slot /\ g = J.items[p].group
    BY <1>1, <2>1, <2>2, ItemFacts DEF Planned, At
  <2>4. PICK n \in Nat, m \in Nat, d \in Nat \ {0} :
          /\ n = SlotBytes /\ RingBytes \div Depth = n /\ m = SlotPad(g) /\ m <= n
          /\ d = Depth /\ RingBytes = d * n
    BY ConstantFacts, SlotFacts
  <2>5. PICK k \in 0..d - 1 : k = s
    BY <2>4 DEF Slots
  <2>6. k * n \in Nat /\ k * n + m <= d * n
    <3>1. (k + 1) * n <= d * n /\ (k + 1) * n = k * n + n
      BY <2>5
    <3>2. k * n \in Nat /\ d * n \in Nat
      BY <2>5
    <3> QED
      BY <2>4, <3>1, <3>2
  <2>7. mode \in {"full", "per_slot"} /\ ~pool.shut
    BY <1>1, <2>1 DEF RingInv, Registration, IoDrained, At
  <2>8. CASE mode = "full"
    <3>1. BufArgs(s) = [base |-> 0, off |-> k * n]
      BY <2>4, <2>5, <2>8 DEF BufArgs
    <3>2. registered = {<<0, d * n>>}
      <4>1. registered = FullRing
        BY <1>1, <2>7, <2>8 DEF RingInv, Registration
      <4> QED
        BY <2>4, <4>1 DEF FullRing
    <3> QED
      BY <2>1, <2>3, <2>4, <2>6, <3>1, <3>2
  <2>9. CASE mode = "per_slot"
    <3>1. BufArgs(s) = [base |-> k * n, off |-> 0]
      BY <2>4, <2>5, <2>9 DEF BufArgs
    <3>2. <<k * n, n>> \in registered
      <4>1. registered = {SlotRange(r) : r \in Slots}
        BY <1>1, <2>7, <2>9 DEF RingInv, Registration
      <4>2. SlotRange(s) = <<k * n, n>>
        BY <2>4, <2>5 DEF SlotRange
      <4> QED
        BY <4>1, <4>2
    <3> QED
      BY <2>1, <2>3, <2>4, <3>1, <3>2
  <2> QED
    BY <2>7, <2>8, <2>9
<1>2. RingInv => WindowRegistered
  BY <1>1 DEF WindowRegistered, Registers
<1> QED
  BY <1>2, Invariance, PTL

-----------------------------------------------------------------------------
(* Places in a chunk, where each group has one reference. *)

\* Groups of one reference each: the offsets of two references of one group overlap,
\* which the run MCGdsRingOverlap shows.
OneReference == \A g \in Groups : Len(Refs[g]) = 1

\* Byte i of block b in the file of its chunk.
Offset(g, b, i) == (b % BlocksPerChunk) * Refs[g][1] + i

\* An offset is inside the file, and no other byte of the chunk has it.
LEMMA OffsetFacts ==
  ASSUME OneReference, NEW g \in Groups, NEW b \in Blocks, NEW i \in PageBytes(g, 1)
  PROVE  /\ i \in Nat /\ Offset(g, b, i) \in 0..SlotPad(g) - 1
         /\ Offset(g, b, i) \in 0..SlotBytes - 1
         /\ \A d \in Blocks, j \in PageBytes(g, 1) :
              b \div BlocksPerChunk = d \div BlocksPerChunk /\ Offset(g, b, i) = Offset(g, d, j)
                => b = d /\ i = j
<1>1. PICK a \in Nat \ {0} : a = BlocksPerChunk
  BY ConstantFacts
<1>2. 1 \in DOMAIN Refs[g]
  <2>1. Refs[g] \in Seq(Nat \ {0}) /\ Len(Refs[g]) = 1
    BY ConstantFacts DEF OneReference
  <2> QED
    BY <2>1
<1>3. PICK z \in Nat \ {0}, B \in Nat : z = Refs[g][1] /\ B = GroupChunkBytes(g) /\ a * z <= B
  BY <1>1, <1>2, ChunkBytesFacts
<1>4. PageBytes(g, 1) = 0..z - 1
  BY <1>3 DEF PageBytes
<1>5. \A d \in Blocks : d \in Nat
  BY DEF Blocks
<1>6. ASSUME NEW d \in Blocks
      PROVE  \E k \in Nat, m \in 0..a - 1 :
               d = k * a + m /\ d \div BlocksPerChunk = k /\ d % BlocksPerChunk = m
  BY <1>1, <1>5, DivBounds
<1>7. PICK k \in Nat, m \in 0..a - 1 :
        b = k * a + m /\ b \div BlocksPerChunk = k /\ b % BlocksPerChunk = m
  BY <1>6
<1>8. Offset(g, b, i) = m * z + i
  BY <1>3, <1>7 DEF Offset
<1>9. PICK v \in Nat : v = m * z /\ v + z <= B
  <2>1. (m + 1) * z <= a * z /\ (m + 1) * z = m * z + z
    BY <1>7
  <2>2. m * z \in Nat /\ a * z \in Nat
    OBVIOUS
  <2> QED
    BY <1>3, <2>1, <2>2
<1>10. Offset(g, b, i) \in 0..B - 1 /\ i \in Nat
  BY <1>4, <1>8, <1>9
<1>11. PICK w \in Nat, n \in Nat : w = SlotPad(g) /\ n = SlotBytes /\ B <= w /\ w <= n
  BY <1>3, SlotFacts
<1>12. Offset(g, b, i) \in 0..w - 1 /\ Offset(g, b, i) \in 0..n - 1
  BY <1>10, <1>11
<1>13. ASSUME NEW d \in Blocks, NEW j \in PageBytes(g, 1),
              b \div BlocksPerChunk = d \div BlocksPerChunk, Offset(g, b, i) = Offset(g, d, j)
       PROVE  b = d /\ i = j
  <2>1. PICK l \in 0..a - 1 : d = k * a + l /\ d % BlocksPerChunk = l
    <3>1. PICK e \in Nat, l \in 0..a - 1 :
            d = e * a + l /\ d \div BlocksPerChunk = e /\ d % BlocksPerChunk = l
      BY <1>6
    <3> QED
      BY <1>7, <1>13, <3>1
  <2>2. m * z + i = l * z + j
    BY <1>3, <1>8, <1>13, <2>1 DEF Offset
  <2>3. PICK x \in 0..z - 1, y \in 0..z - 1 : x = i /\ y = j
    BY <1>4
  <2>4. (m * z + x) \div z = m /\ (m * z + x) % z = x
    BY DivUnique
  <2>5. (l * z + y) \div z = l /\ (l * z + y) % z = y
    BY DivUnique
  <2>6. m = l /\ i = j
    BY <2>2, <2>3, <2>4, <2>5
  <2> QED
    BY <1>7, <2>1, <2>6
<1> QED
  BY <1>10, <1>11, <1>12, <1>13

\* A group of one reference has it alone.
LEMMA OnlyReference ==
  ASSUME OneReference, NEW g \in Groups
  PROVE  DOMAIN Refs[g] = {1} /\ Refs[g][1] \in Nat \ {0} /\ PageBytes(g, 1) = 0..Refs[g][1] - 1
<1>1. Refs[g] \in Seq(Nat \ {0}) /\ Len(Refs[g]) = 1
  BY ConstantFacts DEF OneReference
<1>2. DOMAIN Refs[g] = 1..1
  BY <1>1
<1> QED
  BY <1>1, <1>2 DEF PageBytes

\* The copies of a chunk are one for each of its blocks.
LEMMA CopyIs ==
  ASSUME OneReference, NEW q \in Asked, NEW g \in Groups, NEW c, NEW op \in Wanted(q, g, c)
  PROVE  \E b \in Here(q, g, c) : op = CopyOf(q, g, b, 1)
BY OnlyReference DEF Wanted

\* The copy of a block.
LEMMA CopyFacts ==
  ASSUME OneReference, NEW q \in Asked, NEW g \in Groups, NEW c, NEW b \in Here(q, g, c)
  PROVE  /\ b \in Blocks /\ b \div BlocksPerChunk = c /\ b \in q.from[g]..q.to[g] - 1
         /\ CopyOf(q, g, b, 1) \in Wanted(q, g, c)
         /\ <<g, 1, q.table[g][b]>> \in GpuPages
<1>1. b \div BlocksPerChunk = c /\ b \in q.from[g]..q.to[g] - 1
  BY DEF Here
<1>2. b \in Blocks
  BY <1>1, AskedFacts
<1>3. CopyOf(q, g, b, 1) \in Wanted(q, g, c)
  BY OnlyReference DEF Wanted
<1>4. <<g, 1, q.table[g][b]>> \in GpuPages
  <2>1. CopyOf(q, g, b, 1).ref = 1 /\ CopyOf(q, g, b, 1).page = q.table[g][b]
    BY DEF CopyOf
  <2> QED
    BY <1>3, <2>1, CopyPage
<1> QED
  BY <1>1, <1>2, <1>3, <1>4

\* Where they take the bytes of a block.
LEMMA CopyPlace ==
  ASSUME OneReference, NEW q \in Asked, NEW g \in Groups, NEW c, NEW b \in Here(q, g, c),
         NEW i \in PageBytes(g, 1), NEW s \in Slots
  PROVE  At0(s, CopyOf(q, g, b, 1), i) = SlotByte(s, Offset(g, b, i))
<1>1. PICK op : op = CopyOf(q, g, b, 1)
  OBVIOUS
<1>2. op \in Wanted(q, g, c) /\ i \in 0..op.size - 1
  <2>1. op \in Wanted(q, g, c)
    BY <1>1, CopyFacts
  <2>2. op.size = Refs[g][1]
    BY <1>1 DEF CopyOf
  <2> QED
    BY <2>1, <2>2, OnlyReference
<1>3. At0(s, op, i) = s * SlotBytes + (op.off + i)
  BY <1>2, PlaceFacts
<1>4. op.off = (b % BlocksPerChunk) * Refs[g][1]
  BY <1>1 DEF CopyOf
<1> QED
  BY <1>1, <1>3, <1>4 DEF SlotByte, Offset

\* A byte of one slot is not a byte of another.
LEMMA SlotsDisjoint ==
  ASSUME NEW s \in Slots, NEW i \in 0..SlotBytes - 1
  PROVE  SlotByte(s, i) \in 0..RingBytes - 1 /\ SlotByte(s, i) \div SlotBytes = s
BY AddressFacts DEF SlotByte

\* The page of a block has its bytes, as the table has it in no other place.
LEMMA PageOf ==
  ASSUME NEW q \in Asked, NEW g \in Groups, NEW r, NEW b \in q.from[g]..q.to[g] - 1,
         <<g, r, q.table[g][b]>> \in GpuPages
  PROVE  InPages(q)[<<g, r, q.table[g][b]>>] = Kv(g, r, b)
<1>1. PICK x : x = <<g, r, q.table[g][b]>>
  OBVIOUS
<1>2. PICK here : here = {d \in q.from[x[1]]..q.to[x[1]] - 1 : q.table[x[1]][d] = x[3]}
  OBVIOUS
<1>3. x[1] = g /\ x[2] = r /\ x[3] = q.table[g][b]
  BY <1>1
<1>4. b \in here
  BY <1>2, <1>3
<1>5. ASSUME NEW d \in here
      PROVE  d = b
  <2>1. d \in Blocks /\ b \in Blocks /\ q.table[g][d] = q.table[g][b]
    BY <1>2, <1>3, AskedFacts
  <2>2. q.table \in Tables /\ q.table[g] \in [Blocks -> Pages]
    BY AskedFacts
  <2>3. IsInjective(q.table[g])
    BY <2>2, RingAssumption
  <2> QED
    BY <2>1, <2>2, <2>3 DEF IsInjective
<1>6. InPages(q)[x] = Kv(x[1], x[2], CHOOSE d \in here : TRUE)
  BY <1>1, <1>2, <1>4 DEF InPages
<1> QED
  BY <1>1, <1>3, <1>4, <1>5, <1>6

-----------------------------------------------------------------------------
(* Every block asked for is in a file, and a store has every block of its files. *)

\* The chunk of a file is one of those the request touches.
LEMMA FileTouched ==
  ASSUME NEW q \in Asked
  PROVE  \A p \in 1..Len(Paths(q)) : \E g \in Groups, c \in Nat :
           Paths(q)[p] = <<g, c>> /\ c \in FirstChunk(q, g)..FirstChunk(q, g) + Touched(q, g) - 1
<1>1. PICK N \in Nat, len \in [1..Len(Refs) -> Nat], ps \in Seq(Seq(Groups \X Chunks)) :
        /\ N = Len(Refs) /\ Groups = 1..N
        /\ \A h \in Groups : len[h] = Touched(q, h) /\ Len(ps[h]) = len[h]
        /\ \A h \in Groups : \A d \in 1..Touched(q, h) : ps[h][d] = <<h, FirstChunk(q, h) + d - 1>>
        /\ Joined(Paths(q), ps, [h \in 1..N + 1 |-> Total(len, 1..h - 1)], N, Groups \X Chunks)
  BY PathsJoined
<1>2. PICK start : start = [h \in 1..N + 1 |-> Total(len, 1..h - 1)]
  OBVIOUS
<1>3. Joined(Paths(q), ps, start, N, Groups \X Chunks)
  BY <1>1, <1>2
<1>4. ASSUME NEW p \in 1..Len(Paths(q))
      PROVE  \E g \in Groups, c \in Nat :
           Paths(q)[p] = <<g, c>> /\ c \in FirstChunk(q, g)..FirstChunk(q, g) + Touched(q, g) - 1
  <2>1. PICK h \in 1..N, c \in Nat : c \in 1..Len(ps[h]) /\ p = start[h] + c
    BY <1>3 DEF Joined
  <2>2. Paths(q)[p] = ps[h][c]
    BY <1>3, <2>1 DEF Joined
  <2>3. PICK n \in Nat, t \in Nat : n = FirstChunk(q, h) /\ t = Touched(q, h)
    BY <1>1, ChunksOfRequest
  <2>4. c \in 1..t /\ ps[h][c] = <<h, n + c - 1>>
    BY <1>1, <2>1, <2>3
  <2>5. PICK d \in Nat : d = n + c - 1 /\ d \in n..n + t - 1
    BY <2>4
  <2> QED
    BY <1>1, <2>2, <2>3, <2>4, <2>5
<1> QED
  BY <1>4

\* Between the ends of two chunks, with a blocks in each, are the blocks of those in
\* between.
LEMMA Between ==
  ASSUME NEW a \in Nat \ {0}, NEW n \in Nat, NEW t \in Nat, NEW b \in Nat
  PROVE  b \in n * a..(n + t) * a - 1 <=> b \div a \in n..n + t - 1
<1>1. PICK k \in Nat, m \in 0..a - 1 : b = k * a + m /\ b \div a = k
  BY DivBounds
<1>2. n * a \in Nat /\ (n + t) * a \in Nat /\ k * a \in Nat /\ (k + 1) * a = k * a + a
  OBVIOUS
<1>3. CASE k < n
  <2>1. (k + 1) * a <= n * a
    BY <1>3
  <2> QED
    BY <1>1, <1>2, <1>3, <2>1
<1>4. CASE n <= k /\ k < n + t
  <2>1. n * a <= k * a /\ (k + 1) * a <= (n + t) * a
    BY <1>4
  <2> QED
    BY <1>1, <1>2, <1>4, <2>1
<1>5. CASE n + t <= k
  <2>1. (n + t) * a <= k * a
    BY <1>5
  <2> QED
    BY <1>1, <1>2, <1>5, <2>1
<1> QED
  BY <1>3, <1>4, <1>5

\* The file of a block is one of the job's.
LEMMA BlockHasFile ==
  ASSUME NEW q \in Asked, NEW g \in Groups, NEW b \in q.from[g]..q.to[g] - 1
  PROVE  \E p \in 1..Len(Paths(q)) : Paths(q)[p] = <<g, b \div BlocksPerChunk>>
<1>1. PICK a \in Nat \ {0} : a = BlocksPerChunk
  BY ConstantFacts
<1>2. PICK x \in Nat, y \in Nat : x = q.from[g] /\ y = q.to[g]
  BY AskedFacts
<1>3. PICK n \in Nat, r \in 0..a - 1, t \in Nat :
        /\ n = FirstChunk(q, g) /\ t = Touched(q, g)
        /\ x = n * a + r /\ y = (n + t) * a
  BY <1>1, <1>2, ChunksOfRequest
<1>4. PICK k \in n..n + t - 1 : k = b \div a
  <2>1. b \in Nat /\ b \in x..y - 1 /\ n * a \in Nat
    BY <1>2, <1>3
  <2>2. b \in n * a..(n + t) * a - 1
    BY <1>3, <2>1
  <2> QED
    BY <2>1, <2>2, Between
<1>5. PICK c \in 1..t : c \in Nat /\ n + c - 1 = k
  <2>1. k - n + 1 \in 1..t /\ n + (k - n + 1) - 1 = k /\ k - n + 1 \in Nat
    OBVIOUS
  <2> QED
    BY <2>1
<1>6. PICK N \in Nat, len \in [1..Len(Refs) -> Nat], ps \in Seq(Seq(Groups \X Chunks)) :
        /\ N = Len(Refs) /\ Groups = 1..N
        /\ \A h \in Groups : len[h] = Touched(q, h) /\ Len(ps[h]) = len[h]
        /\ \A h \in Groups : \A d \in 1..Touched(q, h) : ps[h][d] = <<h, FirstChunk(q, h) + d - 1>>
        /\ Joined(Paths(q), ps, [h \in 1..N + 1 |-> Total(len, 1..h - 1)], N, Groups \X Chunks)
  BY PathsJoined
<1>7. PICK start : start = [h \in 1..N + 1 |-> Total(len, 1..h - 1)]
  OBVIOUS
<1>8. c \in 1..Len(ps[g])
  BY <1>3, <1>5, <1>6
<1>9. start[g] + c \in 1..Len(Paths(q)) /\ Paths(q)[start[g] + c] = ps[g][c]
  BY <1>5, <1>6, <1>7, <1>8 DEF Joined
<1>10. ps[g][c] = <<g, k>>
  BY <1>3, <1>5, <1>6
<1> QED
  BY <1>1, <1>4, <1>9, <1>10

\* A request that starts at a chunk has all the blocks of the chunks it touches.
LEMMA WholeChunk ==
  ASSUME NEW q \in Asked, NEW g \in Groups, q.from[g] \in ChunkEnds,
         NEW c \in FirstChunk(q, g)..FirstChunk(q, g) + Touched(q, g) - 1,
         NEW b \in Blocks
  PROVE  b \div BlocksPerChunk = c => b \in Here(q, g, c)
<1>1. PICK a \in Nat \ {0}, N \in Nat \ {0} : a = BlocksPerChunk /\ N = NumChunks
  BY ConstantFacts
<1>2. PICK x \in Nat, y \in Nat : x = q.from[g] /\ y = q.to[g]
  BY AskedFacts
<1>3. PICK n \in Nat, r \in 0..a - 1, t \in Nat :
        /\ n = FirstChunk(q, g) /\ t = Touched(q, g)
        /\ x = n * a + r /\ y = (n + t) * a
  BY <1>1, <1>2, ChunksOfRequest
<1>4. r = 0
  <2>1. PICK l \in Nat : x = l * a
    <3>1. \A e \in ChunkEnds : \E l \in 0..N : e = l * a
      BY <1>1 DEF ChunkEnds, Chunks
    <3>2. x \in ChunkEnds
      BY <1>2
    <3> QED
      BY <3>1, <3>2
  <2>2. PICK z \in 0..a - 1 : z = 0
    OBVIOUS
  <2>3. (l * a + z) % a = z /\ (n * a + r) % a = r
    BY DivUnique
  <2>4. l * a + z = n * a + r
    <3>1. PICK w \in Nat : w = l * a
      OBVIOUS
    <3>2. w + z = x
      BY <2>1, <2>2, <3>1
    <3> QED
      BY <1>3, <3>1, <3>2
  <2> QED
    BY <2>2, <2>3, <2>4
<1>5. x = n * a
  <2>1. n * a \in Nat
    OBVIOUS
  <2> QED
    BY <1>3, <1>4, <2>1
<1>6. b \in Nat
  BY DEF Blocks
<1>7. b \div a = c => b \in x..y - 1
  <2>1. b \in n * a..(n + t) * a - 1 <=> b \div a \in n..n + t - 1
    BY <1>6, Between
  <2>2. c \in n..n + t - 1
    BY <1>3
  <2> QED
    BY <1>3, <1>5, <2>1, <2>2
<1> QED
  BY <1>1, <1>2, <1>7 DEF Here

-----------------------------------------------------------------------------
(* What the bytes are. *)

\* Every block of a chunk file is the right one, whoever wrote it.
FilesHold ==
  \A g \in Groups, c \in Chunks :
    files[<<g, c>>] # None =>
      \A b \in Blocks, i \in PageBytes(g, 1) :
        b \div BlocksPerChunk = c => files[<<g, c>>][Offset(g, b, i)] = <<g, 1, b, i>>

\* A store has data in a slot once it has gathered, a load once it has read.
InSlot(J, p) ==
  J.items[p].stage = "read" \/ (J.store /\ J.items[p].stage = "io")

\* The slot of item p has the blocks of its chunk that the job asks for.
SlotHolds(J, R, p) ==
  \A b \in Here(J.q, Paths(J.q)[p][1], Paths(J.q)[p][2]), i \in PageBytes(Paths(J.q)[p][1], 1) :
    R[SlotByte(J.items[p].slot, Offset(Paths(J.q)[p][1], b, i))] = <<Paths(J.q)[p][1], 1, b, i>>

SlotsHold(J, R) == \A p \in 1..Len(J.items) : InSlot(J, p) => SlotHolds(J, R, p)

\* No two items have a slot in use.
SlotsApart(J) ==
  \A p, k \in 1..Len(J.items) :
    /\ J.items[p].stage \in {"io", "read"} /\ J.items[k].stage \in {"io", "read"}
    /\ J.items[p].slot = J.items[k].slot
    => p = k

\* A store starts at a chunk, and does not read.
Whole(J) ==
  J.store => /\ \A g \in Groups : J.q.from[g] \in ChunkEnds
             /\ \A p \in 1..Len(J.items) : J.items[p].stage # "read"

\* The pages of a store have its blocks, those of a load as soon as they are scattered.
Scattered(J, x) == \E p \in 1..Len(J.items) : J.items[p].stage = "done" /\ Mine(J.items[p], x) # {}
PagesOf(J) ==
  [x \in GpuPages |-> IF J.store \/ Scattered(J, x) THEN InPages(J.q)[x] ELSE JunkPages[x]]

JobHolds(J, R, G) == Whole(J) /\ SlotsApart(J) /\ SlotsHold(J, R) /\ G = PagesOf(J)

ContentInv ==
  /\ FilesHold
  /\ job = None => gpu = JunkPages
  /\ job # None => JobHolds(job, ring, gpu)

-----------------------------------------------------------------------------
(* The steps of an item. *)

\* An item that moves has the copies it had, and the others stay as they are.
LEMMA MovesMore ==
  ASSUME RingInv, NEW p, NEW stage, NEW s, Moves(p, stage, s)
  PROVE  LET J == job
             K == job'
         IN  /\ Planned(J) /\ Planned(K) /\ J # None /\ K # None
             /\ K.q = J.q /\ K.store = J.store /\ Len(K.items) = Len(J.items)
             /\ p \in 1..Len(J.items) /\ K.items[p].stage = stage /\ K.items[p].slot = s
             /\ \A k \in 1..Len(J.items) : k # p => K.items[k] = J.items[k]
             /\ \A k \in 1..Len(J.items) : \A x : Mine(K.items[k], x) = Mine(J.items[k], x)
<1>1. PICK J, K : J = job /\ K = job'
  OBVIOUS
<1>2. Planned(J) /\ J # None
  BY <1>1 DEF Moves, RingInv, JobInv
<1>3. p \in 1..Len(J.items)
  BY <1>1, <1>2 DEF Moves, Planned, Job
<1>4. K = Moved(J, p, stage, s)
  BY <1>1 DEF Moves
<1>5. stage \in Stages /\ s \in Slots \cup {None} /\ (stage \in {"io", "read"} => s \in Slots)
  BY DEF Moves
<1>6. /\ Planned(K) /\ K.q = J.q /\ K.store = J.store /\ Len(K.items) = Len(J.items)
      /\ K.items[p].stage = stage /\ K.items[p].slot = s
      /\ \A k \in 1..Len(J.items) : k # p => K.items[k] = J.items[k]
  BY <1>2, <1>3, <1>4, <1>5, MovedFacts
<1>7. K # None
  BY <1>6, NoneAssumption DEF Planned
<1>8. ASSUME NEW k \in 1..Len(J.items)
      PROVE  K.items[k].group = J.items[k].group /\ K.items[k].copies = J.items[k].copies
  <2>1. ItemOf(J.items[k], J.q, Paths(J.q)[k])
    BY <1>2 DEF Planned
  <2>2. ItemOf(K.items[k], K.q, Paths(K.q)[k])
    BY <1>6 DEF Planned
  <2> QED
    BY <1>6, <2>1, <2>2 DEF ItemOf
<1>9. \A k \in 1..Len(J.items) : \A x : Mine(K.items[k], x) = Mine(J.items[k], x)
  BY <1>8 DEF Mine
<1> QED
  BY <1>1, <1>2, <1>3, <1>6, <1>7, <1>9

\* The chunk of an item.
LEMMA PathOf ==
  ASSUME NEW J, Planned(J), NEW p \in 1..Len(J.items)
  PROVE  \E g \in Groups, c \in Chunks :
           /\ Paths(J.q)[p] = <<g, c>> /\ J.q \in Asked
           /\ J.items[p].group = g /\ J.items[p].copies = Wanted(J.q, g, c)
           /\ c \in FirstChunk(J.q, g)..FirstChunk(J.q, g) + Touched(J.q, g) - 1
<1>1. J.q \in Asked /\ Len(J.items) = Len(Paths(J.q))
  BY DEF Planned, Job
<1>2. PICK g \in Groups, c \in Chunks : Paths(J.q)[p] = <<g, c>>
  BY ItemFacts
<1>3. J.items[p].group = g /\ J.items[p].copies = Wanted(J.q, g, c)
  BY <1>2 DEF Planned, ItemOf
<1>4. c \in FirstChunk(J.q, g)..FirstChunk(J.q, g) + Touched(J.q, g) - 1
  BY <1>1, <1>2, FileTouched
<1> QED
  BY <1>1, <1>2, <1>3, <1>4

\* The slots of the other items are left alone by a step that changes slot t only.
LEMMA OthersHold ==
  ASSUME OneReference, NEW J, Planned(J), NEW R, NEW S, NEW k \in 1..Len(J.items),
         NEW t, J.items[k].slot \in Slots, J.items[k].slot # t
  PROVE  SlotHolds(J, R, k) /\ (\A x \in 0..RingBytes - 1 : x \div SlotBytes # t => S[x] = R[x])
           => SlotHolds(J, S, k)
<1>1. PICK g \in Groups, c \in Chunks : Paths(J.q)[k] = <<g, c>> /\ J.q \in Asked
  BY PathOf
<1>2. PICK s \in Slots : s = J.items[k].slot
  OBVIOUS
<1>3. Paths(J.q)[k][1] = g /\ Paths(J.q)[k][2] = c
  BY <1>1
<1>4. ASSUME \A x \in 0..RingBytes - 1 : x \div SlotBytes # t => S[x] = R[x],
             NEW b \in Here(J.q, g, c), NEW i \in PageBytes(g, 1)
      PROVE  S[SlotByte(s, Offset(g, b, i))] = R[SlotByte(s, Offset(g, b, i))]
  <2>1. b \in Blocks
    BY <1>1, CopyFacts
  <2>2. Offset(g, b, i) \in 0..SlotBytes - 1
    BY <2>1, OffsetFacts
  <2>3. PICK x \in 0..RingBytes - 1 : x = SlotByte(s, Offset(g, b, i)) /\ x \div SlotBytes = s
    BY <2>2, SlotsDisjoint
  <2> QED
    BY <1>2, <1>4, <2>3
<1> QED
  BY <1>2, <1>3, <1>4 DEF SlotHolds

\* What holds of a slot is about the request, the slot and the ring.
LEMMA SameSlot ==
  ASSUME NEW J, NEW K, K.q = J.q, NEW k, K.items[k].slot = J.items[k].slot, NEW R,
         SlotHolds(J, R, k)
  PROVE  SlotHolds(K, R, k)
BY DEF SlotHolds

\* A free slot that an item takes is not the slot of another.
LEMMA TakesFree ==
  ASSUME NEW J, NEW K, NEW p \in 1..Len(J.items), SlotsApart(J), Len(K.items) = Len(J.items),
         \A k \in 1..Len(J.items) : k # p => K.items[k] = J.items[k],
         \A k \in 1..Len(J.items) : J.items[k].slot # K.items[p].slot
  PROVE  SlotsApart(K)
BY DEF SlotsApart

\* An item that keeps its slot or gives it back leaves the slots apart.
LEMMA KeepsApart ==
  ASSUME NEW J, NEW K, NEW p \in 1..Len(J.items),
         SlotsApart(J), Len(K.items) = Len(J.items),
         J.items[p].stage \in {"io", "read"},
         K.items[p].slot = J.items[p].slot \/ K.items[p].stage \notin {"io", "read"},
         \A k \in 1..Len(J.items) : k # p => K.items[k] = J.items[k]
  PROVE  SlotsApart(K)
BY DEF SlotsApart

\* As long as no item is done that was not before, the pages are the same.
LEMMA SamePages ==
  ASSUME NEW J, NEW K, K.q = J.q, K.store = J.store, Len(K.items) = Len(J.items),
         J.store \/ \A k \in 1..Len(J.items) :
                      J.items[k].stage = "done" <=> K.items[k].stage = "done",
         \A k \in 1..Len(J.items) : \A x : Mine(K.items[k], x) = Mine(J.items[k], x)
  PROVE  PagesOf(K) = PagesOf(J)
<1>1. CASE J.store
  BY <1>1 DEF PagesOf
<1>2. CASE ~J.store
  <2>1. \A x \in GpuPages : Scattered(K, x) <=> Scattered(J, x)
    BY <1>2 DEF Scattered
  <2> QED
    BY <1>2, <2>1 DEF PagesOf
<1> QED
  BY <1>1, <1>2

-----------------------------------------------------------------------------
(* Each step keeps it. *)

\* What is known of the bytes before a step of an item.
LEMMA Before ==
  ASSUME RingInv, ContentInv, NEW p, NEW stage, NEW s, Moves(p, stage, s)
  PROVE  LET J == job
         IN  /\ FilesHold /\ Whole(J) /\ SlotsApart(J) /\ SlotsHold(J, ring) /\ gpu = PagesOf(J)
             /\ Planned(J) /\ J.q \in Asked
             /\ \A k \in 1..Len(J.items) :
                  J.items[k].stage \in {"io", "read"} => J.items[k].slot \in Slots
<1>1. PICK J : J = job
  OBVIOUS
<1>2. Planned(J) /\ J # None
  BY <1>1 DEF Moves, RingInv, JobInv
<1>3. JobHolds(J, ring, gpu)
  BY <1>1, <1>2 DEF ContentInv
<1> QED
  BY <1>1, <1>2, <1>3 DEF JobHolds, ContentInv, Planned, Job

\* What is to be shown of them after it.
LEMMA After ==
  ASSUME RingInv, NEW p, NEW stage, NEW s, Moves(p, stage, s), NEW K, K = job',
         FilesHold', Whole(K), SlotsApart(K), SlotsHold(K, ring'), gpu' = PagesOf(K)
  PROVE  ContentInv'
<1>1. K # None
  BY MovesMore
<1> QED
  BY <1>1 DEF ContentInv, JobHolds

\* The items other than p keep their data, in a ring that has changed in slot t only.
LEMMA RestHold ==
  ASSUME OneReference, NEW J, Planned(J), NEW K, NEW p \in 1..Len(J.items), NEW t, NEW R, NEW S,
         K.q = J.q, K.store = J.store, Len(K.items) = Len(J.items),
         \A k \in 1..Len(J.items) : k # p => K.items[k] = J.items[k],
         SlotsHold(J, R),
         \A k \in 1..Len(J.items) : k # p /\ InSlot(J, k) => J.items[k].slot # t
  PROVE  (\A x \in 0..RingBytes - 1 : x \div SlotBytes # t => S[x] = R[x])
           => \A k \in 1..Len(K.items) : k # p /\ InSlot(K, k) => SlotHolds(K, S, k)
<1>1. ASSUME \A x \in 0..RingBytes - 1 : x \div SlotBytes # t => S[x] = R[x],
             NEW k \in 1..Len(J.items), k # p, InSlot(K, k)
      PROVE  SlotHolds(K, S, k)
  <2>1. K.items[k] = J.items[k]
    BY <1>1
  <2>2. InSlot(J, k)
    BY <1>1, <2>1 DEF InSlot
  <2>3. J.items[k].slot \in Slots /\ J.items[k].slot # t /\ SlotHolds(J, R, k)
    BY <1>1, <2>2 DEF InSlot, Planned, SlotsHold
  <2>4. SlotHolds(J, S, k)
    BY <1>1, <2>3, OthersHold
  <2> QED
    BY <2>1, <2>4, SameSlot
<1> QED
  BY <1>1

\* Byte x of the ring S is that of a copy from pages G, unless no copy is to it.
Gathered(q, g, c, s, S, G, x) ==
  \/ \A op \in Wanted(q, g, c), j \in Nat : j < op.size => At0(s, op, j) # x
  \/ \E op \in Wanted(q, g, c), j \in Nat :
       j < op.size /\ At0(s, op, j) = x /\ S[x] = G[<<g, op.ref, op.page>>][j]

\* A gather from pages that have the blocks puts them at their places in the slot.
LEMMA GatherPlaces ==
  ASSUME OneReference, NEW q \in Asked, NEW g \in Groups, NEW c, NEW s \in Slots, NEW S, NEW G,
         NEW b \in Here(q, g, c), NEW i \in PageBytes(g, 1),
         \A x \in GpuPages : G[x] = InPages(q)[x]
  PROVE  (\A x \in 0..RingBytes - 1 : Gathered(q, g, c, s, S, G, x))
           => S[SlotByte(s, Offset(g, b, i))] = <<g, 1, b, i>>
<1>1. /\ b \in Blocks /\ b \div BlocksPerChunk = c /\ b \in q.from[g]..q.to[g] - 1
      /\ CopyOf(q, g, b, 1) \in Wanted(q, g, c)
  BY CopyFacts
<1>2. Offset(g, b, i) \in 0..SlotBytes - 1
  BY <1>1, OffsetFacts
<1>3. PICK x \in 0..RingBytes - 1 : x = SlotByte(s, Offset(g, b, i))
  BY <1>2, SlotsDisjoint
<1>4. PICK z \in Nat : z = Refs[g][1] /\ PageBytes(g, 1) = 0..z - 1
  BY OnlyReference
<1>5. i \in Nat /\ i < z
  BY <1>4
<1>6. ~ \A op \in Wanted(q, g, c), j \in Nat : j < op.size => At0(s, op, j) # x
  <2>1. At0(s, CopyOf(q, g, b, 1), i) = x
    BY <1>3, CopyPlace
  <2>2. CopyOf(q, g, b, 1).size = z
    BY <1>4 DEF CopyOf
  <2> QED
    BY <1>1, <1>5, <2>1, <2>2
<1>7. ASSUME NEW op \in Wanted(q, g, c), NEW j \in Nat,
             j < op.size, At0(s, op, j) = x, S[x] = G[<<g, op.ref, op.page>>][j]
      PROVE  S[x] = <<g, 1, b, i>>
  <2>1. PICK d \in Here(q, g, c) : op = CopyOf(q, g, d, 1)
    BY CopyIs
  <2>2. /\ d \in Blocks /\ d \div BlocksPerChunk = c /\ op.size = z
        /\ op.ref = 1 /\ op.page = q.table[g][d] /\ <<g, 1, op.page>> \in GpuPages
    <3>1. d \in Blocks /\ d \div BlocksPerChunk = c /\ <<g, 1, q.table[g][d]>> \in GpuPages
      BY <2>1, CopyFacts
    <3>2. op.ref = 1 /\ op.page = q.table[g][d] /\ op.size = z
      BY <1>4, <2>1 DEF CopyOf
    <3> QED
      BY <3>1, <3>2
  <2>3. j \in PageBytes(g, 1)
    BY <1>4, <1>7, <2>2
  <2>4. SlotByte(s, Offset(g, d, j)) = x
    BY <1>7, <2>1, <2>3, CopyPlace
  <2>5. Offset(g, d, j) \in 0..SlotBytes - 1
    BY <2>2, <2>3, OffsetFacts
  <2>6. PICK base \in Nat : base = s * SlotBytes
    BY ConstantFacts, SlotFacts DEF Slots
  <2>7. Offset(g, b, i) = Offset(g, d, j)
    BY <1>2, <1>3, <2>4, <2>5, <2>6 DEF SlotByte
  <2>8. b = d /\ i = j
    BY <1>1, <2>2, <2>3, <2>7, OffsetFacts
  <2>9. G[<<g, 1, op.page>>] = Kv(g, 1, b)
    BY <1>1, <2>2, <2>8, PageOf
  <2> QED
    BY <1>7, <2>2, <2>8, <2>9 DEF Kv
<1> QED
  BY <1>3, <1>6, <1>7 DEF Gathered

\* A gather leaves the slot with the blocks of its chunk.
LEMMA GatherContent ==
  ASSUME OneReference, RingInv, ContentInv, NEW p, Gather(p)
  PROVE  ContentInv'
<1>1. job.store /\ UNCHANGED <<mode, registered, pool, files, gpu>>
  BY GatherFacts
<1>2. PICK J, K, W, h :
        J = job /\ K = job' /\ W = J.items[p].copies /\ h = J.items[p].group
  OBVIOUS
<1>3. PICK s \in Slots :
        /\ ~Holding(s) /\ Moves(p, "io", s)
        /\ \A x \in 0..RingBytes - 1 :
             \/ /\ ring'[x] = ring[x]
                /\ \A op \in W, i \in Nat : i < op.size => At0(s, op, i) # x
             \/ \E op \in W, i \in Nat :
                  /\ i < op.size /\ At0(s, op, i) = x
                  /\ ring'[x] = gpu[<<h, op.ref, op.page>>][i]
  BY <1>2, GatherFacts
<1>4. Moves(p, "io", s)
  BY <1>3
<1>5. Planned(J) /\ p \in 1..Len(J.items) /\ J.store
  BY <1>1, <1>2, <1>4, MovesMore
<1>6. /\ K.q = J.q /\ K.store = J.store /\ Len(K.items) = Len(J.items)
      /\ K.items[p].stage = "io" /\ K.items[p].slot = s
      /\ \A k \in 1..Len(J.items) : k # p => K.items[k] = J.items[k]
      /\ \A k \in 1..Len(J.items) : \A x : Mine(K.items[k], x) = Mine(J.items[k], x)
  BY <1>2, <1>4, MovesMore
<1>7. FilesHold /\ Whole(J) /\ SlotsApart(J) /\ SlotsHold(J, ring) /\ gpu = PagesOf(J)
  BY <1>2, <1>4, Before
<1>8. PICK q \in Asked, g \in Groups, c \in Chunks :
        /\ q = J.q /\ Paths(q)[p] = <<g, c>>
        /\ J.items[p].group = g /\ J.items[p].copies = Wanted(q, g, c)
  <2>1. PICK g \in Groups, c \in Chunks :
          /\ Paths(J.q)[p] = <<g, c>> /\ J.q \in Asked
          /\ J.items[p].group = g /\ J.items[p].copies = Wanted(J.q, g, c)
    BY <1>5, PathOf
  <2> QED
    BY <2>1
<1>9. \A k \in 1..Len(J.items) : J.items[k].slot # s
  <2>1. \A k \in DOMAIN J.items : J.items[k].slot # s
    BY <1>2, <1>3 DEF Holding, Moves
  <2>2. DOMAIN J.items = 1..Len(J.items)
    BY <1>5 DEF Planned, Job
  <2> QED
    BY <2>1, <2>2
<1>10. \A x \in 0..RingBytes - 1 :
         \/ /\ ring'[x] = ring[x]
            /\ \A op \in Wanted(q, g, c), j \in Nat : j < op.size => At0(s, op, j) # x
         \/ \E op \in Wanted(q, g, c), j \in Nat :
              j < op.size /\ At0(s, op, j) = x /\ ring'[x] = gpu[<<g, op.ref, op.page>>][j]
  <2>1. W = Wanted(q, g, c) /\ h = g
    BY <1>2, <1>8
  <2> QED
    BY <1>3, <2>1
<1>11. \A op \in Wanted(q, g, c), j \in Nat : j < op.size => At0(s, op, j) \div SlotBytes = s
  <2> SUFFICES ASSUME NEW op \in Wanted(q, g, c), NEW j \in Nat, j < op.size
               PROVE  At0(s, op, j) \div SlotBytes = s
    OBVIOUS
  <2>1. op.size \in Nat
    BY CopyPage
  <2>2. j \in 0..op.size - 1
    BY <2>1
  <2> QED
    BY <2>2, PlaceFacts
<1>12. \A x \in 0..RingBytes - 1 : x \div SlotBytes # s => ring'[x] = ring[x]
  <2> SUFFICES ASSUME NEW x \in 0..RingBytes - 1, x \div SlotBytes # s
               PROVE  ring'[x] = ring[x]
    OBVIOUS
  <2>1. ASSUME NEW op \in Wanted(q, g, c), NEW j \in Nat, j < op.size, At0(s, op, j) = x
        PROVE  FALSE
    BY <1>11, <2>1
  <2> QED
    BY <1>10, <2>1
<1>13. \A k \in 1..Len(K.items) : k # p /\ InSlot(K, k) => SlotHolds(K, ring', k)
  BY <1>5, <1>6, <1>7, <1>9, <1>12, RestHold
<1>14. \A x \in GpuPages : gpu[x] = InPages(q)[x]
  BY <1>5, <1>7, <1>8 DEF PagesOf
<1>15. \A b \in Here(q, g, c), i \in PageBytes(g, 1) :
         ring'[SlotByte(s, Offset(g, b, i))] = <<g, 1, b, i>>
  <2>1. \A x \in 0..RingBytes - 1 : Gathered(q, g, c, s, ring', gpu, x)
    BY <1>10 DEF Gathered
  <2> QED
    BY <1>14, <2>1, GatherPlaces
<1>16. SlotHolds(K, ring', p)
  <2>1. K.q = q /\ Paths(q)[p][1] = g /\ Paths(q)[p][2] = c
    BY <1>6, <1>8
  <2> QED
    BY <1>6, <1>15, <2>1 DEF SlotHolds
<1>17. SlotsHold(K, ring')
  BY <1>13, <1>16 DEF SlotsHold
<1>18. SlotsApart(K)
  <2>1. \A k \in 1..Len(J.items) : J.items[k].slot # K.items[p].slot
    BY <1>6, <1>9
  <2> QED
    BY <1>5, <1>6, <1>7, <2>1, TakesFree
<1>19. Whole(K)
  BY <1>6, <1>7 DEF Whole
<1>20. gpu' = PagesOf(K)
  BY <1>1, <1>5, <1>6, <1>7, SamePages
<1>21. FilesHold'
  BY <1>1, <1>7 DEF FilesHold
<1> QED
  BY <1>2, <1>4, <1>17, <1>18, <1>19, <1>20, <1>21, After

\* A slot that is given back is no longer any other item's.
LEMMA OtherSlots ==
  ASSUME NEW J, SlotsApart(J), NEW p \in 1..Len(J.items), J.items[p].stage \in {"io", "read"}
  PROVE  \A k \in 1..Len(J.items) : k # p /\ InSlot(J, k) => J.items[k].slot # J.items[p].slot
BY DEF SlotsApart, InSlot

\* A write takes whole chunks to their files.
LEMMA WriteContent ==
  ASSUME OneReference, RingInv, ContentInv, NEW p, Write(p)
  PROVE  ContentInv'
<1>1. PICK J, K : J = job /\ K = job'
  OBVIOUS
<1>2. PICK it, path : it = J.items[p] /\ path = Paths(J.q)[p]
  OBVIOUS
<1>3. /\ J.store /\ At(p, "io") /\ UNCHANGED <<mode, registered, pool, gpu>>
      /\ it.slot \in Slots /\ Moves(p, "done", None)
      /\ ring' = ClearSlot(it.slot)
      /\ \A f \in Groups \X Chunks : f # path => files'[f] = files[f]
      /\ files'[path] = [i \in 0..SlotPad(it.group) - 1 |-> ring[SlotByte(it.slot, i)]]
  BY <1>1, <1>2, WriteFacts
<1>4. Moves(p, "done", None) /\ gpu' = gpu
  BY <1>3
<1>5. Planned(J) /\ p \in 1..Len(J.items) /\ J.store
  BY <1>1, <1>3, MovesMore
<1>6. /\ K.q = J.q /\ K.store = J.store /\ Len(K.items) = Len(J.items)
      /\ K.items[p].stage = "done" /\ K.items[p].slot = None
      /\ \A k \in 1..Len(J.items) : k # p => K.items[k] = J.items[k]
      /\ \A k \in 1..Len(J.items) : \A x : Mine(K.items[k], x) = Mine(J.items[k], x)
  BY <1>1, <1>4, MovesMore
<1>7. FilesHold /\ Whole(J) /\ SlotsApart(J) /\ SlotsHold(J, ring) /\ gpu = PagesOf(J)
  BY <1>1, <1>4, Before
<1>8. PICK q \in Asked, g \in Groups, c \in Chunks :
        /\ q = J.q /\ path = <<g, c>> /\ it.group = g
        /\ c \in FirstChunk(q, g)..FirstChunk(q, g) + Touched(q, g) - 1
  <2>1. PICK g \in Groups, c \in Chunks :
          /\ Paths(J.q)[p] = <<g, c>> /\ J.q \in Asked
          /\ J.items[p].group = g /\ J.items[p].copies = Wanted(J.q, g, c)
          /\ c \in FirstChunk(J.q, g)..FirstChunk(J.q, g) + Touched(J.q, g) - 1
    BY <1>5, PathOf
  <2> QED
    BY <1>2, <2>1
<1>9. J.items[p].stage = "io"
  BY <1>1, <1>3 DEF At
<1>10. \A k \in 1..Len(K.items) : k # p /\ InSlot(K, k) => SlotHolds(K, ring', k)
  <2>1. \A k \in 1..Len(J.items) : k # p /\ InSlot(J, k) => J.items[k].slot # it.slot
    BY <1>2, <1>5, <1>7, <1>9, OtherSlots
  <2>2. \A x \in 0..RingBytes - 1 : x \div SlotBytes # it.slot => ring'[x] = ring[x]
    <3>1. ring \in [0..RingBytes - 1 -> Bytes]
      BY DEF RingInv, Memory
    <3> QED
      BY <1>3, <3>1, ClearFacts
  <2> QED
    BY <1>5, <1>6, <1>7, <2>1, <2>2, RestHold
<1>11. ~InSlot(K, p)
  BY <1>6 DEF InSlot
<1>12. SlotsHold(K, ring')
  BY <1>10, <1>11 DEF SlotsHold
<1>13. SlotsApart(K)
  BY <1>5, <1>6, <1>7, <1>9, KeepsApart
<1>14. Whole(K)
  BY <1>6, <1>7 DEF Whole
<1>15. gpu' = PagesOf(K)
  BY <1>4, <1>5, <1>6, <1>7, SamePages
<1>16. ASSUME NEW b \in Blocks, NEW i \in PageBytes(g, 1), b \div BlocksPerChunk = c
       PROVE  files'[path][Offset(g, b, i)] = <<g, 1, b, i>>
  <2>1. b \in Here(q, g, c)
    BY <1>5, <1>7, <1>8, <1>16, WholeChunk DEF Whole
  <2>2. SlotHolds(J, ring, p)
    BY <1>5, <1>7, <1>9 DEF SlotsHold, InSlot
  <2>3. ring[SlotByte(it.slot, Offset(g, b, i))] = <<g, 1, b, i>>
    <3>1. Paths(J.q)[p][1] = g /\ Paths(J.q)[p][2] = c
      BY <1>2, <1>8
    <3> QED
      BY <1>2, <1>8, <2>1, <2>2, <3>1 DEF SlotHolds
  <2>4. Offset(g, b, i) \in 0..SlotPad(g) - 1
    BY OffsetFacts
  <2> QED
    BY <1>3, <1>8, <2>3, <2>4
<1>17. FilesHold'
  <2>1. ASSUME NEW h \in Groups, NEW d \in Chunks, files'[<<h, d>>] # None,
               NEW b \in Blocks, NEW i \in PageBytes(h, 1), b \div BlocksPerChunk = d
        PROVE  files'[<<h, d>>][Offset(h, b, i)] = <<h, 1, b, i>>
    <3>1. CASE <<h, d>> = path
      <4>1. h = g /\ d = c
        BY <1>8, <3>1
      <4> QED
        BY <1>16, <2>1, <3>1, <4>1
    <3>2. CASE <<h, d>> # path
      <4>1. files'[<<h, d>>] = files[<<h, d>>]
        BY <1>3, <3>2
      <4> QED
        BY <1>7, <2>1, <4>1 DEF FilesHold
    <3> QED
      BY <3>1, <3>2
  <2> QED
    BY <2>1 DEF FilesHold, Offset, PageBytes
<1> QED
  BY <1>1, <1>4, <1>12, <1>13, <1>14, <1>15, <1>17, After

\* The start of a read takes a slot and no more.
LEMMA StartReadContent ==
  ASSUME OneReference, RingInv, ContentInv, NEW p, StartRead(p)
  PROVE  ContentInv'
<1>1. PICK J, K : J = job /\ K = job'
  OBVIOUS
<1>2. PICK s \in Slots : ~Holding(s) /\ Moves(p, "io", s)
  BY StartReadFacts
<1>3. ~J.store /\ At(p, "queued") /\ UNCHANGED <<mode, registered, pool, ring, files, gpu>>
  BY <1>1, StartReadFacts
<1>4. Planned(J) /\ p \in 1..Len(J.items)
  BY <1>1, <1>2, MovesMore
<1>5. /\ K.q = J.q /\ K.store = J.store /\ Len(K.items) = Len(J.items)
      /\ K.items[p].stage = "io" /\ K.items[p].slot = s
      /\ \A k \in 1..Len(J.items) : k # p => K.items[k] = J.items[k]
      /\ \A k \in 1..Len(J.items) : \A x : Mine(K.items[k], x) = Mine(J.items[k], x)
  BY <1>1, <1>2, MovesMore
<1>6. FilesHold /\ Whole(J) /\ SlotsApart(J) /\ SlotsHold(J, ring) /\ gpu = PagesOf(J)
  BY <1>1, <1>2, Before
<1>7. J.items[p].stage = "queued"
  BY <1>1, <1>3 DEF At
<1>8. \A k \in 1..Len(J.items) : J.items[k].slot # s
  <2>1. \A k \in DOMAIN J.items : J.items[k].slot # s
    BY <1>1, <1>2 DEF Holding, Moves
  <2>2. DOMAIN J.items = 1..Len(J.items)
    BY <1>4 DEF Planned, Job
  <2> QED
    BY <2>1, <2>2
<1>9. SlotsHold(K, ring')
  <2>1. ASSUME NEW k \in 1..Len(J.items), InSlot(K, k)
        PROVE  SlotHolds(K, ring, k)
    <3>1. k # p
      BY <1>3, <1>5, <2>1 DEF InSlot
    <3>2. K.items[k] = J.items[k] /\ InSlot(J, k)
      BY <1>5, <2>1, <3>1 DEF InSlot
    <3> QED
      BY <1>5, <1>6, <3>2, SameSlot DEF SlotsHold
  <2> QED
    BY <1>3, <1>5, <2>1 DEF SlotsHold
<1>10. SlotsApart(K)
  <2>1. \A k \in 1..Len(J.items) : J.items[k].slot # K.items[p].slot
    BY <1>5, <1>8
  <2> QED
    BY <1>4, <1>5, <1>6, <2>1, TakesFree
<1>11. Whole(K)
  BY <1>3, <1>5 DEF Whole
<1>12. gpu' = PagesOf(K)
  <2>1. \A k \in 1..Len(J.items) : J.items[k].stage = "done" <=> K.items[k].stage = "done"
    BY <1>5, <1>7
  <2> QED
    BY <1>3, <1>5, <1>6, <2>1, SamePages
<1>13. FilesHold'
  BY <1>3, <1>6 DEF FilesHold
<1> QED
  BY <1>1, <1>2, <1>9, <1>10, <1>11, <1>12, <1>13, After

\* A read brings the blocks of the file to their places in the slot.
LEMMA ReadContent ==
  ASSUME OneReference, RingInv, ContentInv, NEW p, Read(p)
  PROVE  ContentInv'
<1>1. PICK J, K : J = job /\ K = job'
  OBVIOUS
<1>2. PICK it, path : it = J.items[p] /\ path = Paths(J.q)[p]
  OBVIOUS
<1>3. /\ ~J.store /\ At(p, "io") /\ UNCHANGED <<mode, registered, pool, files, gpu>>
      /\ it.slot \in Slots /\ Moves(p, "read", it.slot)
      /\ files[path] # None
      /\ \A i \in 0..SlotPad(it.group) - 1 : ring'[SlotByte(it.slot, i)] = files[path][i]
      /\ \A x \in 0..RingBytes - 1 :
           \/ ring'[x] = ring[x] /\ \A i \in 0..SlotPad(it.group) - 1 : SlotByte(it.slot, i) # x
           \/ \E i \in 0..SlotPad(it.group) - 1 : SlotByte(it.slot, i) = x
  BY <1>1, <1>2, ReadFacts
<1>4. Moves(p, "read", it.slot) /\ gpu' = gpu /\ files' = files
  BY <1>3
<1>5. Planned(J) /\ p \in 1..Len(J.items)
  BY <1>1, <1>4, MovesMore
<1>6. /\ K.q = J.q /\ K.store = J.store /\ Len(K.items) = Len(J.items)
      /\ K.items[p].stage = "read" /\ K.items[p].slot = it.slot
      /\ \A k \in 1..Len(J.items) : k # p => K.items[k] = J.items[k]
      /\ \A k \in 1..Len(J.items) : \A x : Mine(K.items[k], x) = Mine(J.items[k], x)
  BY <1>1, <1>4, MovesMore
<1>7. FilesHold /\ Whole(J) /\ SlotsApart(J) /\ SlotsHold(J, ring) /\ gpu = PagesOf(J)
  BY <1>1, <1>4, Before
<1>8. PICK q \in Asked, g \in Groups, c \in Chunks : q = J.q /\ path = <<g, c>> /\ it.group = g
  <2>1. PICK g \in Groups, c \in Chunks :
          /\ Paths(J.q)[p] = <<g, c>> /\ J.q \in Asked
          /\ J.items[p].group = g /\ J.items[p].copies = Wanted(J.q, g, c)
    BY <1>5, PathOf
  <2> QED
    BY <1>2, <2>1
<1>9. J.items[p].stage = "io"
  BY <1>1, <1>3 DEF At
<1>10. \A i \in 0..SlotPad(g) - 1 : SlotByte(it.slot, i) \div SlotBytes = it.slot
  <2>1. \A i \in 0..SlotPad(g) - 1 : i \in 0..SlotBytes - 1
    BY SlotFacts
  <2> QED
    BY <1>3, <2>1, SlotsDisjoint
<1>11. \A x \in 0..RingBytes - 1 : x \div SlotBytes # it.slot => ring'[x] = ring[x]
  BY <1>3, <1>8, <1>10
<1>12. \A k \in 1..Len(K.items) : k # p /\ InSlot(K, k) => SlotHolds(K, ring', k)
  <2>1. \A k \in 1..Len(J.items) : k # p /\ InSlot(J, k) => J.items[k].slot # it.slot
    BY <1>2, <1>5, <1>7, <1>9, OtherSlots
  <2> QED
    BY <1>5, <1>6, <1>7, <1>11, <2>1, RestHold
<1>13. ASSUME NEW b \in Here(q, g, c), NEW i \in PageBytes(g, 1)
       PROVE  ring'[SlotByte(it.slot, Offset(g, b, i))] = <<g, 1, b, i>>
  <2>1. b \in Blocks /\ b \div BlocksPerChunk = c
    BY CopyFacts
  <2>2. Offset(g, b, i) \in 0..SlotPad(g) - 1
    BY <2>1, OffsetFacts
  <2>3. files[path][Offset(g, b, i)] = <<g, 1, b, i>>
    BY <1>3, <1>7, <1>8, <2>1 DEF FilesHold
  <2> QED
    BY <1>3, <1>8, <2>2, <2>3
<1>14. SlotHolds(K, ring', p)
  <2>1. K.q = q /\ Paths(q)[p][1] = g /\ Paths(q)[p][2] = c
    BY <1>2, <1>6, <1>8
  <2> QED
    BY <1>6, <1>13, <2>1 DEF SlotHolds
<1>15. SlotsHold(K, ring')
  BY <1>12, <1>14 DEF SlotsHold
<1>16. SlotsApart(K)
  BY <1>2, <1>5, <1>6, <1>7, <1>9, KeepsApart
<1>17. Whole(K)
  BY <1>3, <1>6 DEF Whole
<1>18. gpu' = PagesOf(K)
  <2>1. \A k \in 1..Len(J.items) : J.items[k].stage = "done" <=> K.items[k].stage = "done"
    BY <1>6, <1>9
  <2> QED
    BY <1>4, <1>6, <1>7, <2>1, SamePages
<1>19. FilesHold'
  BY <1>4, <1>7 DEF FilesHold
<1> QED
  BY <1>1, <1>4, <1>15, <1>16, <1>17, <1>18, <1>19, After

\* A scatter from a slot that has the blocks of its chunk puts them in their pages.
LEMMA ScatterPlaces ==
  ASSUME OneReference, NEW q \in Asked, NEW g \in Groups, NEW c, NEW s \in Slots, NEW R,
         \A b \in Here(q, g, c), i \in PageBytes(g, 1) :
           R[SlotByte(s, Offset(g, b, i))] = <<g, 1, b, i>>,
         NEW op \in Wanted(q, g, c)
  PROVE  [i \in PageBytes(g, op.ref) |-> R[At0(s, op, i)]] = InPages(q)[<<g, op.ref, op.page>>]
<1>1. PICK b \in Here(q, g, c) : op = CopyOf(q, g, b, 1)
  BY CopyIs
<1>2. b \in q.from[g]..q.to[g] - 1 /\ <<g, 1, q.table[g][b]>> \in GpuPages
  BY CopyFacts
<1>3. op.ref = 1 /\ op.page = q.table[g][b]
  BY <1>1 DEF CopyOf
<1>4. \A i \in PageBytes(g, 1) : At0(s, op, i) = SlotByte(s, Offset(g, b, i))
  BY <1>1, CopyPlace
<1>5. \A i \in PageBytes(g, 1) : R[At0(s, op, i)] = <<g, 1, b, i>>
  BY <1>4
<1>6. InPages(q)[<<g, 1, q.table[g][b]>>] = Kv(g, 1, b)
  BY <1>2, PageOf
<1> QED
  BY <1>3, <1>5, <1>6 DEF Kv

\* A scatter makes its pages those of the request.
LEMMA ScatterContent ==
  ASSUME OneReference, RingInv, ContentInv, NEW p, Scatter(p)
  PROVE  ContentInv'
<1>1. PICK J, it : J = job /\ it = J.items[p] /\ Scatters(J, it, p)
  BY ScatterFacts, Zenon
<1>2. PICK K : K = job'
  OBVIOUS
<1>3. Moves(p, "done", None) /\ files' = files
  BY <1>1 DEF Scatters
<1>4. Planned(J) /\ p \in 1..Len(J.items)
  BY <1>1 DEF Scatters
<1>5. /\ K.q = J.q /\ K.store = J.store /\ Len(K.items) = Len(J.items)
      /\ K.items[p].stage = "done" /\ K.items[p].slot = None
      /\ \A k \in 1..Len(J.items) : k # p => K.items[k] = J.items[k]
      /\ \A k \in 1..Len(J.items) : \A x : Mine(K.items[k], x) = Mine(J.items[k], x)
  BY <1>1, <1>2, <1>3, MovesMore
<1>6. FilesHold /\ Whole(J) /\ SlotsApart(J) /\ SlotsHold(J, ring) /\ gpu = PagesOf(J)
  BY <1>1, <1>3, Before
<1>7. PICK q \in Asked, g \in Groups, c \in Chunks :
        q = J.q /\ Paths(q)[p] = <<g, c>> /\ it.group = g /\ it.copies = Wanted(q, g, c)
  <2>1. PICK g \in Groups, c \in Chunks :
          /\ Paths(J.q)[p] = <<g, c>> /\ J.q \in Asked
          /\ J.items[p].group = g /\ J.items[p].copies = Wanted(J.q, g, c)
    BY <1>4, PathOf
  <2> QED
    BY <1>1, <2>1
<1>8. J.items[p].stage = "read" /\ ~J.store
  <2>1. J.items[p].stage = "read"
    BY <1>1 DEF At, Scatters
  <2> QED
    BY <1>4, <1>6, <2>1 DEF Whole
<1>9. \A k \in 1..Len(K.items) : k # p /\ InSlot(K, k) => SlotHolds(K, ring', k)
  <2>1. \A k \in 1..Len(J.items) : k # p /\ InSlot(J, k) => J.items[k].slot # it.slot
    BY <1>1, <1>4, <1>6, <1>8, OtherSlots
  <2>2. \A x \in 0..RingBytes - 1 : x \div SlotBytes # it.slot => ring'[x] = ring[x]
    <3>1. ring \in [0..RingBytes - 1 -> Bytes]
      BY DEF RingInv, Memory
    <3> QED
      BY <1>1, <3>1, ClearFacts DEF Scatters
  <2> QED
    BY <1>4, <1>5, <1>6, <2>1, <2>2, RestHold
<1>10. ~InSlot(K, p)
  BY <1>5 DEF InSlot
<1>11. SlotsHold(K, ring')
  BY <1>9, <1>10 DEF SlotsHold
<1>12. SlotsApart(K)
  BY <1>4, <1>5, <1>6, <1>8, KeepsApart
<1>13. Whole(K)
  BY <1>5, <1>8 DEF Whole
<1>14. \A b \in Here(q, g, c), i \in PageBytes(g, 1) :
         ring[SlotByte(it.slot, Offset(g, b, i))] = <<g, 1, b, i>>
  <2>1. SlotHolds(J, ring, p)
    BY <1>4, <1>6, <1>8 DEF SlotsHold, InSlot
  <2>2. Paths(J.q)[p][1] = g /\ Paths(J.q)[p][2] = c
    BY <1>7
  <2> QED
    BY <1>1, <1>7, <2>1, <2>2 DEF SlotHolds
<1>15. ASSUME NEW x \in GpuPages
       PROVE  gpu'[x] = PagesOf(K)[x]
  <2>1. Mine(K.items[p], x) = Mine(it, x)
    BY <1>1, <1>4, <1>5
  <2>2. CASE Mine(it, x) = {}
    <3>1. Scattered(K, x) <=> Scattered(J, x)
      <4>1. ASSUME NEW k \in 1..Len(J.items)
            PROVE  K.items[k].stage = "done" /\ Mine(K.items[k], x) # {}
                     <=> J.items[k].stage = "done" /\ Mine(J.items[k], x) # {}
        <5>1. CASE k = p
          BY <1>1, <1>8, <2>1, <2>2, <5>1
        <5>2. CASE k # p
          BY <1>5, <5>2
        <5> QED
          BY <5>1, <5>2
      <4> QED
        BY <1>5, <4>1 DEF Scattered
    <3>2. PagesOf(K)[x] = PagesOf(J)[x]
      BY <1>5, <3>1 DEF PagesOf
    <3> QED
      BY <1>1, <1>6, <2>2, <3>2 DEF Scatters
  <2>3. CASE Mine(it, x) # {}
    <3>1. PICK op \in Mine(it, x) :
            gpu'[x] = [i \in PageBytes(x[1], x[2]) |-> ring[At0(it.slot, op, i)]]
      BY <1>1, <2>3 DEF Scatters
    <3>2. op \in Wanted(q, g, c) /\ x = <<g, op.ref, op.page>>
      BY <1>7 DEF Mine
    <3>3. gpu'[x] = InPages(q)[x]
      <4>1. PICK s \in Slots : s = it.slot
        BY <1>1 DEF Scatters
      <4>2. \A b \in Here(q, g, c), i \in PageBytes(g, 1) :
              ring[SlotByte(s, Offset(g, b, i))] = <<g, 1, b, i>>
        BY <1>14, <4>1
      <4>3. [i \in PageBytes(g, op.ref) |-> ring[At0(s, op, i)]] = InPages(q)[<<g, op.ref, op.page>>]
        BY <3>2, <4>2, ScatterPlaces
      <4>4. x[1] = g /\ x[2] = op.ref
        BY <3>2
      <4> QED
        BY <3>1, <3>2, <4>1, <4>3, <4>4
    <3>4. Scattered(K, x)
      BY <1>4, <1>5, <2>1, <2>3 DEF Scattered
    <3>5. PagesOf(K)[x] = InPages(q)[x]
      BY <1>5, <1>7, <3>4 DEF PagesOf
    <3> QED
      BY <3>3, <3>5
  <2> QED
    BY <2>2, <2>3
<1>16. gpu' = PagesOf(K)
  <2>1. gpu' = [x \in GpuPages |-> gpu'[x]]
    BY DEF Scatter
  <2>2. PagesOf(K) = [x \in GpuPages |-> PagesOf(K)[x]]
    BY DEF PagesOf
  <2> QED
    BY <1>15, <2>1, <2>2
<1>17. FilesHold'
  BY <1>3, <1>6 DEF FilesHold
<1> QED
  BY <1>2, <1>3, <1>11, <1>12, <1>13, <1>16, <1>17, After

\* A job that is submitted has moved no byte.
LEMMA SubmitContent ==
  ASSUME RingInv, ContentInv, NEW q \in Asked, NEW store \in BOOLEAN, NewJob(q, store),
         job = None, files' = files, gpu' = IF store THEN InPages(q) ELSE gpu,
         store => \A g \in Groups : q.from[g] \in ChunkEnds
  PROVE  ContentInv'
<1>1. PICK J : J = [store |-> store, q |-> q, items |-> Plan(q)]
  OBVIOUS
<1>2. J = job'
  BY <1>1 DEF NewJob
<1>3. gpu = JunkPages /\ FilesHold
  BY DEF ContentInv
<1>4. J.store = store /\ J.q = q /\ J.items = Plan(q) /\ J \in Job
  BY <1>1, PlanFacts DEF Job
<1>5. \A k \in 1..Len(J.items) : J.items[k].stage = "queued"
  BY <1>4, PlanFacts
<1>6. Whole(J) /\ SlotsApart(J) /\ SlotsHold(J, ring')
  BY <1>4, <1>5 DEF Whole, SlotsApart, SlotsHold, InSlot
<1>7. gpu' = PagesOf(J)
  <2>1. \A x \in GpuPages : ~Scattered(J, x)
    BY <1>5 DEF Scattered
  <2>2. CASE store
    <3>1. InPages(q) = [x \in GpuPages |-> InPages(q)[x]]
      BY DEF InPages
    <3>2. PagesOf(J) = [x \in GpuPages |-> InPages(q)[x]]
      BY <1>4, <2>2 DEF PagesOf
    <3> QED
      BY <2>2, <3>1, <3>2
  <2>3. CASE ~store
    <3>1. PagesOf(J) = [x \in GpuPages |-> JunkPages[x]]
      BY <1>4, <2>1, <2>3 DEF PagesOf
    <3>2. JunkPages = [x \in GpuPages |-> JunkPages[x]]
      BY DEF JunkPages
    <3> QED
      BY <1>3, <2>3, <3>1, <3>2
  <2> QED
    BY <2>2, <2>3
<1>8. J # None
  BY <1>4, NoneAssumption
<1>9. FilesHold'
  BY <1>3 DEF FilesHold
<1> QED
  BY <1>2, <1>6, <1>7, <1>8, <1>9 DEF ContentInv, JobHolds

\* So do the steps that are not a job's.
LEMMA OtherContent ==
  ASSUME RingInv, ContentInv,
         GetPool \/ GetPoolAgain \/ JobEnds \/ Shutdown \/ OtherShutdown \/ Restart \/ UNCHANGED vars
  PROVE  ContentInv'
<1>1. files' = files
  BY DEF GetPool, GetPoolAgain, JobEnds, Shutdown, OtherShutdown, ShutPool, Restart, vars
<1>2. FilesHold'
  BY <1>1 DEF ContentInv, FilesHold
<1>3. CASE job' = job /\ gpu' = gpu /\ ring' = ring
  <2>1. (job = None => gpu = JunkPages) /\ (job # None => JobHolds(job, ring, gpu))
    BY DEF ContentInv
  <2>2. (job' = None => gpu' = JunkPages) /\ (job' # None => JobHolds(job', ring', gpu'))
    BY <1>3, <2>1
  <2> QED
    BY <1>2, <2>2 DEF ContentInv
<1>4. CASE job' = None /\ gpu' = JunkPages
  BY <1>2, <1>4 DEF ContentInv
<1> QED
  BY <1>3, <1>4
     DEF GetPool, GetPoolAgain, JobEnds, Shutdown, OtherShutdown, ShutPool, Restart, vars

\* Every step keeps ContentInv.
LEMMA ContentKept ==
  ASSUME OneReference, RingInv, ContentInv, [Next]_vars
  PROVE  ContentInv'
<1>1. CASE \/ GetPool \/ GetPoolAgain \/ JobEnds \/ Shutdown \/ OtherShutdown \/ Restart
           \/ UNCHANGED vars
  BY <1>1, OtherContent
<1>2. CASE \E q \in Requests(ChunkEnds, ChunkEnds) : SubmitStore(q)
  <2>1. PICK q \in Requests(ChunkEnds, ChunkEnds) : SubmitStore(q)
    BY <1>2
  <2>2. q \in Asked /\ \A g \in Groups : q.from[g] \in ChunkEnds
    BY StoresAsked
  <2>3. NewJob(q, TRUE) /\ job = None /\ files' = files /\ gpu' = InPages(q)
    BY <2>1 DEF SubmitStore
  <2> QED
    BY <2>2, <2>3, SubmitContent
<1>3. CASE \E q \in Asked : SubmitLoad(q)
  <2>1. PICK q \in Asked : SubmitLoad(q)
    BY <1>3
  <2>2. NewJob(q, FALSE) /\ job = None /\ files' = files /\ gpu' = gpu
    BY <2>1 DEF SubmitLoad
  <2> QED
    BY <2>2, SubmitContent
<1>4. CASE \E p \in 1..Cardinality(Groups \X Chunks) : Steps(p)
  <2>1. PICK p : Steps(p)
    BY <1>4
  <2> QED
    BY <2>1, GatherContent, WriteContent, StartReadContent, ReadContent, ScatterContent DEF Steps
<1> QED
  BY <1>1, <1>2, <1>3, <1>4 DEF Next

\* Once all items of a load are done, every page it names has been filled.
LEMMA AllScattered ==
  ASSUME OneReference, NEW J, Planned(J), ~J.store,
         \A p \in 1..Len(J.items) : J.items[p].stage = "done"
  PROVE  PagesOf(J) = InPages(J.q)
<1>1. PICK q \in Asked : q = J.q
  BY DEF Planned, Job
<1>2. ASSUME NEW x \in GpuPages, ~Scattered(J, x)
      PROVE  InPages(q)[x] = JunkPages[x]
  <2>1. PICK g \in Groups : x \in {g} \X (DOMAIN Refs[g]) \X Pages
    BY DEF GpuPages
  <2>2. x = <<g, 1, x[3]>> /\ x[1] = g
    BY <2>1, OnlyReference
  <2>3. ASSUME NEW b \in q.from[g]..q.to[g] - 1, q.table[g][b] = x[3]
        PROVE  FALSE
    <3>1. PICK p \in 1..Len(Paths(q)) : Paths(q)[p] = <<g, b \div BlocksPerChunk>>
      BY BlockHasFile
    <3>2. p \in 1..Len(J.items)
      BY <1>1 DEF Planned
    <3>3. PICK c : c = b \div BlocksPerChunk
      OBVIOUS
    <3>4. J.items[p].group = g /\ J.items[p].copies = Wanted(q, g, c)
      <4>1. ItemOf(J.items[p], q, Paths(q)[p])
        BY <1>1, <3>2 DEF Planned
      <4> QED
        BY <3>1, <3>3, <4>1 DEF ItemOf
    <3>5. b \in Here(q, g, c)
      BY <3>3 DEF Here
    <3>6. PICK op : op = CopyOf(q, g, b, 1)
      OBVIOUS
    <3>7. op \in Wanted(q, g, c)
      BY <3>5, <3>6, CopyFacts
    <3>8. op.ref = 1 /\ op.page = q.table[g][b]
      BY <3>6 DEF CopyOf
    <3>9. x = <<J.items[p].group, op.ref, op.page>>
      BY <2>2, <2>3, <3>4, <3>8
    <3>10. op \in Mine(J.items[p], x)
      BY <3>4, <3>7, <3>9 DEF Mine
    <3> QED
      BY <1>2, <3>2, <3>10 DEF Scattered
  <2>4. {b \in q.from[x[1]]..q.to[x[1]] - 1 : q.table[x[1]][b] = x[3]} = {}
    BY <2>2, <2>3
  <2> QED
    BY <2>4 DEF InPages
<1>3. \A x \in GpuPages : PagesOf(J)[x] = InPages(q)[x]
  BY <1>1, <1>2 DEF PagesOf
<1>4. PagesOf(J) = [x \in GpuPages |-> PagesOf(J)[x]] /\ InPages(q) = [x \in GpuPages |-> InPages(q)[x]]
  BY DEF PagesOf, InPages
<1> QED
  BY <1>1, <1>3, <1>4

\* A load that is done has brought back, into the pages it names and no others, the
\* blocks that were stored, by whichever process, in whichever slots and mode, and
\* wherever the load starts: if every group has one reference.
THEOREM LoadsBringBack ==
  ASSUME OneReference
  PROVE  Spec => []RoundTrip
<1>1. Init => ContentInv
  <2>1. Init => FilesHold
    BY DEF Init, FilesHold
  <2> QED
    BY <2>1 DEF Init, ContentInv
<1>2. RingInv /\ ContentInv /\ [Next]_vars => ContentInv'
  BY ContentKept
<1>3. RingInv /\ ContentInv => RoundTrip
  <2> SUFFICES ASSUME RingInv, ContentInv, AllDone, ~job.store
               PROVE  gpu = InPages(job.q)
    BY DEF RoundTrip
  <2>1. PICK J : J = job
    OBVIOUS
  <2>2. Planned(J) /\ gpu = PagesOf(J)
    BY <2>1 DEF AllDone, RingInv, JobInv, ContentInv, JobHolds
  <2>3. DOMAIN J.items = 1..Len(J.items)
    BY <2>2 DEF Planned, Job
  <2>4. \A p \in 1..Len(J.items) : J.items[p].stage = "done"
    BY <2>1, <2>3 DEF AllDone, At
  <2>5. PagesOf(J) = InPages(J.q)
    BY <2>1, <2>2, <2>4, AllScattered
  <2> QED
    BY <2>1, <2>2, <2>5
<1> QED
  BY <1>1, <1>2, <1>3, Invariance, PTL DEF Spec
=============================================================================
