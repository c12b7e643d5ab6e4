-------------------------- MODULE VendorItems_proofs --------------------------
(***************************************************************************)
(* Theorems about VendorItems, for any ids, sizes and values, any unit and *)
(* any size of the region and of item[].  They are about the writes until  *)
(* one overruns item[]; Sound is what holds until then and IInv the        *)
(* inductive invariant.  Facts about the loop of moves are proved by       *)
(* induction over its turns, as the least turn that would break them       *)
(* (LeastTurn).                                                            *)
(***************************************************************************)
EXTENDS VendorItems, SequenceTheorems, NaturalsInduction, WellFoundedInduction, TLAPS

-----------------------------------------------------------------------------
(* The inductive invariant *)

Item == [id : Ids, offset : 0 .. DataSize, size : Sizes]
Byte == (UNION {Range(c) : c \in Contents}) \cup {Missing}

\* The room of item x of the table q ends before b.
EndsBefore(q, x, b) == q[x].offset + Align(q[x].size) <= b

\* The rooms of the table q lie one behind the other and before end.
InOrder(q, end) ==
  /\ \A x \in 1 .. Len(q) : EndsBefore(q, x, end)
  /\ \A x, y \in 1 .. Len(q) : x < y => EndsBefore(q, x, q[y].offset)

\* No id is twice in the table q.
OneEach(q) == \A x, y \in 1 .. Len(q) : q[x].id = q[y].id => x = y

Sound ==
  ~overrun /\ TypeOK /\ InOrder(items, freeOffset) /\ OneEach(items) /\ FreeSpaceIsThere

IInv == TypeOK /\ (overrun \/ Sound)

-----------------------------------------------------------------------------
(* Arithmetic and induction *)

\* ALIGN gives no less than it is given.
LEMMA AlignFacts ==
  ASSUME NEW n \in Nat
  PROVE  Align(n) \in Nat /\ n <= Align(n)
<1> DEFINE q == (n + Unit - 1) \div Unit
<1>1. Unit \in Nat /\ Unit > 0
  BY ItemsAssumption
<1>2. q \in Nat /\ n + Unit - 1 < q * Unit + Unit
  BY <1>1
<1>3. q * Unit \in Nat
  BY <1>1, <1>2
<1> QED BY <1>1, <1>2, <1>3 DEF Align

\* What fits a room has no larger room.
LEMMA AlignFits ==
  ASSUME NEW n \in Nat, NEW m \in Nat, n <= Align(m)
  PROVE  Align(n) <= Align(m)
<1> DEFINE p == (n + Unit - 1) \div Unit
           q == (m + Unit - 1) \div Unit
<1>1. Unit \in Nat /\ Unit > 0
  BY ItemsAssumption
<1>2. p \in Nat /\ q \in Nat /\ p * Unit <= n + Unit - 1
  BY <1>1
<1>3. Align(n) = p * Unit /\ Align(m) = q * Unit
  BY DEF Align
<1> HIDE DEF p, q
<1>4. p * Unit < (q + 1) * Unit
  BY <1>1, <1>2, <1>3
<1>5. p <= q
  BY <1>1, <1>2, <1>4
<1>6. p * Unit <= q * Unit
  BY <1>1, <1>2, <1>5
<1> QED BY <1>3, <1>6

\* A byte of what is in a room is in the room, and in the region.
LEMMA InRoom ==
  ASSUME NEW from \in Nat, NEW n \in Nat, NEW end \in Nat, from + n <= end, end <= DataSize,
         NEW size \in Nat, size <= n, NEW t \in 0 .. size - 1
  PROVE  /\ from + t \in Nat /\ from <= from + t /\ from + t < end
         /\ t \in 0 .. n - 1 /\ from + t \in 0 .. DataSize - 1
BY ItemsAssumption

\* A set of natural numbers has a least element.
LEMMA LeastTurn ==
  ASSUME NEW T, T \subseteq Nat, T # {}
  PROVE  \E n \in T : \A m \in T : n <= m
<1>1. \E n \in T : \A m \in T : ~ (<<m, n>> \in OpToRel(<, Nat))
  BY WFMin, NatLessThanWellFounded, Zenon
<1>2. \E n \in T : \A m \in T : ~(m < n)
  BY <1>1, Zenon DEF OpToRel
<1> QED BY <1>2

\* What holds before a loop and after each turn holds after n turns.
LEMMA TurnByTurn ==
  ASSUME NEW n \in Nat, NEW T, 0 \in T, \A k \in Nat : k < n /\ k \in T => k + 1 \in T
  PROVE  \A k \in 0 .. n : k \in T
<1> DEFINE C == {k \in 0 .. n : k \notin T}
<1> SUFFICES ASSUME C # {} PROVE FALSE
  OBVIOUS
<1>1. PICK k \in C : \A m \in C : k <= m
  <2>1. C \subseteq Nat
    OBVIOUS
  <2> HIDE DEF C
  <2> QED BY <2>1, LeastTurn
<1>2. k \in Nat /\ k # 0 /\ k - 1 \in Nat /\ k - 1 < n
  OBVIOUS
<1>3. k - 1 \in T
  BY <1>1, <1>2
<1> QED BY <1>2, <1>3

-----------------------------------------------------------------------------
(* The loop of moves: what Turns(i) is *)

\* What the loop starts with when item i grows.
Start(i) == [items |-> SubSeq(items, 1, i - 1), data |-> data, offset |-> items[i].offset]

\* f is what the loop has made after each of n turns.
Loops(i, f, n) ==
  f = [k \in 0 .. n |-> IF k = 0 THEN Start(i) ELSE MoveDown(f[k - 1], items[i + k])]

\* One turn more.
LEMMA OneTurnMore ==
  ASSUME NEW i, NEW n \in Nat, NEW f, Loops(i, f, n)
  PROVE  \E g : Loops(i, g, n + 1)
<1> DEFINE g == [k \in 0 .. n + 1 |-> IF k = n + 1 THEN MoveDown(f[n], items[i + (n + 1)]) ELSE f[k]]
<1> DEFINE h == [k \in 0 .. n + 1 |-> IF k = 0 THEN Start(i) ELSE MoveDown(g[k - 1], items[i + k])]
<1>1. ASSUME NEW k \in 0 .. n + 1 PROVE g[k] = h[k]
  <2>1. \A x \in 0 .. n : g[x] = f[x]
    OBVIOUS
  <2>2. \A x \in 0 .. n : f[x] = IF x = 0 THEN Start(i) ELSE MoveDown(f[x - 1], items[i + x])
    BY DEF Loops
  <2> HIDE DEF g
  <2>3. h[k] = IF k = 0 THEN Start(i) ELSE MoveDown(g[k - 1], items[i + k])
    OBVIOUS
  <2> HIDE DEF h
  <2>4. CASE k = n + 1
    <3>1. g[k] = MoveDown(f[n], items[i + k])
      BY <2>4 DEF g
    <3>2. g[k - 1] = f[n] /\ k # 0
      BY <2>1, <2>4
    <3> QED BY <3>1, <3>2, <2>3
  <2>5. CASE k \in 0 .. n
    <3>1. k # 0 => g[k - 1] = f[k - 1]
      BY <2>1, <2>5
    <3> QED BY <3>1, <2>1, <2>2, <2>3, <2>5
  <2> QED BY <2>4, <2>5
<1>2. g = h
  <2>1. g = [k \in 0 .. n + 1 |-> g[k]] /\ h = [k \in 0 .. n + 1 |-> h[k]]
    OBVIOUS
  <2> HIDE DEF g, h
  <2> QED BY <1>1, <2>1
<1>3. Loops(i, g, n + 1)
  BY <1>2 DEF Loops
<1> QED BY <1>3

\* The loop makes something for any number of turns.
LEMMA LoopEnds ==
  ASSUME NEW i, NEW n \in Nat
  PROVE  \E f : Loops(i, f, n)
<1> DEFINE T == {k \in Nat : \E f : Loops(i, f, k)}
<1>1. 0 \in T
  <2>1. Loops(i, [k \in 0 .. 0 |-> Start(i)], 0)
    BY DEF Loops
  <2> QED BY <2>1
<1>2. ASSUME NEW k \in Nat, k < n /\ k \in T PROVE k + 1 \in T
  <2>1. PICK f : Loops(i, f, k)
    BY <1>2
  <2>2. \E g : Loops(i, g, k + 1)
    BY <2>1, OneTurnMore
  <2> QED BY <2>2
<1>3. n \in T
  <2> HIDE DEF T
  <2> QED BY <1>1, <1>2, TurnByTurn
<1> QED BY <1>3

\* Turns(i) is what the loop makes: a start and one item moved in each turn.
LEMMA TurnsAre ==
  ASSUME NEW i \in Nat, Len(items) - i \in Nat
  PROVE  /\ Turns(i)[0] = Start(i)
         /\ \A k \in 1 .. Len(items) - i : Turns(i)[k] = MoveDown(Turns(i)[k - 1], items[i + k])
<1>1. \E f : Loops(i, f, Len(items) - i)
  BY LoopEnds
<1>2. Turns(i) = CHOOSE f : Loops(i, f, Len(items) - i)
  BY Zenon DEF Turns, Loops, Start
<1>3. Loops(i, Turns(i), Len(items) - i)
  BY <1>1, <1>2, Zenon
<1> HIDE DEF Turns
<1>4. \A k \in 0 .. Len(items) - i :
        Turns(i)[k] = IF k = 0 THEN Start(i) ELSE MoveDown(Turns(i)[k - 1], items[i + k])
  BY <1>3 DEF Loops
<1> QED BY <1>4

-----------------------------------------------------------------------------
(* Copies *)

Region == [0 .. DataSize - 1 -> Byte]

\* c is the region d after n bytes were copied from "from" to "to".
IsCopy(c, d, to, from, n) ==
  /\ c \in Region
  /\ \A t \in 0 .. n - 1 : c[to + t] = d[from + t]
  /\ \A b \in 0 .. DataSize - 1 : b < to \/ to + n <= b => c[b] = d[b]

\* c is the region d after bytes were stored from "to" on.
IsStore(c, d, to, bytes) ==
  /\ c \in Region
  /\ \A k \in 1 .. Len(bytes) : c[to + k - 1] = bytes[k]
  /\ \A b \in 0 .. DataSize - 1 : b < to \/ to + Len(bytes) <= b => c[b] = d[b]

\* What a copy to a lower address makes of the bytes of the region.
LEMMA CopiedBytes ==
  ASSUME NEW d \in Region, NEW to \in Nat, NEW from \in Nat, NEW n \in Nat,
         to <= from, from + n <= DataSize
  PROVE  IsCopy(Copied(d, to, from, n), d, to, from, n)
<1>1. DataSize \in Nat
  BY ItemsAssumption
<1>2. DOMAIN d = 0 .. DataSize - 1 /\ \A b \in 0 .. DataSize - 1 : d[b] \in Byte
  BY DEF Region
<1> HIDE DEF Region
<1>3. Copied(d, to, from, n) =
        [b \in 0 .. DataSize - 1 |-> IF b \in to .. to + n - 1 THEN d[b - to + from] ELSE d[b]]
  BY <1>2 DEF Copied
<1>4. ASSUME NEW b \in 0 .. DataSize - 1
      PROVE  (IF b \in to .. to + n - 1 THEN d[b - to + from] ELSE d[b]) \in Byte
  <2>1. CASE b \in to .. to + n - 1
    <3>1. b - to + from \in 0 .. DataSize - 1
      BY <1>1, <2>1
    <3> QED BY <2>1, <3>1, <1>2
  <2>2. CASE b \notin to .. to + n - 1
    BY <2>2, <1>2
  <2> QED BY <2>1, <2>2
<1>5. Copied(d, to, from, n) \in Region
  BY <1>3, <1>4 DEF Region
<1>6. ASSUME NEW t \in 0 .. n - 1 PROVE Copied(d, to, from, n)[to + t] = d[from + t]
  <2>1. to + t \in 0 .. DataSize - 1 /\ to + t \in to .. to + n - 1 /\ to + t - to + from = from + t
    BY <1>1
  <2> QED BY <1>3, <2>1
<1>7. ASSUME NEW b \in 0 .. DataSize - 1, b < to \/ to + n <= b
      PROVE  Copied(d, to, from, n)[b] = d[b]
  <2>1. b \notin to .. to + n - 1
    BY <1>7
  <2> QED BY <1>3, <2>1
<1> QED BY <1>5, <1>6, <1>7 DEF IsCopy

\* The same for what is copied from the caller.
LEMMA StoredBytes ==
  ASSUME NEW d \in Region, NEW to \in Nat, NEW bytes \in Seq(Byte), to + Len(bytes) <= DataSize
  PROVE  IsStore(Stored(d, to, bytes), d, to, bytes)
<1>1. DataSize \in Nat /\ Len(bytes) \in Nat /\ \A k \in 1 .. Len(bytes) : bytes[k] \in Byte
  BY ItemsAssumption
<1>2. DOMAIN d = 0 .. DataSize - 1 /\ \A b \in 0 .. DataSize - 1 : d[b] \in Byte
  BY DEF Region
<1> HIDE DEF Region
<1>3. Stored(d, to, bytes) =
        [b \in 0 .. DataSize - 1 |->
           IF b \in to .. to + Len(bytes) - 1 THEN bytes[b - to + 1] ELSE d[b]]
  BY <1>2 DEF Stored
<1>4. ASSUME NEW b \in 0 .. DataSize - 1
      PROVE  (IF b \in to .. to + Len(bytes) - 1 THEN bytes[b - to + 1] ELSE d[b]) \in Byte
  <2>1. CASE b \in to .. to + Len(bytes) - 1
    <3>1. b - to + 1 \in 1 .. Len(bytes)
      BY <1>1, <2>1
    <3> QED BY <2>1, <3>1, <1>1
  <2>2. CASE b \notin to .. to + Len(bytes) - 1
    BY <2>2, <1>2
  <2> QED BY <2>1, <2>2
<1>5. Stored(d, to, bytes) \in Region
  BY <1>3, <1>4 DEF Region
<1>6. ASSUME NEW k \in 1 .. Len(bytes) PROVE Stored(d, to, bytes)[to + k - 1] = bytes[k]
  <2>1. /\ to + k - 1 \in 0 .. DataSize - 1 /\ to + k - 1 \in to .. to + Len(bytes) - 1
        /\ to + k - 1 - to + 1 = k
    BY <1>1
  <2> QED BY <1>3, <2>1
<1>7. ASSUME NEW b \in 0 .. DataSize - 1, b < to \/ to + Len(bytes) <= b
      PROVE  Stored(d, to, bytes)[b] = d[b]
  <2>1. b \notin to .. to + Len(bytes) - 1
    BY <1>1, <1>7
  <2> QED BY <1>3, <2>1
<1> QED BY <1>5, <1>6, <1>7 DEF IsStore

\* What callers write is a sequence of bytes of the size they give.
LEMMA BytesAre ==
  ASSUME NEW size \in Sizes, NEW v \in Values
  PROVE  /\ Bytes(size, v) \in Seq(Byte) /\ Bytes(size, v) \in Contents
         /\ Len(Bytes(size, v)) = size /\ size \in Nat
<1>1. size \in Nat
  BY ItemsAssumption
<1>2. Bytes(size, v) \in Contents
  BY DEF Contents
<1>3. DOMAIN Bytes(size, v) = 1 .. size
  BY DEF Bytes
<1>4. ASSUME NEW k \in 1 .. size PROVE Bytes(size, v)[k] \in Byte
  <2>1. Bytes(size, v)[k] \in Range(Bytes(size, v))
    BY <1>3, Zenon DEF Range
  <2> QED BY <1>2, <2>1 DEF Byte
<1>5. Bytes(size, v) \in [1 .. size -> Byte]
  BY <1>3, <1>4 DEF Bytes
<1>6. Bytes(size, v) \in Seq(Byte) /\ Len(Bytes(size, v)) = size
  BY <1>1, <1>5
<1> QED BY <1>1, <1>2, <1>6

-----------------------------------------------------------------------------
(* What holds after each turn *)

Moved == [items : Seq(Item), data : Region, offset : Nat]

\* Where the x-th item of the table was before item i was taken out.
Was(i, x) == IF x < i THEN x ELSE x + 1

\* What is behind the items that k turns have moved: the next one, or nothing.
Behind(i, k) == IF i + k < Len(items) THEN items[i + k + 1].offset ELSE freeOffset

\* After k turns the table m.items is the old one without item i and all behind
\* i + k, in order; its items have the bytes they had; the room of item i is
\* free below what is behind; nothing from m.offset on has changed.
Turned(m, i, k) ==
  /\ m \in Moved
  /\ Len(m.items) = i - 1 + k
  /\ \A x \in 1 .. i - 1 + k :
        m.items[x].id = items[Was(i, x)].id /\ m.items[x].size = items[Was(i, x)].size
  /\ InOrder(m.items, m.offset)
  /\ m.offset + Align(items[i].size) <= Behind(i, k)
  /\ \A x \in 1 .. i - 1 + k : \A t \in 0 .. m.items[x].size - 1 :
        m.data[m.items[x].offset + t] = data[items[Was(i, x)].offset + t]
  /\ \A b \in 0 .. DataSize - 1 : m.offset <= b => m.data[b] = data[b]

\* The items of the table have their types and rooms.
LEMMA ItemsAre ==
  ASSUME Sound
  PROVE  /\ Len(items) \in Nat /\ freeOffset \in Nat /\ freeSize \in Nat /\ DataSize \in Nat
         /\ freeOffset + freeSize <= DataSize
         /\ \A x \in 1 .. Len(items) :
              /\ items[x] \in Item /\ items[x].id \in Ids /\ items[x].size \in Sizes
              /\ items[x].offset \in Nat
              /\ items[x].size \in Nat
              /\ Align(items[x].size) \in Nat /\ items[x].size <= Align(items[x].size)
              /\ items[x].offset + Align(items[x].size) <= freeOffset
         /\ \A x, y \in 1 .. Len(items) :
              x < y => items[x].offset + Align(items[x].size) <= items[y].offset
<1>1. items \in Seq(Item)
  BY DEF Sound, TypeOK, Item
<1>2. /\ Len(items) \in Nat /\ freeOffset \in Nat /\ freeSize \in Nat /\ DataSize \in Nat
      /\ freeOffset + freeSize <= DataSize
  BY <1>1, ItemsAssumption DEF Sound, TypeOK, FreeSpaceIsThere
<1>3. ASSUME NEW x \in 1 .. Len(items)
      PROVE  /\ items[x] \in Item /\ items[x].id \in Ids /\ items[x].size \in Sizes
             /\ items[x].offset \in Nat
             /\ items[x].size \in Nat
             /\ Align(items[x].size) \in Nat /\ items[x].size <= Align(items[x].size)
             /\ items[x].offset + Align(items[x].size) <= freeOffset
  <2>1. items[x] \in Item
    BY <1>1
  <2>2. items[x].id \in Ids /\ items[x].size \in Sizes /\ items[x].offset \in Nat
    BY <2>1 DEF Item
  <2>3. items[x].size \in Nat
    <3>1. \A s \in Sizes : s \in Nat
      BY ItemsAssumption
    <3> QED BY <2>2, <3>1
  <2>4. Align(items[x].size) \in Nat /\ items[x].size <= Align(items[x].size)
    BY <2>3, AlignFacts
  <2>5. items[x].offset + Align(items[x].size) <= freeOffset
    BY DEF Sound, InOrder, EndsBefore
  <2> QED BY <2>1, <2>2, <2>3, <2>4, <2>5
<1>4. \A x, y \in 1 .. Len(items) :
        x < y => items[x].offset + Align(items[x].size) <= items[y].offset
  BY DEF Sound, InOrder, EndsBefore
<1> QED BY <1>2, <1>3, <1>4

\* One turn.
LEMMA MoveDownDoes ==
  ASSUME NEW m \in Moved, NEW q \in Item
  PROVE  /\ MoveDown(m, q).items =
              Append(m.items, [id |-> q.id, offset |-> m.offset, size |-> q.size])
         /\ MoveDown(m, q).data = Copied(m.data, m.offset, q.offset, Align(q.size))
         /\ MoveDown(m, q).offset = m.offset + Align(q.size)
         /\ MoveDown(m, q) = [items  |-> MoveDown(m, q).items,
                              data   |-> MoveDown(m, q).data,
                              offset |-> MoveDown(m, q).offset]
<1>1. [q EXCEPT !.offset = m.offset] = [id |-> q.id, offset |-> m.offset, size |-> q.size]
  BY DEF Item
<1> DEFINE r == [q EXCEPT !.offset = m.offset]
<1> DEFINE c == Copied(m.data, m.offset, q.offset, Align(q.size))
<1>2. MoveDown(m, q) = [m EXCEPT !.items = Append(m.items, r), !.data = c,
                                 !.offset = m.offset + Align(q.size)]
  BY DEF MoveDown
<1> HIDE DEF r, c
<1>3. MoveDown(m, q) = [items |-> Append(m.items, r), data |-> c, offset |-> m.offset + Align(q.size)]
  BY <1>2 DEF Moved
<1>4. r = [id |-> q.id, offset |-> m.offset, size |-> q.size]
  BY <1>1 DEF r
<1>5. c = Copied(m.data, m.offset, q.offset, Align(q.size))
  BY DEF c
<1> QED BY <1>3, <1>4, <1>5

LEMMA FirstTurn ==
  ASSUME Sound, NEW i \in 1 .. Len(items)
  PROVE  Turned(Start(i), i, 0)
<1> DEFINE m == Start(i)
<1> USE ItemsAre
<1>1. items \in Seq(Item) /\ data \in Region
  BY DEF Sound, TypeOK, Item, Region, Byte
<1>2. m.items = SubSeq(items, 1, i - 1) /\ m.data = data /\ m.offset = items[i].offset
  BY DEF Start
<1>3. /\ m.items \in Seq(Item) /\ Len(m.items) = i - 1
      /\ \A x \in 1 .. i - 1 : m.items[x] = items[x]
  <2>1. \A x \in 1 .. i - 1 : items[x] \in Item
    OBVIOUS
  <2>2. i - 1 \in Int /\ 1 \in Int /\ i - 1 \in Nat
    OBVIOUS
  <2>3. /\ SubSeq(items, 1, i - 1) \in Seq(Item)
        /\ Len(SubSeq(items, 1, i - 1)) = IF 1 <= i - 1 THEN i - 1 - 1 + 1 ELSE 0
        /\ \A x \in 1 .. i - 1 - 1 + 1 : SubSeq(items, 1, i - 1)[x] = items[1 + x - 1]
    BY <2>1, <2>2, SubSeqProperties
  <2> QED BY <2>2, <2>3, <1>2
<1>4. m \in Moved
  BY <1>1, <1>2, <1>3 DEF Moved, Start
<1> HIDE DEF m
<1>5. \A x \in 1 .. i - 1 : Was(i, x) = x
  BY DEF Was
<1>6. InOrder(m.items, m.offset)
  <2>1. \A x \in 1 .. i - 1 : x \in 1 .. Len(items) /\ x < i
    OBVIOUS
  <2>2. \A x \in 1 .. i - 1 : items[x].offset + Align(items[x].size) <= items[i].offset
    BY <2>1
  <2>3. \A x, y \in 1 .. i - 1 : x < y => items[x].offset + Align(items[x].size) <= items[y].offset
    BY <2>1
  <2> HIDE ItemsAre
  <2>4. \A x \in 1 .. i - 1 : EndsBefore(m.items, x, m.offset)
    BY <1>2, <1>3, <2>2 DEF EndsBefore
  <2>5. \A x, y \in 1 .. i - 1 : x < y => EndsBefore(m.items, x, m.items[y].offset)
    BY <1>3, <2>3 DEF EndsBefore
  <2> QED BY <1>3, <2>4, <2>5 DEF InOrder
<1>7. m.offset + Align(items[i].size) <= Behind(i, 0)
  <2>1. CASE i < Len(items)
    <3>1. i + 1 \in 1 .. Len(items) /\ i < i + 1 /\ i + 0 = i /\ i + 0 + 1 = i + 1
      BY <2>1
    <3>2. items[i].offset + Align(items[i].size) <= items[i + 1].offset
      BY <3>1
    <3>3. Behind(i, 0) = items[i + 1].offset
      BY <2>1, <3>1 DEF Behind
    <3> HIDE ItemsAre
    <3> QED BY <1>2, <3>2, <3>3
  <2>2. CASE ~(i < Len(items))
    <3>1. i + 0 = i
      OBVIOUS
    <3>2. Behind(i, 0) = freeOffset
      BY <2>2, <3>1 DEF Behind
    <3> QED BY <1>2, <3>2
  <2> QED BY <2>1, <2>2
<1>8. i - 1 + 0 = i - 1
  OBVIOUS
<1> QED BY <1>2, <1>3, <1>4, <1>5, <1>6, <1>7, <1>8 DEF Turned, m

\* The table after one more turn is still in order.
LEMMA TurnKeepsOrder ==
  ASSUME NEW q \in Seq(Item), NEW q2 \in Seq(Item), NEW e \in Item, NEW old \in Nat, NEW end \in Nat,
         InOrder(q, old), q2 = Append(q, e), e.offset = old, EndsBefore(q2, Len(q) + 1, end), old <= end
  PROVE  InOrder(q2, end)
<1>1. /\ Len(q) \in Nat /\ Len(q2) = Len(q) + 1 /\ q2[Len(q) + 1] = e
      /\ \A x \in 1 .. Len(q) : q2[x] = q[x]
  OBVIOUS
<1>2. \A x \in 1 .. Len(q2) : q2[x].size \in Nat /\ q2[x].offset \in Nat
  <2>1. \A x \in 1 .. Len(q2) : q2[x] \in Item
    OBVIOUS
  <2>2. \A s \in Sizes : s \in Nat
    BY ItemsAssumption
  <2> QED BY <2>1, <2>2 DEF Item
<1>3. \A x \in 1 .. Len(q2) : Align(q2[x].size) \in Nat
  BY <1>2, AlignFacts
<1>4. ASSUME NEW x \in 1 .. Len(q2) PROVE EndsBefore(q2, x, end)
  <2>1. CASE x = Len(q) + 1
    BY <2>1
  <2>2. CASE x \in 1 .. Len(q)
    <3>1. q[x].offset + Align(q[x].size) <= old
      BY <2>2 DEF InOrder, EndsBefore
    <3>2. q2[x] = q[x]
      BY <1>1, <2>2
    <3>3. q2[x].offset + Align(q2[x].size) <= old
      BY <3>1, <3>2
    <3>4. q2[x].offset \in Nat /\ Align(q2[x].size) \in Nat
      BY <1>2, <1>3
    <3> QED BY <3>3, <3>4 DEF EndsBefore
  <2> QED BY <1>1, <2>1, <2>2
<1>5. ASSUME NEW x \in 1 .. Len(q2), NEW y \in 1 .. Len(q2), x < y
      PROVE  EndsBefore(q2, x, q2[y].offset)
  <2>1. x \in 1 .. Len(q) /\ q2[x] = q[x]
    BY <1>1, <1>5
  <2>2. CASE y = Len(q) + 1
    <3>1. q[x].offset + Align(q[x].size) <= old
      BY <2>1 DEF InOrder, EndsBefore
    <3>2. q2[y].offset = old
      BY <1>1, <2>2
    <3> QED BY <3>1, <3>2, <2>1 DEF EndsBefore
  <2>3. CASE y \in 1 .. Len(q)
    <3>1. q[x].offset + Align(q[x].size) <= q[y].offset
      BY <2>1, <2>3, <1>5 DEF InOrder, EndsBefore
    <3>2. q2[y] = q[y]
      BY <1>1, <2>3
    <3> QED BY <3>1, <3>2, <2>1 DEF EndsBefore
  <2> QED BY <1>1, <2>2, <2>3
<1> QED BY <1>4, <1>5 DEF InOrder

LEMMA NextTurn ==
  ASSUME Sound, NEW i \in 1 .. Len(items), NEW k \in Nat, i + k < Len(items),
         NEW m, Turned(m, i, k)
  PROVE  Turned(MoveDown(m, items[i + (k + 1)]), i, k + 1)
<1> DEFINE q == items[i + (k + 1)]
           n == MoveDown(m, q)
           e == [id |-> q.id, offset |-> m.offset, size |-> q.size]
<1>1. /\ i + (k + 1) \in 1 .. Len(items) /\ i + (k + 1) = i + k + 1 /\ i < i + (k + 1)
      /\ Len(items) \in Nat /\ i \in Nat /\ i >= 1
  BY ItemsAre
<1>2. /\ q \in Item /\ q.id \in Ids /\ q.size \in Sizes /\ q.offset \in Nat
      /\ q.size \in Nat /\ Align(q.size) \in Nat /\ q.size <= Align(q.size)
      /\ q.offset + Align(q.size) <= freeOffset
  BY ItemsAre, <1>1
<1>3. freeOffset \in Nat /\ DataSize \in Nat /\ freeOffset <= DataSize
  BY ItemsAre
<1>4. Align(items[i].size) \in Nat /\ items[i].size \in Nat
  BY ItemsAre, <1>1
<1>5. m.items \in Seq(Item) /\ m.data \in Region /\ m.offset \in Nat /\ m \in Moved
  BY DEF Turned, Moved
<1>6. m.offset + Align(items[i].size) <= q.offset
  BY <1>1 DEF Turned, Behind
<1>7. m.offset <= q.offset /\ m.offset \in 0 .. DataSize
  <2>1. /\ m.offset \in Nat /\ q.offset \in Nat /\ Align(q.size) \in Nat
        /\ Align(items[i].size) \in Nat /\ freeOffset \in Nat /\ DataSize \in Nat
        /\ q.offset + Align(q.size) <= freeOffset /\ freeOffset <= DataSize
        /\ m.offset + Align(items[i].size) <= q.offset
    BY <1>2, <1>3, <1>4, <1>5, <1>6
  <2> HIDE DEF q
  <2> QED BY <2>1
<1>8. e \in Item
  BY <1>2, <1>7 DEF Item
<1>9. /\ n.items = Append(m.items, e)
      /\ n.data = Copied(m.data, m.offset, q.offset, Align(q.size))
      /\ n.offset = m.offset + Align(q.size)
      /\ n = [items |-> n.items, data |-> n.data, offset |-> n.offset]
  BY <1>2, <1>5, MoveDownDoes
<1>10. /\ n.data \in Region
       /\ \A t \in 0 .. Align(q.size) - 1 : n.data[m.offset + t] = m.data[q.offset + t]
       /\ \A b \in 0 .. DataSize - 1 :
             b < m.offset \/ m.offset + Align(q.size) <= b => n.data[b] = m.data[b]
  <2>1. q.offset + Align(q.size) <= DataSize
    BY <1>2, <1>3
  <2>2. q.offset \in Nat /\ Align(q.size) \in Nat
    BY <1>2
  <2>3. n.data = Copied(m.data, m.offset, q.offset, Align(q.size))
    BY <1>9
  <2> HIDE DEF n, q
  <2>4. m.data \in Region /\ m.offset \in Nat /\ m.offset <= q.offset
    BY <1>5, <1>7
  <2>5. IsCopy(n.data, m.data, m.offset, q.offset, Align(q.size))
    BY <2>1, <2>2, <2>3, <2>4, CopiedBytes, Zenon
  <2> QED BY <2>5, Zenon DEF IsCopy
<1> HIDE DEF n, q, e
<1>11. n.items \in Seq(Item) /\ n.offset \in Nat /\ n \in Moved
  <2>1. n.items \in Seq(Item)
    BY <1>5, <1>8, <1>9
  <2>2. n.offset \in Nat
    BY <1>2, <1>5, <1>9
  <2> QED BY <2>1, <2>2, <1>9, <1>10 DEF Moved
<1>12. /\ Len(m.items) = i - 1 + k /\ i - 1 + k \in Nat
       /\ Len(n.items) = i - 1 + (k + 1)
       /\ n.items[i + k] = e
       /\ \A x \in 1 .. i - 1 + k : n.items[x] = m.items[x]
  <2>1. Len(m.items) = i - 1 + k /\ i - 1 + k \in Nat
    BY <1>1 DEF Turned
  <2> QED BY <2>1, <1>1, <1>5, <1>8, <1>9
<1>13. \A x \in 1 .. i - 1 + (k + 1) : x = i + k \/ x \in 1 .. i - 1 + k
  BY <1>1
<1>14. Was(i, i + k) = i + (k + 1)
  BY <1>1 DEF Was
<1>15. e.id = q.id /\ e.size = q.size /\ e.offset = m.offset
  BY DEF e
<1>16. \A x \in 1 .. i - 1 + (k + 1) :
          n.items[x].id = items[Was(i, x)].id /\ n.items[x].size = items[Was(i, x)].size
  <2>1. \A x \in 1 .. i - 1 + k :
          m.items[x].id = items[Was(i, x)].id /\ m.items[x].size = items[Was(i, x)].size
    BY DEF Turned
  <2> QED BY <2>1, <1>12, <1>13, <1>14, <1>15 DEF q
<1>17. InOrder(n.items, n.offset)
  <2>1. Len(m.items) + 1 = i + k
    BY <1>12, <1>1
  <2>2. EndsBefore(n.items, Len(m.items) + 1, n.offset)
    <3>1. n.items[i + k].offset + Align(n.items[i + k].size) <= n.offset
      BY <1>2, <1>5, <1>9, <1>12, <1>15
    <3> QED BY <2>1, <3>1 DEF EndsBefore
  <2>3. InOrder(m.items, m.offset)
    BY DEF Turned
  <2>4. m.offset <= n.offset
    BY <1>2, <1>5, <1>9
  <2> QED BY <2>2, <2>3, <2>4, <1>5, <1>8, <1>9, <1>11, <1>15, TurnKeepsOrder
<1>18. n.offset + Align(items[i].size) <= Behind(i, k + 1)
  <2>1. m.offset + Align(items[i].size) + Align(q.size) <= q.offset + Align(q.size)
    BY <1>2, <1>4, <1>5, <1>6
  <2>2. q.offset + Align(q.size) <= Behind(i, k + 1)
    <3>1. CASE i + (k + 1) < Len(items)
      <4>1. i + (k + 1) + 1 \in 1 .. Len(items) /\ i + (k + 1) < i + (k + 1) + 1
        BY <1>1, <3>1
      <4>2. q.offset + Align(q.size) <= items[i + (k + 1) + 1].offset
        BY <4>1, <1>1, ItemsAre DEF q
      <4> QED BY <3>1, <4>2 DEF Behind
    <3>2. CASE ~(i + (k + 1) < Len(items))
      BY <3>2, <1>2 DEF Behind
    <3> QED BY <3>1, <3>2
  <2>3. Behind(i, k + 1) \in Nat
    <3>1. CASE i + (k + 1) < Len(items)
      <4>1. i + (k + 1) + 1 \in 1 .. Len(items)
        BY <1>1, <3>1
      <4>2. items[i + (k + 1) + 1].offset \in Nat
        BY <4>1, ItemsAre
      <4> QED BY <3>1, <4>2 DEF Behind
    <3>2. CASE ~(i + (k + 1) < Len(items))
      BY <3>2, <1>3 DEF Behind
    <3> QED BY <3>1, <3>2
  <2>4. /\ m.offset \in Nat /\ q.offset \in Nat /\ Align(q.size) \in Nat
        /\ Align(items[i].size) \in Nat /\ n.offset = m.offset + Align(q.size)
    BY <1>2, <1>4, <1>5, <1>9
  <2>5. n.offset + Align(items[i].size) <= q.offset + Align(q.size)
    BY <2>1, <2>4
  <2> QED BY <2>2, <2>3, <2>4, <2>5
<1>19. ASSUME NEW b \in 0 .. DataSize - 1, n.offset <= b PROVE n.data[b] = data[b]
  <2>1. m.offset <= b /\ m.offset + Align(q.size) <= b
    BY <1>19, <1>2, <1>3, <1>5, <1>9
  <2>2. m.data[b] = data[b]
    BY <2>1 DEF Turned
  <2> QED BY <2>1, <2>2, <1>10
<1>20. ASSUME NEW x \in 1 .. i - 1 + (k + 1), NEW t \in 0 .. n.items[x].size - 1
       PROVE  n.data[n.items[x].offset + t] = data[items[Was(i, x)].offset + t]
  <2>1. CASE x = i + k
    <3>1. n.items[x] = e /\ items[Was(i, x)] = q
      BY <2>1, <1>12, <1>14 DEF q
    <3>2. t \in 0 .. Align(q.size) - 1
      BY <3>1, <1>2, <1>15
    <3>3. n.data[m.offset + t] = m.data[q.offset + t]
      BY <3>2, <1>10
    <3>4. q.offset + t \in 0 .. DataSize - 1 /\ m.offset <= q.offset + t
      <4>1. t \in 0 .. q.size - 1
        BY <3>1, <1>15
      <4>2. q.offset + t \in Nat /\ q.offset <= q.offset + t /\ q.offset + t \in 0 .. DataSize - 1
        BY <4>1, <1>2, <1>3, InRoom, Zenon
      <4>3. q.offset \in Nat /\ m.offset \in Nat /\ m.offset <= q.offset
        BY <1>2, <1>5, <1>7
      <4> QED BY <4>2, <4>3
    <3>5. m.data[q.offset + t] = data[q.offset + t]
      BY <3>4 DEF Turned
    <3> QED BY <3>1, <3>3, <3>5, <1>15
  <2>2. CASE x \in 1 .. i - 1 + k
    <3>1. n.items[x] = m.items[x]
      BY <2>2, <1>12
    <3>2. m.data[m.items[x].offset + t] = data[items[Was(i, x)].offset + t]
      BY <2>2, <3>1 DEF Turned
    <3>3. m.items[x] \in Item /\ m.items[x].size \in Nat /\ m.items[x].offset \in Nat
      <4>1. m.items[x] \in Item
        BY <2>2, <1>5, <1>12
      <4>2. \A s \in Sizes : s \in Nat
        BY ItemsAssumption
      <4> QED BY <4>1, <4>2 DEF Item
    <3>4. Align(m.items[x].size) \in Nat /\ m.items[x].size <= Align(m.items[x].size)
      BY <3>3, AlignFacts
    <3>5. m.items[x].offset + Align(m.items[x].size) <= m.offset
      BY <2>2, <1>12 DEF Turned, InOrder, EndsBefore
    <3>6. m.items[x].offset + t < m.offset /\ m.items[x].offset + t \in 0 .. DataSize - 1
      <4>1. t \in 0 .. m.items[x].size - 1
        BY <3>1
      <4>2. m.offset \in Nat /\ m.offset <= DataSize
        BY <1>3, <1>7
      <4>3. PICK from \in Nat, size \in Nat, n0 \in Nat, end \in Nat :
              /\ from = m.items[x].offset /\ size = m.items[x].size
              /\ n0 = Align(m.items[x].size) /\ end = m.offset
        BY <3>3, <3>4, <4>2
      <4>4. from + n0 <= end /\ end <= DataSize /\ size <= n0 /\ t \in 0 .. size - 1
        BY <3>4, <3>5, <4>1, <4>2, <4>3, Zenon
      <4>5. from + t < end /\ from + t \in 0 .. DataSize - 1
        BY <4>4, InRoom
      <4> QED BY <4>3, <4>5, Zenon
    <3>7. n.data[m.items[x].offset + t] = m.data[m.items[x].offset + t]
      BY <3>6, <1>10
    <3> QED BY <3>1, <3>2, <3>7
  <2> QED BY <1>13, <2>1, <2>2
<1>21. Turned(n, i, k + 1)
  BY <1>11, <1>12, <1>16, <1>17, <1>18, <1>19, <1>20 DEF Turned
<1> QED BY <1>21 DEF n, q

\* What the whole loop makes.
LEMMA LoopMoves ==
  ASSUME Sound, NEW i \in 1 .. Len(items)
  PROVE  Turned(Turns(i)[Len(items) - i], i, Len(items) - i)
<1> DEFINE n == Len(items) - i
<1>1. n \in Nat /\ i \in Nat /\ Len(items) \in Nat
  BY ItemsAre
<1> DEFINE T == {k \in Nat : Turned(Turns(i)[k], i, k)}
<1>2. /\ Turns(i)[0] = Start(i)
      /\ \A k \in 1 .. n : Turns(i)[k] = MoveDown(Turns(i)[k - 1], items[i + k])
  BY <1>1, TurnsAre
<1>3. 0 \in T
  BY <1>2, FirstTurn
<1>4. ASSUME NEW k \in Nat, k < n /\ k \in T PROVE k + 1 \in T
  <2>1. i + k < Len(items) /\ k + 1 \in 1 .. n /\ k + 1 - 1 = k
    BY <1>1, <1>4
  <2>2. Turned(Turns(i)[k], i, k)
    BY <1>4
  <2>3. Turns(i)[k + 1] = MoveDown(Turns(i)[k], items[i + (k + 1)])
    BY <1>2, <2>1
  <2>4. Turned(Turns(i)[k + 1], i, k + 1)
    BY <2>1, <2>2, <2>3, NextTurn
  <2> QED BY <2>4
<1>5. n \in T
  <2> HIDE DEF T
  <2>1. n \in Nat
    BY <1>1
  <2> HIDE DEF n
  <2>2. \A k \in 0 .. n : k \in T
    BY <2>1, <1>3, <1>4, TurnByTurn
  <2> QED BY <2>1, <2>2
<1> QED BY <1>5

-----------------------------------------------------------------------------
(* What a write that is taken does *)

\* Item y of the table q2 is item x of the table q, with the same bytes.
SameItem(q, d, x, q2, d2, y) ==
  /\ q2[y].id = q[x].id /\ q2[y].size = q[x].size
  /\ \A t \in 0 .. q[x].size - 1 : d2[q2[y].offset + t] = d[q[x].offset + t]

\* The table q2 has the items of the table q but the one of id.
KeepsOthers(q, d, q2, d2, id) ==
  /\ \A x \in 1 .. Len(q) :
        q[x].id # id => \E y \in 1 .. Len(q2) : SameItem(q, d, x, q2, d2, y)
  /\ \A y \in 1 .. Len(q2) :
        q2[y].id # id => \E x \in 1 .. Len(q) : SameItem(q, d, x, q2, d2, y)

\* The table q has an item of id with these bytes.
Holds(q, d, id, bytes) ==
  \E x \in 1 .. Len(q) :
    /\ q[x].id = id /\ q[x].size = Len(bytes)
    /\ \A t \in 0 .. Len(bytes) - 1 : d[q[x].offset + t] = bytes[t + 1]

\* The table, the region and the free space fit together.
Fit(q, d, end, free) ==
  /\ q \in Seq(Item) /\ Len(q) <= MaxItems /\ d \in Region
  /\ end \in 0 .. DataSize /\ free \in 0 .. DataSize
  /\ InOrder(q, end) /\ OneEach(q)
  /\ end + free <= DataSize /\ (driver = "mtd" => end + free = DataSize)

\* The bytes of id are now those written and nothing else has changed.
Wrote(id, bytes) ==
  /\ Fit(items', data', freeOffset', freeSize')
  /\ Holds(items', data', id, bytes)
  /\ KeepsOthers(items, data, items', data', id)

LEMMA FitNow == ASSUME Sound PROVE Fit(items, data, freeOffset, freeSize)
BY DEF Sound, TypeOK, Fit, Item, Region, Byte, FreeSpaceIsThere

\* Two rooms of the table do not meet.
LEMMA OtherRoom ==
  ASSUME NEW q \in Seq(Item), NEW end, InOrder(q, end),
         NEW x \in 1 .. Len(q), NEW y \in 1 .. Len(q), x # y
  PROVE  q[x].offset + Align(q[x].size) <= q[y].offset \/ q[y].offset + Align(q[y].size) <= q[x].offset
<1>1. Len(q) \in Nat
  OBVIOUS
<1>2. x < y \/ y < x
  BY <1>1
<1> QED BY <1>2 DEF InOrder, EndsBefore

\* An item that grew or shrank within its room.
LEMMA InPlaceWrites ==
  ASSUME Sound, NEW i \in 1 .. Len(items), NEW bytes \in Seq(Byte), Len(bytes) \in Sizes,
         Len(bytes) <= Align(items[i].size), WriteInPlace(i, bytes)
  PROVE  Wrote(items[i].id, bytes)
<1>1. /\ items \in Seq(Item) /\ data \in Region /\ Len(items) \in Nat
      /\ freeOffset \in 0 .. DataSize /\ freeSize \in 0 .. DataSize
  BY DEF Sound, TypeOK, Item, Region, Byte
<1>2. /\ items[i] \in Item /\ items[i].offset \in Nat /\ Align(items[i].size) \in Nat
      /\ items[i].offset + Align(items[i].size) <= freeOffset /\ freeOffset \in Nat
      /\ freeOffset <= DataSize /\ DataSize \in Nat
  BY ItemsAre
<1>3. /\ Len(bytes) \in Nat /\ Align(Len(bytes)) \in Nat /\ Len(bytes) <= Align(Len(bytes))
      /\ Align(Len(bytes)) <= Align(items[i].size)
  <2>1. Len(bytes) \in Nat /\ items[i].size \in Nat
    BY ItemsAre
  <2> QED BY <2>1, AlignFacts, AlignFits
<1> DEFINE e == [id |-> items[i].id, offset |-> items[i].offset, size |-> Len(bytes)]
           q == [items EXCEPT ![i] = e]
<1>4. items' = q /\ data' = Stored(data, items[i].offset, bytes) /\ UNCHANGED <<freeOffset, freeSize>>
  <2>1. [items[i] EXCEPT !.size = Len(bytes)] = e
    BY <1>2 DEF Item
  <2>2. items' = [items EXCEPT ![i] = [items[i] EXCEPT !.size = Len(bytes)]]
    BY DEF WriteInPlace
  <2> QED BY <2>1, <2>2 DEF WriteInPlace
<1>5. e \in Item /\ e.id = items[i].id /\ e.offset = items[i].offset /\ e.size = Len(bytes)
  BY <1>2 DEF Item
<1>6. /\ q \in Seq(Item) /\ Len(q) = Len(items) /\ q[i] = e
      /\ \A x \in 1 .. Len(items) : x # i => q[x] = items[x]
  <2> HIDE DEF e
  <2> QED BY <1>1, <1>5, ExceptSeq
<1>7. IsStore(data', data, items[i].offset, bytes)
  <2>1. items[i].offset + Len(bytes) <= DataSize
    BY <1>2, <1>3
  <2>2. IsStore(Stored(data, items[i].offset, bytes), data, items[i].offset, bytes)
    BY <2>1, <1>1, <1>2, StoredBytes, Zenon
  <2> QED BY <2>2, <1>4
<1> HIDE DEF q, e
<1>8. \A x \in 1 .. Len(items) :
         /\ q[x].id = items[x].id /\ q[x].offset = items[x].offset
         /\ Align(q[x].size) <= Align(items[x].size) /\ Align(q[x].size) \in Nat
  <2>1. TAKE x \in 1 .. Len(items)
  <2>2. CASE x = i
    BY <2>2, <1>3, <1>5, <1>6
  <2>3. CASE x # i
    <3>1. q[x] = items[x]
      BY <2>3, <1>6
    <3>2. Align(items[x].size) \in Nat
      BY ItemsAre
    <3> QED BY <3>1, <3>2
  <2> QED BY <2>2, <2>3
<1>9. InOrder(q, freeOffset)
  <2>1. ASSUME NEW x \in 1 .. Len(items), NEW b \in Nat, items[x].offset + Align(items[x].size) <= b
        PROVE  EndsBefore(q, x, b)
    <3>1. /\ q[x].offset = items[x].offset /\ items[x].offset \in Nat
          /\ Align(q[x].size) <= Align(items[x].size)
          /\ Align(q[x].size) \in Nat /\ Align(items[x].size) \in Nat
      BY <1>8, ItemsAre
    <3>2. q[x].offset + Align(q[x].size) <= b
      BY <2>1, <3>1
    <3> QED BY <3>2 DEF EndsBefore
  <2>2. \A x \in 1 .. Len(q) : EndsBefore(q, x, freeOffset)
    BY <2>1, <1>6, ItemsAre
  <2>3. ASSUME NEW x \in 1 .. Len(q), NEW y \in 1 .. Len(q), x < y
        PROVE  EndsBefore(q, x, q[y].offset)
    <3>1. items[x].offset + Align(items[x].size) <= items[y].offset /\ items[y].offset \in Nat
      BY <2>3, <1>6, ItemsAre
    <3>2. EndsBefore(q, x, items[y].offset)
      BY <3>1, <2>1, <1>6
    <3> QED BY <3>2, <1>6, <1>8
  <2> QED BY <2>2, <2>3 DEF InOrder
<1>10. OneEach(q)
  BY <1>6, <1>8 DEF OneEach, Sound
<1>11. Fit(items', data', freeOffset', freeSize')
  <2>1. data' \in Region
    BY <1>7 DEF IsStore
  <2>2. /\ freeOffset + freeSize <= DataSize
        /\ (driver = "mtd" => freeOffset + freeSize = DataSize)
    BY DEF Sound, FreeSpaceIsThere
  <2>3. Len(items) <= MaxItems
    BY DEF Sound, TypeOK
  <2> QED BY <2>1, <2>2, <2>3, <1>1, <1>4, <1>6, <1>9, <1>10 DEF Fit
<1>12. Holds(items', data', items[i].id, bytes)
  <2>1. ASSUME NEW t \in 0 .. Len(bytes) - 1
        PROVE  data'[items[i].offset + t] = bytes[t + 1]
    <3>1. t + 1 \in 1 .. Len(bytes) /\ items[i].offset + (t + 1) - 1 = items[i].offset + t
      BY <1>2, <1>3
    <3> QED BY <3>1, <1>7 DEF IsStore
  <2>2. i \in 1 .. Len(items')
    BY <1>4, <1>6
  <2>3. items'[i].id = items[i].id /\ items'[i].size = Len(bytes) /\ items'[i].offset = items[i].offset
    BY <1>4, <1>5, <1>6
  <2> QED BY <2>1, <2>2, <2>3 DEF Holds
<1>13. ASSUME NEW x \in 1 .. Len(items), x # i
       PROVE  SameItem(items, data, x, items', data', x)
  <2>1. items'[x] = items[x]
    BY <1>4, <1>6, <1>13
  <2>2. ASSUME NEW t \in 0 .. items[x].size - 1
        PROVE  data'[items[x].offset + t] = data[items[x].offset + t]
    <3>1. /\ items[x].offset \in Nat /\ items[x].size \in Nat /\ Align(items[x].size) \in Nat
          /\ items[x].size <= Align(items[x].size)
          /\ items[x].offset + Align(items[x].size) <= freeOffset
      BY ItemsAre
    <3>2. PICK from \in Nat, size \in Nat, n \in Nat :
            from = items[x].offset /\ size = items[x].size /\ n = Align(items[x].size)
      BY <3>1
    <3>3. from + n <= freeOffset /\ size <= n /\ t \in 0 .. size - 1
      BY <3>1, <3>2
    <3>4. from + t \in 0 .. DataSize - 1 /\ from + t < from + n /\ from <= from + t
      BY <3>3, <1>2, InRoom
    <3>5. \/ from + n <= items[i].offset
          \/ items[i].offset + Align(items[i].size) <= from
      BY <1>1, <1>13, <3>2, OtherRoom DEF Sound
    <3>6. from + t < items[i].offset \/ items[i].offset + Len(bytes) <= from + t
      <4>1. items[i].offset + Len(bytes) <= items[i].offset + Align(items[i].size)
        BY <1>2, <1>3
      <4> QED BY <4>1, <3>4, <3>5, <1>2, <1>3
    <3>7. data'[from + t] = data[from + t]
      BY <3>4, <3>6, <1>7 DEF IsStore
    <3> QED BY <3>2, <3>7
  <2> QED BY <2>1, <2>2 DEF SameItem
<1>14. KeepsOthers(items, data, items', data', items[i].id)
  <2>1. Len(items') = Len(items)
    BY <1>4, <1>6
  <2>2. items'[i].id = items[i].id
    BY <1>4, <1>5, <1>6
  <2> QED BY <2>1, <2>2, <1>13 DEF KeepsOthers
<1> QED BY <1>11, <1>12, <1>14 DEF Wrote

\* Seen from the end of a table: the last item and the others.
LEMMA AppendIs ==
  ASSUME NEW q \in Seq(Item), NEW e \in Item
  PROVE  /\ Append(q, e) \in Seq(Item) /\ Len(Append(q, e)) = Len(q) + 1 /\ Len(q) \in Nat
         /\ Append(q, e)[Len(q) + 1] = e
         /\ \A x \in 1 .. Len(q) : Append(q, e)[x] = q[x]
OBVIOUS

\* A table with an item appended where the others end.
LEMMA AppendFits ==
  ASSUME NEW q \in Seq(Item), NEW old \in Nat, InOrder(q, old), OneEach(q),
         NEW e \in Item, e.offset = old, \A x \in 1 .. Len(q) : q[x].id # e.id
  PROVE  /\ InOrder(Append(q, e), old + Align(e.size)) /\ OneEach(Append(q, e))
         /\ Align(e.size) \in Nat
<1> DEFINE q2 == Append(q, e)
<1>1. /\ q2 \in Seq(Item) /\ Len(q2) = Len(q) + 1 /\ Len(q) \in Nat
      /\ q2[Len(q) + 1] = e /\ \A x \in 1 .. Len(q) : q2[x] = q[x]
  BY AppendIs
<1>2. Align(e.size) \in Nat
  <2>1. e.size \in Nat
    <3>1. \A s \in Sizes : s \in Nat
      BY ItemsAssumption
    <3> QED BY <3>1 DEF Item
  <2> QED BY <2>1, AlignFacts
<1>3. old + Align(e.size) \in Nat /\ old <= old + Align(e.size)
  BY <1>2
<1>4. EndsBefore(q2, Len(q) + 1, old + Align(e.size))
  <2>1. q2[Len(q) + 1].offset = old /\ q2[Len(q) + 1].size = e.size
    BY <1>1
  <2> HIDE DEF q2
  <2> QED BY <2>1, <1>2 DEF EndsBefore
<1>5. InOrder(q2, old + Align(e.size))
  BY <1>1, <1>3, <1>4, TurnKeepsOrder
<1>6. OneEach(q2)
  <2> HIDE DEF q2
  <2> SUFFICES ASSUME NEW x \in 1 .. Len(q2), NEW y \in 1 .. Len(q2), q2[x].id = q2[y].id
               PROVE  x = y
    BY DEF OneEach
  <2>1. CASE x \in 1 .. Len(q) /\ y \in 1 .. Len(q)
    BY <2>1, <1>1 DEF OneEach
  <2>2. CASE x \in 1 .. Len(q) /\ y = Len(q) + 1
    BY <2>2, <1>1
  <2>3. CASE y \in 1 .. Len(q) /\ x = Len(q) + 1
    BY <2>3, <1>1
  <2>4. CASE x = Len(q) + 1 /\ y = Len(q) + 1
    BY <2>4
  <2> QED BY <1>1, <2>1, <2>2, <2>3, <2>4
<1> QED BY <1>2, <1>5, <1>6

\* The new contents of id appended to a table that has the other items.
LEMMA AppendWrites ==
  ASSUME Sound, NEW id \in Ids, NEW bytes \in Seq(Byte), Len(bytes) \in Sizes,
         NEW q \in Seq(Item), NEW d \in Region, NEW old \in Nat, NEW free \in Nat,
         Len(q) + 1 <= MaxItems, InOrder(q, old), OneEach(q), \A x \in 1 .. Len(q) : q[x].id # id,
         KeepsOthers(items, data, q, d, id),
         old + Align(Len(bytes)) + free <= DataSize,
         driver = "mtd" => old + Align(Len(bytes)) + free = DataSize,
         items' = Append(q, [id |-> id, offset |-> old, size |-> Len(bytes)]),
         data' = Stored(d, old, bytes),
         freeOffset' = old + Align(Len(bytes)), freeSize' = free
  PROVE  Wrote(id, bytes)
<1> DEFINE e == [id |-> id, offset |-> old, size |-> Len(bytes)]
<1>1. /\ Len(bytes) \in Nat /\ Align(Len(bytes)) \in Nat /\ Len(bytes) <= Align(Len(bytes))
      /\ DataSize \in Nat
  BY AlignFacts, ItemsAssumption
<1>2. old + Len(bytes) <= DataSize /\ old + Align(Len(bytes)) <= DataSize /\ old <= DataSize
  BY <1>1
<1>3. e \in Item /\ e.id = id /\ e.offset = old /\ e.size = Len(bytes)
  BY <1>2 DEF Item
<1>4. items' = Append(q, e)
  OBVIOUS
<1> HIDE DEF e
<1>5. /\ items' \in Seq(Item) /\ Len(items') = Len(q) + 1 /\ Len(q) \in Nat
      /\ items'[Len(q) + 1] = e /\ \A x \in 1 .. Len(q) : items'[x] = q[x]
  BY <1>3, <1>4, AppendIs
<1>6. InOrder(items', freeOffset') /\ OneEach(items')
  <2>1. /\ InOrder(Append(q, e), old + Align(e.size)) /\ OneEach(Append(q, e))
    BY <1>3, AppendFits
  <2> QED BY <2>1, <1>3, <1>4
<1>7. IsStore(data', d, old, bytes)
  <2>1. IsStore(Stored(d, old, bytes), d, old, bytes)
    BY <1>2, StoredBytes, Zenon
  <2> QED BY <2>1
<1>8. Fit(items', data', freeOffset', freeSize')
  <2>1. data' \in Region
    BY <1>7 DEF IsStore
  <2>2. freeOffset' \in 0 .. DataSize /\ freeSize' \in 0 .. DataSize
    BY <1>1
  <2> QED BY <2>1, <2>2, <1>5, <1>6 DEF Fit
<1>9. Holds(items', data', id, bytes)
  <2>1. ASSUME NEW t \in 0 .. Len(bytes) - 1
        PROVE  data'[old + t] = bytes[t + 1]
    <3>1. t + 1 \in 1 .. Len(bytes) /\ old + (t + 1) - 1 = old + t
      BY <1>1
    <3>2. data'[old + (t + 1) - 1] = bytes[t + 1]
      BY <3>1, <1>7 DEF IsStore
    <3> QED BY <3>1, <3>2
  <2>2. Len(q) + 1 \in 1 .. Len(items')
    BY <1>5
  <2>3. items'[Len(q) + 1].id = id /\ items'[Len(q) + 1].size = Len(bytes) /\ items'[Len(q) + 1].offset = old
    BY <1>3, <1>5
  <2> QED BY <2>1, <2>2, <2>3 DEF Holds
<1>10. ASSUME NEW x \in 1 .. Len(items), NEW y \in 1 .. Len(q), SameItem(items, data, x, q, d, y)
       PROVE  SameItem(items, data, x, items', data', y) /\ y \in 1 .. Len(items')
  <2>1. items'[y] = q[y] /\ y \in 1 .. Len(items')
    BY <1>5
  <2>2. q[y].id = items[x].id /\ q[y].size = items[x].size
    BY <1>10 DEF SameItem
  <2>3. ASSUME NEW t \in 0 .. items[x].size - 1
        PROVE  data'[q[y].offset + t] = data[items[x].offset + t]
    <3>1. q[y].offset \in Nat /\ q[y].size \in Nat
      <4>1. q[y] \in Item
        OBVIOUS
      <4>2. \A s \in Sizes : s \in Nat
        BY ItemsAssumption
      <4> QED BY <4>1, <4>2 DEF Item
    <3>2. Align(q[y].size) \in Nat /\ q[y].size <= Align(q[y].size)
      BY <3>1, AlignFacts
    <3>3. q[y].offset + Align(q[y].size) <= old
      BY DEF InOrder, EndsBefore
    <3>4. PICK from \in Nat, size \in Nat, n \in Nat :
            from = q[y].offset /\ size = q[y].size /\ n = Align(q[y].size)
      BY <3>1, <3>2
    <3>5. from + n <= old /\ size <= n /\ t \in 0 .. size - 1
      BY <2>2, <3>2, <3>3, <3>4
    <3>6. from + t \in 0 .. DataSize - 1 /\ from + t < old
      BY <3>5, <1>2, InRoom
    <3>7. data'[from + t] = d[from + t]
      BY <3>6, <1>7 DEF IsStore
    <3>8. d[q[y].offset + t] = data[items[x].offset + t]
      BY <1>10 DEF SameItem
    <3> QED BY <3>4, <3>7, <3>8
  <2> QED BY <2>1, <2>2, <2>3 DEF SameItem
<1>11. KeepsOthers(items, data, items', data', id)
  <2>1. ASSUME NEW x \in 1 .. Len(items), items[x].id # id
        PROVE  \E y \in 1 .. Len(items') : SameItem(items, data, x, items', data', y)
    <3>1. PICK y \in 1 .. Len(q) : SameItem(items, data, x, q, d, y)
      BY <2>1 DEF KeepsOthers
    <3> QED BY <3>1, <1>10
  <2>2. ASSUME NEW y \in 1 .. Len(items'), items'[y].id # id
        PROVE  \E x \in 1 .. Len(items) : SameItem(items, data, x, items', data', y)
    <3>1. y \in 1 .. Len(q)
      BY <2>2, <1>3, <1>5
    <3>2. q[y].id # id
      BY <2>2, <3>1, <1>5
    <3>3. PICK x \in 1 .. Len(items) : SameItem(items, data, x, q, d, y)
      BY <3>1, <3>2 DEF KeepsOthers
    <3> QED BY <3>1, <3>3, <1>10
  <2> QED BY <2>1, <2>2 DEF KeepsOthers
<1> QED BY <1>8, <1>9, <1>11 DEF Wrote

\* A new item behind the others.
LEMMA NewWrites ==
  ASSUME Sound, NEW id \in Ids, NEW bytes \in Seq(Byte), Len(bytes) \in Sizes,
         \A x \in 1 .. Len(items) : items[x].id # id,
         Fits(bytes), WriteNew(id, bytes), ~TableIsFull
  PROVE  Wrote(id, bytes)
<1>1. /\ items \in Seq(Item) /\ data \in Region /\ InOrder(items, freeOffset) /\ OneEach(items)
      /\ driver = "mtd" => freeOffset + freeSize = DataSize
  BY DEF Sound, TypeOK, Item, Region, Byte, FreeSpaceIsThere
<1>2. /\ freeOffset \in Nat /\ freeSize \in Nat /\ DataSize \in Nat
      /\ freeOffset + freeSize <= DataSize
  BY ItemsAre
<1>3. Align(Len(bytes)) \in Nat /\ freeSize >= Align(Len(bytes))
  BY AlignFacts DEF Fits
<1> DEFINE free == freeSize - Align(Len(bytes))
<1>4. /\ items' = Append(items, [id |-> id, offset |-> freeOffset, size |-> Len(bytes)])
      /\ data' = Stored(data, freeOffset, bytes)
      /\ freeOffset' = freeOffset + Align(Len(bytes)) /\ freeSize' = free
  BY DEF WriteNew, Entered
<1>5. /\ free \in Nat /\ freeOffset + Align(Len(bytes)) + free <= DataSize
      /\ driver = "mtd" => freeOffset + Align(Len(bytes)) + free = DataSize
  <2>1. PICK room \in Nat : room = Align(Len(bytes))
    BY <1>3
  <2>2. freeSize >= room /\ free = freeSize - room
    BY <1>3, <2>1
  <2> HIDE DEF free
  <2>3. free \in Nat /\ freeOffset + room + free = freeOffset + freeSize
    BY <1>2, <2>1, <2>2
  <2> QED BY <1>1, <1>2, <2>1, <2>3
<1> HIDE DEF free
<1>6. KeepsOthers(items, data, items, data, id)
  BY DEF KeepsOthers, SameItem
<1>7. Len(items) + 1 <= MaxItems
  <2>1. Len(items) \in Nat /\ MaxItems \in Nat
    BY ItemsAre, ItemsAssumption
  <2> QED BY <2>1 DEF TableIsFull
<1> QED BY <1>1, <1>2, <1>4, <1>5, <1>6, <1>7, AppendWrites

\* An item that grew out of its room.
LEMMA GrownWrites ==
  ASSUME Sound, NEW i \in 1 .. Len(items), NEW bytes \in Seq(Byte), Len(bytes) \in Sizes,
         Align(items[i].size) < Len(bytes), Fits(bytes), WriteGrown(i, bytes)
  PROVE  Wrote(items[i].id, bytes)
<1> DEFINE n == Len(items) - i
           m == Turns(i)[n]
           end == m.offset + Align(Len(bytes))
           free == FreeAfterGrow(end, i, bytes)
<1>1. Turned(m, i, n)
  BY LoopMoves
<1>2. /\ Len(items) \in Nat /\ i \in Nat /\ i >= 1 /\ i + n = Len(items) /\ i - 1 + n = Len(items) - 1
      /\ freeOffset \in Nat /\ freeSize \in Nat /\ DataSize \in Nat /\ freeOffset + freeSize <= DataSize
      /\ items[i].id \in Ids /\ Align(items[i].size) \in Nat
  BY ItemsAre
<1>3. /\ items' = Append(m.items, [id |-> items[i].id, offset |-> m.offset, size |-> Len(bytes)])
      /\ data' = Stored(m.data, m.offset, bytes)
      /\ freeOffset' = end /\ freeSize' = free
  BY DEF WriteGrown
<1>4. m.offset + Align(items[i].size) <= freeOffset
  <2>1. Behind(i, n) = freeOffset
    BY <1>2 DEF Behind
  <2> HIDE DEF m, n
  <2> QED BY <1>1, <2>1 DEF Turned
<1> HIDE DEF m, n
<1>5. m.items \in Seq(Item) /\ m.data \in Region /\ m.offset \in Nat
  BY <1>1 DEF Turned, Moved
<1>6. Align(Len(bytes)) \in Nat /\ freeSize >= Align(Len(bytes))
  BY AlignFacts DEF Fits
<1>7. /\ free \in Nat /\ end + free <= DataSize
      /\ driver = "mtd" => end + free = DataSize
  <2>1. CASE driver = "mtd"
    <3>1. free = DataSize - end
      BY <2>1 DEF FreeAfterGrow
    <3>2. end \in Nat /\ end <= DataSize
      BY <1>2, <1>4, <1>5, <1>6
    <3> HIDE DEF free, end
    <3> QED BY <3>1, <3>2, <1>2
  <2>2. CASE driver # "mtd"
    <3>1. free = freeSize - (Align(Len(bytes)) - Align(items[i].size))
      BY <2>2 DEF FreeAfterGrow
    <3>2. /\ m.offset \in Nat /\ Align(Len(bytes)) \in Nat /\ Align(items[i].size) \in Nat
          /\ freeOffset \in Nat /\ freeSize \in Nat /\ DataSize \in Nat
          /\ m.offset + Align(items[i].size) <= freeOffset
          /\ freeSize >= Align(Len(bytes)) /\ freeOffset + freeSize <= DataSize
      BY <1>2, <1>4, <1>5, <1>6
    <3> HIDE DEF free
    <3>3. free \in Nat
      BY <3>1, <3>2
    <3>4. end + free = m.offset + Align(items[i].size) + freeSize
      BY <3>1, <3>2
    <3>5. end + free <= DataSize
      BY <3>2, <3>4
    <3> QED BY <2>2, <3>3, <3>5
  <2> QED BY <2>1, <2>2
<1> HIDE DEF free
<1>8. /\ Len(m.items) = Len(items) - 1
      /\ \A x \in 1 .. Len(m.items) :
            /\ Was(i, x) \in 1 .. Len(items) /\ Was(i, x) # i
            /\ m.items[x].id = items[Was(i, x)].id /\ m.items[x].size = items[Was(i, x)].size
            /\ \A t \in 0 .. m.items[x].size - 1 :
                  m.data[m.items[x].offset + t] = data[items[Was(i, x)].offset + t]
  <2>1. Len(m.items) = i - 1 + n
    BY <1>1 DEF Turned
  <2>2. ASSUME NEW x \in 1 .. Len(m.items)
        PROVE  Was(i, x) \in 1 .. Len(items) /\ Was(i, x) # i
    BY <2>1, <1>2 DEF Was
  <2>3. ASSUME NEW x \in 1 .. Len(m.items)
        PROVE  /\ m.items[x].id = items[Was(i, x)].id /\ m.items[x].size = items[Was(i, x)].size
               /\ \A t \in 0 .. m.items[x].size - 1 :
                     m.data[m.items[x].offset + t] = data[items[Was(i, x)].offset + t]
    BY <2>1, <1>1 DEF Turned
  <2> QED BY <2>1, <2>2, <2>3, <1>2
<1>9. \A x, y \in 1 .. Len(items) : items[x].id = items[y].id => x = y
  BY DEF Sound, OneEach
<1>10. \A x \in 1 .. Len(m.items) : m.items[x].id # items[i].id
  BY <1>8, <1>9
<1>11. OneEach(m.items)
  <2> SUFFICES ASSUME NEW x \in 1 .. Len(m.items), NEW y \in 1 .. Len(m.items),
                      m.items[x].id = m.items[y].id
               PROVE  x = y
    BY DEF OneEach
  <2>1. Was(i, x) = Was(i, y)
    <3>1. /\ Was(i, x) \in 1 .. Len(items) /\ m.items[x].id = items[Was(i, x)].id
          /\ Was(i, y) \in 1 .. Len(items) /\ m.items[y].id = items[Was(i, y)].id
      BY <1>8
    <3>2. items[Was(i, x)].id = items[Was(i, y)].id
      BY <3>1
    <3> QED BY <3>1, <3>2, <1>9
  <2> QED BY <2>1, <1>2, <1>8 DEF Was
<1>12. KeepsOthers(items, data, m.items, m.data, items[i].id)
  <2>1. ASSUME NEW y \in 1 .. Len(m.items)
        PROVE  SameItem(items, data, Was(i, y), m.items, m.data, y)
    BY <1>8 DEF SameItem
  <2>2. ASSUME NEW x \in 1 .. Len(items), x # i
        PROVE  \E y \in 1 .. Len(m.items) : Was(i, y) = x
    <3>1. CASE x < i
      <4>1. x \in 1 .. Len(m.items) /\ Was(i, x) = x
        BY <3>1, <1>2, <1>8 DEF Was
      <4> QED BY <4>1
    <3>2. CASE x > i
      <4>1. x - 1 \in 1 .. Len(m.items) /\ Was(i, x - 1) = x
        BY <3>2, <1>2, <1>8 DEF Was
      <4> QED BY <4>1
    <3> QED BY <2>2, <3>1, <3>2, <1>2
  <2>3. ASSUME NEW x \in 1 .. Len(items), items[x].id # items[i].id
        PROVE  \E y \in 1 .. Len(m.items) : SameItem(items, data, x, m.items, m.data, y)
    <3>1. x # i
      BY <2>3
    <3>2. PICK y \in 1 .. Len(m.items) : Was(i, y) = x
      BY <3>1, <2>2
    <3> QED BY <3>2, <2>1
  <2>4. ASSUME NEW y \in 1 .. Len(m.items)
        PROVE  \E x \in 1 .. Len(items) : SameItem(items, data, x, m.items, m.data, y)
    BY <2>1, <1>8
  <2> QED BY <2>3, <2>4 DEF KeepsOthers
<1>13. InOrder(m.items, m.offset)
  BY <1>1 DEF Turned
<1>14. PICK q \in Seq(Item), d \in Region, old \in Nat, left \in Nat, id \in Ids :
         q = m.items /\ d = m.data /\ old = m.offset /\ left = free /\ id = items[i].id
  BY <1>2, <1>5, <1>7, Zenon
<1>15. /\ InOrder(q, old) /\ OneEach(q) /\ \A x \in 1 .. Len(q) : q[x].id # id
       /\ KeepsOthers(items, data, q, d, id)
  BY <1>10, <1>11, <1>12, <1>13, <1>14
<1>16. /\ items' = Append(q, [id |-> id, offset |-> old, size |-> Len(bytes)])
       /\ data' = Stored(d, old, bytes)
       /\ freeOffset' = old + Align(Len(bytes)) /\ freeSize' = left
       /\ old + Align(Len(bytes)) + left <= DataSize
       /\ driver = "mtd" => old + Align(Len(bytes)) + left = DataSize
  BY <1>3, <1>7, <1>14, Zenon
<1>17. Len(q) + 1 <= MaxItems
  <2>1. Len(items) <= MaxItems
    BY DEF Sound, TypeOK
  <2>2. Len(q) + 1 = Len(items)
    BY <1>2, <1>8, <1>14
  <2> QED BY <2>1, <2>2
<1>18. Wrote(id, bytes)
  BY <1>15, <1>16, <1>17, AppendWrites
<1> QED BY <1>14, <1>18

-----------------------------------------------------------------------------
(* The steps *)

\* What a read returns, by the position of the item.
ReadsAre ==
  \A id \in Ids :
    /\ \A x \in 1 .. Len(items) :
          items[x].id = id =>
            Read(id) = [k \in 1 .. items[x].size |-> data[items[x].offset + k - 1]]
    /\ (\A x \in 1 .. Len(items) : items[x].id # id) => Read(id) = Missing

LEMMA ReadFacts == Sound => ReadsAre
<1> SUFFICES ASSUME Sound, NEW id \in Ids
             PROVE  /\ \A x \in 1 .. Len(items) :
                          items[x].id = id =>
                            Read(id) = [k \in 1 .. items[x].size |-> data[items[x].offset + k - 1]]
                    /\ (\A x \in 1 .. Len(items) : items[x].id # id) => Read(id) = Missing
  BY DEF ReadsAre
<1>1. ASSUME NEW x \in 1 .. Len(items), items[x].id = id
      PROVE  Read(id) = [k \in 1 .. items[x].size |-> data[items[x].offset + k - 1]]
  <2>1. \A y \in 1 .. Len(items) : items[y].id = id => y = x
    BY <1>1 DEF Sound, OneEach
  <2>2. Indexes(id) = {x}
    BY <1>1, <2>1 DEF Indexes
  <2>3. IndexOf(id) = x
    <3>1. x <= x
      BY ItemsAre
    <3> QED BY <2>2, <3>1 DEF IndexOf
  <2> QED BY <2>2, <2>3 DEF Read
<1>2. ASSUME \A x \in 1 .. Len(items) : items[x].id # id
      PROVE  Read(id) = Missing
  BY <1>2 DEF Indexes, Read
<1> QED BY <1>1, <1>2

\* An item that is there has one index.
LEMMA IndexIs ==
  ASSUME Sound, NEW id \in Ids, Indexes(id) # {}
  PROVE  IndexOf(id) \in 1 .. Len(items) /\ items[IndexOf(id)].id = id
<1>1. PICK x \in 1 .. Len(items) : items[x].id = id
  BY DEF Indexes
<1>2. \A y \in 1 .. Len(items) : items[y].id = id => y = x
  BY <1>1 DEF Sound, OneEach
<1>3. Indexes(id) = {x}
  BY <1>1, <1>2 DEF Indexes
<1>4. IndexOf(id) = x
  <2>1. x <= x
    BY ItemsAre
  <2> QED BY <1>3, <2>1 DEF IndexOf
<1> QED BY <1>1, <1>4

\* A write that returns 0, in any of its three ways.
LEMMA TakenWrites ==
  ASSUME Sound, NEW id \in Ids, NEW bytes \in Seq(Byte), Len(bytes) \in Sizes,
         Overwrite(id, bytes) \/ Add(id, bytes), ~overrun'
  PROVE  Wrote(id, bytes)
<1>1. CASE Overwrite(id, bytes)
  <2> DEFINE i == IndexOf(id)
  <2>1. i \in 1 .. Len(items) /\ items[i].id = id
    BY <1>1, IndexIs DEF Overwrite
  <2>2. \/ Len(bytes) <= Align(items[i].size) /\ WriteInPlace(i, bytes)
        \/ Len(bytes) > Align(items[i].size) /\ Fits(bytes) /\ WriteGrown(i, bytes)
    BY <1>1 DEF Overwrite
  <2> HIDE DEF i
  <2>3. CASE Len(bytes) <= Align(items[i].size) /\ WriteInPlace(i, bytes)
    BY <2>1, <2>3, InPlaceWrites
  <2>4. CASE Len(bytes) > Align(items[i].size) /\ Fits(bytes) /\ WriteGrown(i, bytes)
    <3>1. Align(items[i].size) < Len(bytes)
      <4>1. Len(bytes) \in Nat /\ Align(items[i].size) \in Nat
        BY <2>1, ItemsAre
      <4> QED BY <2>4, <4>1
    <3> QED BY <2>1, <2>4, <3>1, GrownWrites
  <2> QED BY <2>2, <2>3, <2>4
<1>2. CASE Add(id, bytes)
  <2>1. \A x \in 1 .. Len(items) : items[x].id # id
    BY <1>2 DEF Add, Indexes
  <2>2. WriteNew(id, bytes) /\ Fits(bytes) /\ ~TableIsFull
    BY <1>2 DEF Add
  <2> QED BY <2>1, <2>2, NewWrites
<1> QED BY <1>1, <1>2

\* What a step is: an entry behind item[], a write that is taken, or one that
\* is refused.
LEMMA StepIs ==
  ASSUME IInv, Next
  PROVE  \E id \in Ids, bytes \in Contents, taken \in BOOLEAN :
           /\ bytes \in Seq(Byte) /\ Len(bytes) \in Sizes
           /\ Sound /\ UNCHANGED driver /\ Answer(id, bytes, taken) /\ overrun' \in BOOLEAN
           /\ ~overrun' =>
                \/ taken = TRUE /\ Wrote(id, bytes)
                \/ taken = FALSE /\ UNCHANGED <<items, data, freeOffset, freeSize>>
<1>1. PICK id \in Ids, size \in Sizes, v \in Values :
        \/ Overwrite(id, Bytes(size, v)) \/ Add(id, Bytes(size, v)) \/ Refuse(id, Bytes(size, v))
  BY DEF Next
<1> DEFINE bytes == Bytes(size, v)
<1>2. /\ bytes \in Seq(Byte) /\ bytes \in Contents /\ Len(bytes) \in Sizes
  BY BytesAre
<1>3. Overwrite(id, bytes) \/ Add(id, bytes) \/ Refuse(id, bytes)
  BY <1>1
<1> HIDE DEF bytes
<1>4. Sound /\ UNCHANGED driver /\ overrun = FALSE
  BY DEF Next, IInv, TypeOK
<1>5. CASE Overwrite(id, bytes) \/ Add(id, bytes)
  <2>1. ~overrun' => Wrote(id, bytes)
    BY <1>2, <1>4, <1>5, TakenWrites
  <2>2. Answer(id, bytes, TRUE)
    BY <1>5 DEF Overwrite, Add
  <2>3. overrun' \in BOOLEAN
    <3>1. TableIsFull \in BOOLEAN
      BY DEF TableIsFull
    <3>2. overrun' = overrun \/ overrun' = TableIsFull
      BY <1>5 DEF Overwrite, Add
    <3> QED BY <1>4, <3>1, <3>2, Zenon
  <2> QED BY <1>2, <1>4, <2>1, <2>2, <2>3
<1>6. CASE Refuse(id, bytes)
  <2>1. /\ UNCHANGED <<items, data, freeOffset, freeSize>> /\ overrun' \in BOOLEAN
        /\ Answer(id, bytes, FALSE)
    BY <1>4, <1>6 DEF Refuse
  <2> QED BY <1>2, <1>4, <2>1
<1> QED BY <1>3, <1>5, <1>6

LEMMA InitInv == Init => IInv
<1> SUFFICES ASSUME Init PROVE IInv
  OBVIOUS
<1>1. DataSize \in Nat
  BY ItemsAssumption
<1>2. items = <<>> /\ Len(items) = 0 /\ items \in Seq(Item)
  BY DEF Init
<1>3. data \in Region
  <2>1. Missing \in Byte
    BY DEF Byte
  <2> HIDE DEF Byte
  <2>2. data = [b \in 0 .. DataSize - 1 |-> Missing]
    BY DEF Init
  <2> QED BY <2>1, <2>2 DEF Region
<1>4. TypeOK
  <2>1. Len(items) <= MaxItems
    BY <1>2, ItemsAssumption
  <2>2. items \in Seq([id : Ids, offset : 0 .. DataSize, size : Sizes])
    BY <1>2 DEF Item
  <2>3. data \in [0 .. DataSize - 1 -> (UNION {Range(c) : c \in Contents}) \cup {Missing}]
    BY <1>3 DEF Region, Byte
  <2>4. freeOffset \in 0 .. DataSize /\ freeSize \in 0 .. DataSize
    BY <1>1 DEF Init
  <2>5. driver \in {"mtd", "emmc"} /\ overrun \in BOOLEAN /\ reply = Missing
    BY Zenon DEF Init
  <2> QED BY <2>1, <2>2, <2>3, <2>4, <2>5 DEF TypeOK
<1>5. InOrder(items, freeOffset) /\ OneEach(items)
  BY <1>2 DEF InOrder, OneEach
<1>6. FreeSpaceIsThere
  BY <1>1 DEF Init, FreeSpaceIsThere
<1>7. ~overrun
  BY DEF Init
<1> QED BY <1>4, <1>5, <1>6, <1>7 DEF IInv, Sound

LEMMA NextInv == IInv /\ [Next]_vars => IInv'
<1> SUFFICES ASSUME IInv, [Next]_vars PROVE IInv'
  OBVIOUS
<1>1. CASE UNCHANGED vars
  BY <1>1 DEF vars, IInv, Sound, TypeOK, InOrder, EndsBefore, OneEach, FreeSpaceIsThere
<1>2. CASE Next
  <2>1. PICK id \in Ids, bytes \in Contents, taken \in BOOLEAN :
           /\ Sound /\ UNCHANGED driver /\ Answer(id, bytes, taken) /\ overrun' \in BOOLEAN
           /\ ~overrun' =>
                \/ taken = TRUE /\ Wrote(id, bytes)
                \/ taken = FALSE /\ UNCHANGED <<items, data, freeOffset, freeSize>>
    BY <1>2, StepIs
  <2>2. reply' \in [id : Ids, bytes : Contents, taken : BOOLEAN]
    BY <2>1 DEF Answer
  <2>3. driver' = driver /\ driver' \in {"mtd", "emmc"}
    BY <2>1 DEF Sound, TypeOK
  <2>4. CASE overrun'
    BY <2>1, <2>2, <2>3, <2>4 DEF IInv, TypeOK
  <2>5. CASE ~overrun'
    <3>1. Fit(items', data', freeOffset', freeSize')
      <4>1. CASE Wrote(id, bytes)
        BY <4>1 DEF Wrote
      <4>2. CASE UNCHANGED <<items, data, freeOffset, freeSize>>
        BY <2>1, <4>2, FitNow
      <4> QED BY <2>1, <2>5, <4>1, <4>2
    <3>2. TypeOK'
      BY <2>1, <2>2, <2>3, <3>1 DEF TypeOK, Fit, Item, Region, Byte
    <3>3. (InOrder(items, freeOffset) /\ OneEach(items) /\ FreeSpaceIsThere)'
      BY <3>1, <2>3 DEF Fit, InOrder, EndsBefore, OneEach, FreeSpaceIsThere
    <3> QED BY <2>5, <3>2, <3>3 DEF IInv, Sound
  <2> QED BY <2>4, <2>5
<1> QED BY <1>1, <1>2 DEF vars

\* Until an entry is written behind item[], the table, the region and the free
\* space fit together.
THEOREM Invariant == Spec => []IInv
BY InitInv, NextInv, PTL DEF Spec

\* The types of the item table, for either driver; until an entry is written
\* behind item[] nothing is written outside of data.
THEOREM TypeCorrect == Spec => []TypeOK
<1>1. IInv => TypeOK
  BY DEF IInv
<1> QED BY <1>1, Invariant, PTL

\* After any growing, shrinking and moving, until an entry is written behind
\* item[], the rooms of the items lie one behind the other and before free_offset.
THEOREM RoomsApart == Spec => []RoomsAreApart
<1>1. IInv => RoomsAreApart
  <2> SUFFICES ASSUME Sound PROVE RoomsAreApart
    BY DEF IInv, RoomsAreApart
  <2>1. ASSUME NEW x \in 1 .. Len(items), NEW b \in Room(x), NEW end \in Nat,
               items[x].offset + Align(items[x].size) <= end
        PROVE  b < end
    <3>1. items[x].offset \in Nat /\ Align(items[x].size) \in Nat
      BY ItemsAre
    <3>2. b \in items[x].offset .. items[x].offset + Align(items[x].size) - 1
      BY DEF Room
    <3> QED BY <2>1, <3>1, <3>2
  <2>2. \A x \in 1 .. Len(items) : \A b \in Room(x) : b < freeOffset
    BY <2>1, ItemsAre
  <2>3. \A x, y \in 1 .. Len(items) : x < y => \A b \in Room(x) : b < items[y].offset
    BY <2>1, ItemsAre
  <2> QED BY <2>2, <2>3 DEF RoomsAreApart
<1> QED BY <1>1, Invariant, PTL

\* Until an entry is written behind item[], what is counted as free is in the
\* region behind free_offset, and mtd_vendor_write counts all of it.
THEOREM FreeSpace == Spec => []FreeSpaceIsThere
<1>1. IInv => FreeSpaceIsThere
  BY DEF IInv, Sound, FreeSpaceIsThere
<1> QED BY <1>1, Invariant, PTL

-----------------------------------------------------------------------------
(* The item table implements a map from ids to strings of bytes *)

Store == [id \in Ids |-> Read(id)]

LEMMA InitImplements == Init => Map!Init
<1> SUFFICES ASSUME Init PROVE Map!Init
  OBVIOUS
<1>1. ASSUME NEW id \in Ids PROVE Read(id) = Missing
  <2>1. Indexes(id) = {}
    <3>1. Len(items) = 0
      BY DEF Init
    <3> QED BY <3>1 DEF Indexes
  <2> QED BY <2>1 DEF Read
<1>2. Store = [id \in Ids |-> Missing]
  BY <1>1 DEF Store
<1> QED BY <1>2 DEF Init, Map!Init, Store

\* A write that is taken changes what is read of its id, and of no other.
LEMMA TakeImplements ==
  ASSUME Sound, Sound', NEW id \in Ids, NEW bytes \in Contents, bytes \in Seq(Byte),
         Wrote(id, bytes), Answer(id, bytes, TRUE)
  PROVE  Map!Take(id, bytes)
<1>1. ReadsAre
  BY ReadFacts
<1>2. ReadsAre'
  BY ReadFacts, PTL
<1>3. Len(bytes) \in Nat /\ bytes = [k \in 1 .. Len(bytes) |-> bytes[k]]
  OBVIOUS
<1>4. Read(id)' = bytes
  <2>1. PICK x \in 1 .. Len(items') :
           /\ items'[x].id = id /\ items'[x].size = Len(bytes)
           /\ \A t \in 0 .. Len(bytes) - 1 : data'[items'[x].offset + t] = bytes[t + 1]
    BY DEF Wrote, Holds
  <2>2. Read(id)' = [k \in 1 .. items'[x].size |-> data'[items'[x].offset + k - 1]]
    BY <1>2, <2>1 DEF ReadsAre
  <2>3. items'[x].offset \in Nat
    <3>1. items' \in Seq(Item)
      BY DEF Wrote, Fit
    <3>2. items'[x] \in Item
      BY <2>1, <3>1
    <3> QED BY <3>2 DEF Item
  <2>4. ASSUME NEW k \in 1 .. Len(bytes) PROVE data'[items'[x].offset + k - 1] = bytes[k]
    <3>1. /\ k - 1 \in 0 .. Len(bytes) - 1 /\ k - 1 + 1 = k
          /\ items'[x].offset + (k - 1) = items'[x].offset + k - 1
      BY <1>3, <2>3
    <3> QED BY <2>1, <3>1
  <2> QED BY <1>3, <2>1, <2>2, <2>4
<1>5. ASSUME NEW j \in Ids, j # id PROVE Read(j)' = Read(j)
  <2>1. CASE \E y \in 1 .. Len(items') : items'[y].id = j
    <3>1. PICK y \in 1 .. Len(items') : items'[y].id = j
      BY <2>1
    <3>2. PICK x \in 1 .. Len(items) : SameItem(items, data, x, items', data', y)
      BY <1>5, <3>1 DEF Wrote, KeepsOthers
    <3>3. /\ items[x].id = j /\ items'[y].size = items[x].size
          /\ \A t \in 0 .. items[x].size - 1 :
                data'[items'[y].offset + t] = data[items[x].offset + t]
      BY <3>1, <3>2 DEF SameItem
    <3>4. /\ Read(j) = [k \in 1 .. items[x].size |-> data[items[x].offset + k - 1]]
          /\ Read(j)' = [k \in 1 .. items'[y].size |-> data'[items'[y].offset + k - 1]]
      BY <1>1, <1>2, <3>1, <3>3 DEF ReadsAre
    <3>5. items[x].offset \in Nat /\ items[x].size \in Nat /\ items'[y].offset \in Nat
      <4>1. items' \in Seq(Item)
        BY DEF Wrote, Fit
      <4>2. items'[y] \in Item
        BY <4>1
      <4>3. items'[y].offset \in Nat
        BY <4>2 DEF Item
      <4> QED BY <4>3, ItemsAre
    <3>6. ASSUME NEW k \in 1 .. items[x].size
          PROVE  data'[items'[y].offset + k - 1] = data[items[x].offset + k - 1]
      <4>1. /\ k - 1 \in 0 .. items[x].size - 1
            /\ items'[y].offset + (k - 1) = items'[y].offset + k - 1
            /\ items[x].offset + (k - 1) = items[x].offset + k - 1
        BY <3>5
      <4> QED BY <3>3, <4>1
    <3> QED BY <3>3, <3>4, <3>6
  <2>2. CASE \A y \in 1 .. Len(items') : items'[y].id # j
    <3>1. \A x \in 1 .. Len(items) : items[x].id # j
      <4> SUFFICES ASSUME NEW x \in 1 .. Len(items), items[x].id = j PROVE FALSE
        OBVIOUS
      <4>1. PICK y \in 1 .. Len(items') : SameItem(items, data, x, items', data', y)
        BY <1>5 DEF Wrote, KeepsOthers
      <4> QED BY <2>2, <4>1 DEF SameItem
    <3>2. Read(j) = Missing /\ Read(j)' = Missing
      BY <1>1, <1>2, <2>2, <3>1 DEF ReadsAre
    <3> QED BY <3>2
  <2> QED BY <2>1, <2>2
<1>6. Store' = [Store EXCEPT ![id] = bytes]
  BY <1>4, <1>5 DEF Store
<1> QED BY <1>6 DEF Map!Take, Store, Answer

LEMMA NextImplements ==
  IInv /\ IInv' /\ [Next]_vars => [~overrun' => Map!Next]_(Map!vars)
<1> SUFFICES ASSUME IInv, IInv', [Next]_vars, ~overrun' PROVE [Map!Next]_(Map!vars)
  OBVIOUS
<1>1. CASE UNCHANGED vars
  <2>1. UNCHANGED Map!vars
    BY <1>1 DEF vars, Map!vars, Read, Indexes, IndexOf
  <2> QED BY <2>1
<1>2. CASE Next
  <2>1. PICK id \in Ids, bytes \in Contents, taken \in BOOLEAN :
           /\ bytes \in Seq(Byte) /\ Sound /\ Answer(id, bytes, taken)
           /\ \/ taken = TRUE /\ Wrote(id, bytes)
              \/ taken = FALSE /\ UNCHANGED <<items, data, freeOffset, freeSize>>
    BY <1>2, StepIs
  <2>2. CASE taken = TRUE /\ Wrote(id, bytes)
    <3>1. Sound'
      BY DEF IInv
    <3>2. Map!Take(id, bytes)
      BY <2>1, <2>2, <3>1, TakeImplements
    <3> QED BY <3>2 DEF Map!Next
  <2>3. CASE taken = FALSE /\ UNCHANGED <<items, data, freeOffset, freeSize>>
    <3>1. Store' = Store
      BY <2>3 DEF Store, Read, Indexes, IndexOf
    <3>2. Map!Refuse(id, bytes)
      BY <2>1, <2>3, <3>1 DEF Map!Refuse, Store, Answer
    <3> QED BY <3>2 DEF Map!Next
  <2> QED BY <2>1, <2>2, <2>3
<1> QED BY <1>1, <1>2

\* Until an entry is written behind item[], a write that returned 0 is read back
\* as it was written and changes no other item, and a refused one changes
\* nothing, for any sequence of writes.
THEOREM ImplementsMap == Spec => ImplementsItemMap
<1>1. Spec => []IInv
  BY Invariant
<1>2. Init => Map!Init
  BY InitImplements
<1>3. IInv /\ IInv' /\ [Next]_vars => [~overrun' => Map!Next]_(Map!vars)
  BY NextImplements
<1> QED BY <1>1, <1>2, <1>3, PTL DEF Spec, ImplementsItemMap
=============================================================================
