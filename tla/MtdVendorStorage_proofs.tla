----------------------- MODULE MtdVendorStorage_proofs -----------------------
(***************************************************************************)
(* Theorems about MtdVendorStorage, for any number of blocks, pages, bad   *)
(* blocks, writes and failed calls.  MInv is the inductive invariant: the  *)
(* types hold always, the rest until a lapse.                              *)
(***************************************************************************)
EXTENDS MtdVendorStorage, FiniteSetTheorems, WellFoundedInduction, TLAPS

-----------------------------------------------------------------------------
(* The inductive invariant *)

\* No structure has a version or contents that no write has made.
Known(d) == d.version <= writes + 1 /\ d.items <= writes
MadeByWrites ==
  /\ Known(mem)
  /\ \A b \in Blocks, p \in Pages : Known(flash[b][p])

\* At most one copy is there before a write returns.
CopiesLeft == pc = "write" => copies \in {0, 1}

\* Until the first page is programmed the flash holds no structure, and when it
\* is programmed the block is erased.
Formatting ==
  /\ \A b \in Blocks, p \in Pages : ~IsData(b, p)
  /\ pc # "idle"
  /\ pc \in {"format", "write"} =>
       blk \in GoodBlocks /\ page = 0 /\ mem = Data(1, 0)
  /\ pc = "write" => copies = 0 /\ flash[blk] = ErasedBlock

\* h is the block that init finds.
IsLast(h) ==
  /\ h \in Heads
  /\ \A b \in GoodBlocks \ {h} : \A p \in Pages :
       IsData(b, p) => flash[b][p].version <= flash[h][0].version
  /\ \A b \in Heads \ {h} : flash[b][0].version < flash[h][0].version

\* Its first k pages are used, and the last structure among them, on page m, is
\* the newest.
IsFilled(h, k, m) ==
  /\ \A p \in Pages : flash[h][p] = Erased <=> p >= k
  /\ m < k /\ IsData(h, m)
  /\ \A p \in Pages : IsData(h, p) => p <= m /\ flash[h][p].version <= flash[h][m].version

\* The second copy, or both, go to a block after h.
Beyond(h, k) ==
  /\ k = PagesPerBlock
  /\ flash[h][0].version < mem.version
  /\ \/ page = 0 /\ blk \in GoodBlocks /\ flash[blk] = ErasedBlock
     \/ page = PagesPerBlock

\* Where a write is.
Writing(h, k, m) ==
  /\ IF copies = 0 THEN flash[h][m].version < mem.version
                   ELSE copies = 1 /\ flash[h][m] = mem
  /\ mem.kind = "data"
  /\ IF blk = h THEN page = k ELSE Beyond(h, k)
  /\ flash[h][0].version = mem.version =>
       copies = 1 /\ blk = h /\ page < PagesPerBlock /\ flash[h][0] = mem

\* What the driver knows of them.
Serving(h, k, m) ==
  /\ pc # "format"
  /\ pc = "idle" => blk = h /\ page = k /\ mem = flash[h][m]
  /\ pc = "write" => Writing(h, k, m)

Stored(h, k, m) == IsLast(h) /\ IsFilled(h, k, m) /\ Serving(h, k, m)

MInv ==
  /\ TypeOK /\ MadeByWrites /\ CopiesLeft
  /\ lapses = {} =>
       IF Heads = {} THEN Formatting
       ELSE \E h \in Heads, k \in 1 .. PagesPerBlock, m \in Pages : Stored(h, k, m)

-----------------------------------------------------------------------------
(* What init finds *)

\* The pages of the flash have their type, and a page that is not a structure is
\* Erased or Junk.
LEMMA PageFacts ==
    ASSUME TypeOK, NEW b \in Blocks, NEW p \in Pages
    PROVE  /\ flash[b][p] \in PageType
           /\ flash[b][p].version \in Nat
           /\ ~IsData(b, p) => flash[b][p] \in {Erased, Junk}
           /\ flash[b][p] \in {Erased, Junk} => ~IsData(b, p)
<1>1. flash[b][p] \in PageType
    BY DEF TypeOK
<1>2. MaxWrites \in Nat
    BY FlashAssumption
<1>3. "data" # "erased" /\ "data" # "junk"
    OBVIOUS
<1>4. flash[b][p].version \in Nat
    BY <1>1, <1>2 DEF PageType, Versions, Erased, Junk
<1>5. flash[b][p] \in {Erased, Junk} => ~IsData(b, p)
    BY <1>3 DEF IsData, Erased, Junk
<1>6. ~IsData(b, p) => flash[b][p] \in {Erased, Junk}
    BY <1>1 DEF PageType, IsData
<1> QED BY <1>1, <1>4, <1>5, <1>6

\* The first page of a block exists.
LEMMA Sizes ==
    /\ NumBlocks \in Nat /\ PagesPerBlock \in Nat /\ PagesPerBlock >= 2
    /\ 0 \in Pages /\ Pages \subseteq Nat /\ Blocks \subseteq Nat
    /\ GoodBlocks \subseteq Blocks /\ GoodBlocks # {} /\ 0 \in Blocks
    /\ MaxWrites \in Nat /\ MaxFaults \in Nat
BY FlashAssumption DEF Pages, Blocks, GoodBlocks

LEMMA VersionType ==
    ASSUME NEW d \in PageType
    PROVE  d.version \in Nat
BY Sizes DEF PageType, Versions, Erased, Junk

\* LastOf finds the last element.
LEMMA LastOfIs ==
    ASSUME NEW S \in SUBSET Nat, NEW p \in S, \A q \in S : q <= p
    PROVE  LastOf(S) = p
<1> DEFINE c == CHOOSE x \in S : \A q \in S : q <= x
<1>1. c \in S /\ \A q \in S : q <= c
    OBVIOUS
<1> HIDE DEF c
<1>2. c <= p /\ p <= c /\ c \in Nat /\ p \in Nat
    BY <1>1
<1>3. c = p
    BY <1>2
<1> QED BY <1>3 DEF LastOf, c

\* A set of natural numbers has a least element.
LEMMA LeastElement ==
    ASSUME NEW T \in SUBSET Nat, T # {}
    PROVE  \E x \in T : \A y \in T : x <= y
<1>1. PICK x \in T : \A y \in T : ~ (<<y, x>> \in OpToRel(<, Nat))
    BY NatLessThanWellFounded, WFMin, Zenon
<1>2. ASSUME NEW y \in T PROVE x <= y
  <2> DEFINE less == {ss \in Nat \X Nat : ss[1] < ss[2]}
  <2>1. <<y, x>> \notin less
    BY <1>1 DEF OpToRel
  <2>2. x \in Nat /\ y \in Nat
    OBVIOUS
  <2>3. ~ (y < x)
    BY <2>1, <2>2
  <2> QED BY <2>2, <2>3
<1> QED BY <1>2

\* If it has a bound, it has a greatest one.
LEMMA GreatestElement ==
    ASSUME NEW T \in SUBSET Nat, T # {}, NEW n \in Nat, \A x \in T : x <= n
    PROVE  \E x \in T : \A y \in T : y <= x
<1> DEFINE D == {n - x : x \in T}
<1>1. D \in SUBSET Nat /\ D # {}
  <2>1. ASSUME NEW x \in T PROVE n - x \in Nat
    <3>1. x \in Nat /\ x <= n
      OBVIOUS
    <3> QED BY <3>1
  <2>2. PICK x \in T : TRUE
    OBVIOUS
  <2>3. n - x \in D
    OBVIOUS
  <2> QED BY <2>1, <2>3
<1>2. PICK d \in D : \A e \in D : d <= e
  <2> HIDE DEF D
  <2> QED BY <1>1, LeastElement
<1>3. PICK x \in T : d = n - x
    OBVIOUS
<1>4. ASSUME NEW y \in T PROVE y <= x
  <2>1. n - x <= n - y /\ x \in Nat /\ y \in Nat
    BY <1>2, <1>3
  <2> QED BY <2>1
<1> QED BY <1>4

\* The CHOOSEs of init have something to choose.
LEMMA FirstGoodIs == FirstGood \in GoodBlocks
<1>1. PICK b \in GoodBlocks : \A c \in GoodBlocks : b <= c
  <2>1. GoodBlocks \in SUBSET Nat /\ GoodBlocks # {}
    BY Sizes
  <2> QED BY <2>1, LeastElement
<1> DEFINE x == CHOOSE a \in GoodBlocks : \A c \in GoodBlocks : a <= c
<1>2. x \in GoodBlocks
    BY <1>1, Zenon
<1> QED BY <1>2 DEF FirstGood

LEMMA LastOfIn ==
    ASSUME NEW S \in SUBSET Pages, S # {}
    PROVE  LastOf(S) \in S
<1>1. S \in SUBSET Nat /\ PagesPerBlock \in Nat /\ \A p \in S : p <= PagesPerBlock
    BY Sizes DEF Pages
<1>2. PICK p \in S : \A q \in S : q <= p
    BY <1>1, GreatestElement
<1> DEFINE x == CHOOSE y \in S : \A q \in S : q <= y
<1>3. x \in S
    BY <1>2, Zenon
<1> QED BY <1>3 DEF LastOf

LEMMA LastBlockIn ==
    ASSUME TypeOK, Heads # {}
    PROVE  LastBlock \in Heads
<1> USE Sizes, PageFacts
<1>1. /\ Heads \subseteq Blocks /\ Heads \subseteq Nat
      /\ \A b \in Heads : flash[b][0].version \in Versions
  <2>1. Heads \subseteq Blocks
    BY DEF Heads
  <2>2. ASSUME NEW b \in Heads PROVE flash[b][0].version \in Versions
    <3>1. flash[b][0] \in PageType
      BY <2>1
    <3> QED BY <3>1 DEF PageType, Versions, Erased, Junk
  <2> QED BY <2>1, <2>2
<1> DEFINE V == {flash[b][0].version : b \in Heads}
<1>2. PICK v \in V : \A w \in V : w <= v
  <2>1. V \in SUBSET Nat /\ V # {} /\ MaxWrites + 1 \in Nat /\ \A w \in V : w <= MaxWrites + 1
    <3>1. \A n \in Versions : n \in Nat /\ n <= MaxWrites + 1
      BY DEF Versions
    <3>2. PICK b \in Heads : TRUE
      OBVIOUS
    <3>3. flash[b][0].version \in V
      OBVIOUS
    <3>4. V \subseteq Versions
      BY <1>1
    <3>5. MaxWrites + 1 \in Nat
      OBVIOUS
    <3> HIDE DEF V
    <3> QED BY <3>1, <3>3, <3>4, <3>5
  <2> HIDE DEF V
  <2> QED BY <2>1, GreatestElement
<1> DEFINE T == {b \in Heads : flash[b][0].version = v}
<1>3. PICK b \in T : \A c \in T : b <= c
  <2>1. T \in SUBSET Nat /\ T # {}
    BY <1>1
  <2> HIDE DEF T
  <2> QED BY <2>1, LeastElement
<1> DEFINE Before(c, d) == \/ flash[c][0].version < flash[d][0].version
                           \/ flash[c][0].version = flash[d][0].version /\ d <= c
<1>4. ASSUME NEW c \in Heads PROVE Before(c, b)
  <2>1. flash[c][0].version \in V /\ flash[c][0].version \in Nat /\ v \in Nat
    BY <1>1 DEF Versions
  <2>2. flash[c][0].version <= v
    BY <2>1, <1>2
  <2>3. flash[c][0].version = v => b <= c
    BY <1>3
  <2> QED BY <2>1, <2>2, <2>3
<1> DEFINE x == CHOOSE d \in Heads : \A c \in Heads : Before(c, d)
<1>5. x \in Heads
  <2> HIDE DEF Before
  <2>1. b \in Heads
    OBVIOUS
  <2> QED BY <2>1, <1>4, Zenon
<1>6. x = LastBlock
    BY DEF LastBlock
<1> HIDE DEF x
<1> QED BY <1>5, <1>6

\* What init reads from that block, whatever has happened.
LEMMA FoundType ==
    ASSUME TypeOK, MadeByWrites, Heads # {}
    PROVE  /\ LastBlock \in Blocks
           /\ NewestPage(LastBlock) \in PageType /\ NewestPage(LastBlock) # Junk
           /\ Known(NewestPage(LastBlock))
           /\ NextPage(LastBlock) \in 0 .. PagesPerBlock
<1> USE Sizes
<1>1. PICK b \in Blocks : b = LastBlock /\ IsData(b, 0)
    BY LastBlockIn DEF Heads
<1> DEFINE read == {p \in Pages : IsData(b, p)}
           used == {p \in Pages : flash[b][p] # Erased}
<1>2. LastOf(read) \in read /\ LastOf(used) \in used
  <2>1. 0 \in read /\ 0 \in used
    BY <1>1, PageFacts
  <2>2. read \in SUBSET Pages /\ used \in SUBSET Pages
    OBVIOUS
  <2> HIDE DEF read, used
  <2> QED BY <2>1, <2>2, LastOfIn
<1>3. PICK p \in Pages : p = LastOf(read) /\ IsData(b, p)
    BY <1>2
<1>4. flash[b][p] \in PageType /\ flash[b][p] # Junk /\ Known(flash[b][p])
    BY <1>3, PageFacts DEF MadeByWrites
<1>5. NewestPage(b) = flash[b][p]
    BY <1>3 DEF NewestPage
<1>6. NextPage(b) \in 0 .. PagesPerBlock
  <2>1. LastOf(used) \in Pages
    BY <1>2
  <2> HIDE DEF used
  <2>2. NextPage(b) = IF LastOf(used) > 0 THEN LastOf(used) + 1 ELSE 0
    BY DEF NextPage, used
  <2> QED BY <2>1, <2>2 DEF Pages
<1> QED BY <1>1, <1>4, <1>5, <1>6

\* The scan finds the last block.
LEMMA LastBlockIs ==
    ASSUME TypeOK, NEW h, IsLast(h)
    PROVE  LastBlock = h
<1> USE Sizes, PageFacts
<1> DEFINE Before(c, b) == \/ flash[c][0].version < flash[b][0].version
                           \/ flash[c][0].version = flash[b][0].version /\ b <= c
           x == CHOOSE b \in Heads : \A c \in Heads : Before(c, b)
<1>1. h \in Heads /\ Heads \subseteq Blocks
    BY DEF IsLast, Heads
<1>2. \A c \in Heads : flash[c][0].version \in Nat /\ c \in Nat
    BY <1>1
<1>3. \A c \in Heads : Before(c, h)
    BY <1>1, <1>2 DEF IsLast
<1>4. x \in Heads /\ \A c \in Heads : Before(c, x)
  <2> HIDE DEF Before
  <2> QED BY <1>1, <1>3, Zenon
<1> HIDE DEF x
<1>5. x = h
  <2> SUFFICES ASSUME x # h PROVE FALSE
    OBVIOUS
  <2>1. flash[x][0].version < flash[h][0].version
    BY <1>4 DEF IsLast
  <2>2. Before(h, x)
    BY <1>1, <1>4
  <2> QED BY <2>1, <2>2, <1>1, <1>2, <1>4
<1>6. x = LastBlock
    BY DEF x, LastBlock
<1> QED BY <1>5, <1>6

\* In that block it finds the newest structure and the page after the used ones.
LEMMA NewestPageIs ==
    ASSUME TypeOK, NEW h \in Blocks, NEW k \in 1 .. PagesPerBlock, NEW m \in Pages,
           IsFilled(h, k, m)
    PROVE  /\ NewestPage(h) = flash[h][m]
           /\ NextPage(h) = IF k >= 2 THEN k ELSE 0
<1> USE Sizes
<1>1. m \in {p \in Pages : IsData(h, p)} /\ \A q \in {p \in Pages : IsData(h, p)} : q <= m
    BY DEF IsFilled
<1>2. LastOf({p \in Pages : IsData(h, p)}) = m
    BY <1>1, LastOfIs
<1>3. NewestPage(h) = flash[h][m]
    BY <1>2 DEF NewestPage
<1> DEFINE used == {p \in Pages : flash[h][p] # Erased}
<1>4. k - 1 \in Pages /\ \A p \in Pages : p \in used <=> p <= k - 1
    BY DEF IsFilled, Pages
<1>5. k - 1 \in used /\ \A q \in used : q <= k - 1
  <2> HIDE DEF used
  <2>1. used \subseteq Pages
    BY DEF used
  <2> QED BY <1>4, <2>1
<1>6. LastOf(used) = k - 1
    BY <1>5, LastOfIs
<1>7. NextPage(h) = IF k >= 2 THEN k ELSE 0
    BY <1>6 DEF NextPage
<1> QED BY <1>3, <1>7

\* What a start finds depends on the flash only.
LEMMA SameFlash ==
    ASSUME flash' = flash
    PROVE  /\ Heads' = Heads /\ LastBlock' = LastBlock
           /\ \A b : NewestPage(b)' = NewestPage(b)
           /\ \A h : IsLast(h)' <=> IsLast(h)
           /\ \A h, k, m : IsFilled(h, k, m)' <=> IsFilled(h, k, m)
BY DEF Heads, LastBlock, NewestPage, IsLast, IsFilled, IsData

\* In the initial state there is no structure.
LEMMA InitMInv == Init => MInv
<1> SUFFICES ASSUME Init PROVE MInv
    OBVIOUS
<1> USE Sizes
<1>1. \A b \in Blocks, p \in Pages : flash[b][p] = Erased
    BY DEF Init, ErasedBlock
<1>2. 0 \in Blocks
    BY DEF Blocks
<1>3. Erased \in PageType /\ Erased # Junk
  <2>1. "erased" # "junk"
    OBVIOUS
  <2> QED BY <2>1 DEF PageType, Erased, Junk
<1>4. ErasedBlock \in [Pages -> PageType]
    BY <1>3 DEF ErasedBlock
<1>5. flash \in [Blocks -> [Pages -> PageType]]
    BY <1>4 DEF Init
<1>6. TypeOK
    BY <1>2, <1>3, <1>5 DEF Init, TypeOK
<1>7. Known(Erased)
    BY DEF Init, Known, Erased
<1>8. MadeByWrites
    BY <1>1, <1>7 DEF MadeByWrites, Init
<1>9. \A b \in Blocks, p \in Pages : ~IsData(b, p)
    BY <1>1, <1>6, PageFacts
<1>10. Heads = {}
    BY <1>9 DEF Heads
<1>11. pc = "off" /\ "off" # "idle" /\ "off" # "format" /\ "off" # "write"
    BY DEF Init
<1>12. Formatting
    BY <1>9, <1>11 DEF Formatting
<1>13. CopiesLeft
    BY <1>11 DEF CopiesLeft
<1> QED BY <1>6, <1>8, <1>10, <1>12, <1>13 DEF MInv

-----------------------------------------------------------------------------
(* What changes of the flash do to what init finds *)

\* Erased and Junk can be on every page.
LEMMA NoStructure ==
    ASSUME NEW d \in {Erased, Junk}
    PROVE  /\ d \in PageType /\ d.kind # "data"
           /\ TypeOK => Known(d)
<1>1. "data" # "erased" /\ "data" # "junk"
    OBVIOUS
<1>2. d.kind # "data" /\ d \in PageType
    BY <1>1 DEF Erased, Junk, PageType
<1>3. TypeOK => Known(d)
    BY DEF Erased, Junk, Known, TypeOK
<1> QED BY <1>2, <1>3

\* A page takes a value of the type of pages.
LEMMA StoreType ==
    ASSUME TypeOK, MadeByWrites, NEW b \in Blocks, NEW p \in Pages,
           NEW d \in PageType, Known(d),
           flash' = [flash EXCEPT ![b][p] = d]
    PROVE  /\ flash' \in [Blocks -> [Pages -> PageType]]
           /\ \A c \in Blocks, q \in Pages : Known(flash'[c][q])
<1>1. flash' = [flash EXCEPT ![b] = [flash[b] EXCEPT ![p] = d]]
    OBVIOUS
<1>2. [flash[b] EXCEPT ![p] = d] \in [Pages -> PageType]
    BY DEF TypeOK
<1>3. flash' \in [Blocks -> [Pages -> PageType]]
    BY <1>1, <1>2 DEF TypeOK
<1>4. ASSUME NEW c \in Blocks, NEW q \in Pages PROVE Known(flash'[c][q])
  <2>1. flash'[c][q] = flash[c][q] \/ flash'[c][q] = d
    BY <1>1 DEF TypeOK
  <2>2. Known(flash[c][q])
    BY DEF MadeByWrites
  <2> QED BY <2>1, <2>2
<1> QED BY <1>3, <1>4

\* An erase of the block b, done or not, makes no structure and touches no other
\* block.
Wiped(b, pages) ==
    /\ pages \in [Pages -> PageType]
    /\ \A p \in Pages : pages[p] \in {flash[b][p], Erased, Junk}
    /\ flash' = [flash EXCEPT ![b] = pages]

LEMMA Erases ==
    ASSUME TypeOK, NEW b \in Blocks
    PROVE  /\ flash' = [flash EXCEPT ![b] = ErasedBlock] => Wiped(b, ErasedBlock)
           /\ \A pages \in HalfErased(b) :
                flash' = [flash EXCEPT ![b] = pages] => Wiped(b, pages)
<1>1. /\ ErasedBlock \in [Pages -> PageType]
      /\ \A p \in Pages : ErasedBlock[p] \in {flash[b][p], Erased, Junk}
    BY NoStructure DEF ErasedBlock
<1>2. ASSUME NEW pages \in HalfErased(b)
      PROVE  /\ pages \in [Pages -> PageType]
             /\ \A p \in Pages : pages[p] \in {flash[b][p], Erased, Junk}
  <2>1. pages \in [Pages -> {flash[b][p] : p \in Pages} \cup {Erased, Junk}]
    BY DEF HalfErased
  <2>2. \A p \in Pages : pages[p] \in {flash[b][p], Erased, Junk}
    BY DEF HalfErased
  <2>3. \A p \in Pages : pages[p] \in PageType
    BY <2>2, PageFacts, NoStructure
  <2> QED BY <2>1, <2>2, <2>3
<1> QED BY <1>1, <1>2, Zenon DEF Wiped

LEMMA WipeKeeps ==
    ASSUME TypeOK, MadeByWrites, NEW b \in Blocks, NEW pages, Wiped(b, pages)
    PROVE  /\ flash' \in [Blocks -> [Pages -> PageType]]
           /\ \A c \in Blocks, q \in Pages : Known(flash'[c][q])
           /\ \A c \in Blocks, q \in Pages :
                IsData(c, q)' => IsData(c, q) /\ flash'[c][q] = flash[c][q]
           /\ \A c \in Blocks \ {b} : flash'[c] = flash[c]
<1> USE DEF Wiped
<1>1. flash' \in [Blocks -> [Pages -> PageType]]
    BY DEF TypeOK
<1>2. \A c \in Blocks \ {b} : flash'[c] = flash[c]
    BY DEF TypeOK
<1>3. \A q \in Pages : flash'[b][q] \in {flash[b][q], Erased, Junk}
    BY DEF TypeOK
<1> HIDE DEF Wiped
<1>4. ASSUME NEW c \in Blocks, NEW q \in Pages
      PROVE  flash'[c][q] = flash[c][q] \/ flash'[c][q] \in {Erased, Junk}
    BY <1>2, <1>3
<1>5. ASSUME NEW c \in Blocks, NEW q \in Pages PROVE Known(flash'[c][q])
  <2>1. Known(flash[c][q]) /\ Known(Erased) /\ Known(Junk)
    BY NoStructure DEF MadeByWrites
  <2> QED BY <2>1, <1>4
<1>6. ASSUME NEW c \in Blocks, NEW q \in Pages, IsData(c, q)'
      PROVE  IsData(c, q) /\ flash'[c][q] = flash[c][q]
  <2>1. flash'[c][q].kind = "data"
    BY <1>6 DEF IsData
  <2>2. flash'[c][q] \notin {Erased, Junk}
    BY <2>1, NoStructure
  <2>3. flash'[c][q] = flash[c][q]
    BY <2>2, <1>4
  <2> QED BY <2>1, <2>3 DEF IsData
<1> QED BY <1>1, <1>2, <1>5, <1>6

\* So init finds what it would have found if that is not in b.
LEMMA WipeKeepsLast ==
    ASSUME TypeOK, MadeByWrites, NEW b \in Blocks, NEW pages, Wiped(b, pages),
           NEW h \in Heads, h # b, IsLast(h),
           NEW k \in 1 .. PagesPerBlock, NEW m \in Pages, IsFilled(h, k, m)
    PROVE  h \in Heads' /\ IsLast(h)' /\ IsFilled(h, k, m)'
<1> USE Sizes
<1>1. h \in GoodBlocks /\ h \in Blocks /\ IsData(h, 0)
    BY DEF Heads
<1>2. flash'[h] = flash[h]
    BY <1>1, WipeKeeps
<1>3. h \in Heads'
    BY <1>1, <1>2 DEF Heads, IsData
<1>4. ASSUME NEW c \in GoodBlocks, NEW p \in Pages, IsData(c, p)'
      PROVE  IsData(c, p) /\ flash'[c][p] = flash[c][p]
    BY <1>4, WipeKeeps
<1>5. IsLast(h)'
  <2>1. ASSUME NEW c \in GoodBlocks \ {h}, NEW p \in Pages, IsData(c, p)'
        PROVE  flash'[c][p].version <= flash'[h][0].version
    BY <2>1, <1>2, <1>4 DEF IsLast
  <2>2. ASSUME NEW c \in Heads' \ {h}
        PROVE  flash'[c][0].version < flash'[h][0].version
    <3>1. c \in GoodBlocks /\ IsData(c, 0)'
      BY DEF Heads
    <3>2. IsData(c, 0) /\ flash'[c][0] = flash[c][0]
      BY <3>1, <1>4
    <3>3. c \in Heads \ {h}
      BY <3>1, <3>2 DEF Heads
    <3> QED BY <3>2, <3>3, <1>2 DEF IsLast
  <2> QED BY <1>3, <2>1, <2>2 DEF IsLast
<1>6. IsFilled(h, k, m)'
    BY <1>2 DEF IsFilled, IsData
<1> QED BY <1>3, <1>5, <1>6

\* The page p of the block b takes the value d.
Stores(b, p, d) == flash' = [flash EXCEPT ![b][p] = d]

\* The next page of the last block is used: a page that is no structure changes
\* nothing, a newer structure is what init finds.
LEMMA AppendKeepsLast ==
    ASSUME TypeOK, NEW h \in Heads, IsLast(h),
           NEW k \in 1 .. PagesPerBlock, NEW m \in Pages, IsFilled(h, k, m),
           k < PagesPerBlock, NEW n \in Nat, n = k + 1,
           NEW d \in PageType, d # Erased,
           Stores(h, k, d)
    PROVE  /\ h \in Heads' /\ IsLast(h)' /\ flash'[h][0] = flash[h][0]
           /\ flash'[h][m] = flash[h][m] /\ flash'[h][k] = d
           /\ d = Junk => IsFilled(h, n, m)'
           /\ d.kind = "data" /\ d.version >= flash[h][m].version =>
                IsFilled(h, n, k)'
<1> USE Sizes
<1>1. h \in GoodBlocks /\ h \in Blocks /\ IsData(h, 0) /\ k \in Pages
    BY DEF Heads, Pages
<1>2. /\ \A c \in Blocks \ {h} : flash'[c] = flash[c]
      /\ \A p \in Pages \ {k} : flash'[h][p] = flash[h][p]
      /\ flash'[h][k] = d
    BY <1>1 DEF TypeOK, Stores
<1>3. flash'[h][0] = flash[h][0]
    BY <1>2
<1>4. m # k /\ flash'[h][m] = flash[h][m]
    BY <1>2 DEF IsFilled
<1>5. h \in Heads'
    BY <1>1, <1>3 DEF Heads, IsData
<1>6. IsLast(h)'
  <2>1. ASSUME NEW c \in GoodBlocks \ {h}, NEW p \in Pages, IsData(c, p)'
        PROVE  flash'[c][p].version <= flash'[h][0].version
    BY <2>1, <1>2, <1>3 DEF IsLast, IsData
  <2>2. ASSUME NEW c \in Heads' \ {h}
        PROVE  flash'[c][0].version < flash'[h][0].version
    <3>1. c \in Heads \ {h} /\ flash'[c] = flash[c]
      BY <1>2 DEF Heads, IsData
    <3> QED BY <3>1, <1>3 DEF IsLast
  <2> QED BY <1>5, <2>1, <2>2 DEF IsLast
<1>7. ASSUME NEW p \in Pages PROVE flash'[h][p] = Erased <=> p >= k + 1
    BY <1>2 DEF IsFilled
<1>8. ASSUME d = Junk PROVE IsFilled(h, n, m)'
  <2>1. ~(IsData(h, k)')
    BY <1>2, <1>8, NoStructure DEF IsData
  <2>2. \A p \in Pages : IsData(h, p)' => p # k /\ IsData(h, p) /\ flash'[h][p] = flash[h][p]
    BY <2>1, <1>2 DEF IsData
  <2>3. m < k + 1 /\ IsData(h, m)'
    BY <1>4 DEF IsFilled, IsData
  <2>4. \A p \in Pages : IsData(h, p)' => p <= m /\ flash'[h][p].version <= flash'[h][m].version
    BY <2>2, <1>4 DEF IsFilled
  <2> QED BY <1>7, <2>3, <2>4 DEF IsFilled
<1>9. ASSUME d.kind = "data", d.version >= flash[h][m].version PROVE IsFilled(h, n, k)'
  <2>1. k < k + 1 /\ IsData(h, k)'
    BY <1>2, <1>9 DEF IsData
  <2>2. ASSUME NEW p \in Pages, IsData(h, p)', p # k
        PROVE  p <= k /\ flash'[h][p].version <= d.version
    <3>1. flash'[h][p] = flash[h][p] /\ IsData(h, p)
      BY <2>2, <1>2 DEF IsData
    <3>2. p <= m /\ m < k /\ flash[h][p].version <= flash[h][m].version
      BY <3>1 DEF IsFilled
    <3>3. flash[h][p].version \in Nat /\ flash[h][m].version \in Nat /\ d.version \in Nat
      BY <1>1, PageFacts, VersionType
    <3> QED BY <3>1, <3>2, <3>3, <1>9
  <2>3. d.version <= d.version
    BY VersionType
  <2> QED BY <1>2, <1>7, <2>1, <2>2, <2>3 DEF IsFilled
<1> QED BY <1>2, <1>3, <1>4, <1>5, <1>6, <1>8, <1>9

\* The first page of an erased block is programmed with a new version: that is
\* what init finds.
LEMMA HeadBecomesLast ==
    ASSUME TypeOK, NEW b \in GoodBlocks, flash[b] = ErasedBlock,
           NEW d \in PageType, d.kind = "data",
           \A c \in GoodBlocks : \A p \in Pages :
             IsData(c, p) => flash[c][p].version <= d.version,
           \A c \in Heads : flash[c][0].version < d.version,
           flash' = [flash EXCEPT ![b][0] = d]
    PROVE  /\ b \in Heads' /\ IsLast(b)' /\ IsFilled(b, 1, 0)'
           /\ flash'[b][0] = d
<1> USE Sizes
<1>1. /\ \A c \in Blocks \ {b} : flash'[c] = flash[c]
      /\ \A p \in Pages \ {0} : flash'[b][p] = Erased
      /\ flash'[b][0] = d
    BY DEF TypeOK, ErasedBlock
<1>2. b \in Heads'
    BY <1>1 DEF Heads, IsData
<1>3. IsLast(b)'
  <2>1. ASSUME NEW c \in GoodBlocks \ {b}, NEW p \in Pages, IsData(c, p)'
        PROVE  flash'[c][p].version <= flash'[b][0].version
    BY <2>1, <1>1 DEF IsData
  <2>2. ASSUME NEW c \in Heads' \ {b}
        PROVE  flash'[c][0].version < flash'[b][0].version
    <3>1. c \in Heads /\ flash'[c] = flash[c]
      BY <1>1 DEF Heads, IsData
    <3> QED BY <3>1, <1>1
  <2> QED BY <1>2, <2>1, <2>2 DEF IsLast
<1>4. d # Erased /\ Erased.kind # "data" /\ d.version \in Nat
    BY NoStructure, VersionType
<1>5. IsFilled(b, 1, 0)'
  <2>1. \A p \in Pages : flash'[b][p] = Erased <=> p >= 1
    BY <1>1, <1>4
  <2>2. \A p \in Pages : IsData(b, p)' => p = 0
    BY <1>1, <1>4 DEF IsData
  <2>3. IsData(b, 0)'
    BY <1>1 DEF IsData
  <2>4. 0 < 1 /\ 0 <= 0 /\ d.version <= d.version
    BY <1>4
  <2> QED BY <1>1, <2>1, <2>2, <2>3, <2>4 DEF IsFilled
<1> QED BY <1>1, <1>2, <1>3, <1>5

-----------------------------------------------------------------------------
(* Lapses *)

\* A lapse is not forgotten, and init's scan does not depend on it.
LEMMA LapsesStay ==
    ASSUME [Next]_vars
    PROVE  /\ lapses \subseteq lapses'
           /\ lapses \subseteq LapseNames => lapses' \subseteq LapseNames
<1> USE DEF Lapse, LapseNames
<1>1. CASE Boot
    BY <1>1 DEF Boot
<1>2. CASE BootEmpty \/ FormatErase \/ FormatEraseFail
    BY <1>2 DEF BootEmpty, FormatErase, FormatEraseFail
<1>3. CASE FormatWrite \/ Write
    BY <1>3 DEF FormatWrite, Write
<1>4. CASE SkipBadBlock \/ EraseBlock \/ EraseFail
    BY <1>4 DEF SkipBadBlock, EraseBlock, EraseFail
<1>5. CASE Program
    BY <1>5 DEF Program
<1>6. CASE ProgramFail
    BY <1>6 DEF ProgramFail
<1>7. CASE PowerLoss \/ PowerLossInProgram \/ PowerLossInErase \/ PowerLossInFormat
    BY <1>7 DEF PowerLoss, PowerLossInProgram, PowerLossInErase, PowerLossInFormat
<1>8. CASE UNCHANGED vars
    BY <1>8 DEF vars
<1> QED BY <1>1, <1>2, <1>3, <1>4, <1>5, <1>6, <1>7, <1>8 DEF Next, Loop

\* When the block of a write is full the last block is older than the write.
LEMMA FullBlock ==
    ASSUME TypeOK, BlockFull,
           NEW h \in Heads, NEW k \in 1 .. PagesPerBlock, NEW m \in Pages, Stored(h, k, m)
    PROVE  /\ k = PagesPerBlock /\ page = PagesPerBlock
           /\ flash[h][0].version < mem.version
           /\ NextBlock \in Blocks
<1> USE Sizes
<1>1. /\ Writing(h, k, m) /\ pc = "write"
      /\ page = PagesPerBlock /\ blk \in Blocks
      /\ h \in GoodBlocks /\ h \in Blocks
    BY DEF Stored, Serving, BlockFull, TypeOK, Heads
<1>2. k = PagesPerBlock
    BY <1>1 DEF Writing, Beyond
<1>3. flash[h][0].version < mem.version
  <2>1. flash[h][0].version # mem.version
    BY <1>1 DEF Writing
  <2>2. flash[h][0].version <= flash[h][m].version
    BY DEF Stored, IsFilled, Heads
  <2>3. flash[h][m].version < mem.version \/ flash[h][m].version = mem.version
    BY <1>1 DEF Writing
  <2>4. flash[h][0].version \in Nat /\ flash[h][m].version \in Nat
    BY <1>1, PageFacts
  <2>5. mem.version \in Nat
    BY VersionType DEF TypeOK
  <2> QED BY <2>1, <2>2, <2>3, <2>4, <2>5
<1>4. NextBlock \in Blocks
    BY <1>1 DEF NextBlock, Blocks
<1> QED BY <1>1, <1>2, <1>3, <1>4

-----------------------------------------------------------------------------
(* Steps of a storage that holds a structure *)

\* What Stored says of the last block, with the types of its parts.
LEMMA StoredFacts ==
    ASSUME TypeOK, NEW h \in Heads, NEW k \in 1 .. PagesPerBlock, NEW m \in Pages,
           Stored(h, k, m)
    PROVE  /\ h \in GoodBlocks /\ h \in Blocks
           /\ IsLast(h) /\ IsFilled(h, k, m) /\ Serving(h, k, m)
           /\ flash[h][m] \in PageType /\ flash[h][m].kind = "data"
           /\ flash[h][0].version \in Nat /\ flash[h][m].version \in Nat
           /\ mem.version \in Nat
           /\ flash[h][0].version <= flash[h][m].version
           /\ page \in 0 .. PagesPerBlock /\ faults \in 0 .. MaxFaults /\ blk \in Blocks
           /\ pc \in {"off", "format", "write", "idle"}
<1> USE Sizes
<1>1. h \in GoodBlocks /\ h \in Blocks /\ IsData(h, 0)
    BY DEF Heads
<1>2. flash[h][0].version <= flash[h][m].version
    BY <1>1 DEF Stored, IsFilled
<1>3. flash[h][m].kind = "data"
    BY DEF Stored, IsFilled, IsData
<1>4. mem.version \in Nat
    BY VersionType DEF TypeOK
<1> QED BY <1>1, <1>2, <1>3, <1>4, PageFacts DEF Stored, TypeOK

LEMMA StartKeepsStored ==
    ASSUME TypeOK, Boot, lapses' = {},
           NEW h \in Heads, NEW k \in 1 .. PagesPerBlock, NEW m \in Pages, Stored(h, k, m)
    PROVE  h \in Heads' /\ Stored(h, k, m)' /\ mem' = flash[h][m] /\ flash' = flash
<1> USE StoredFacts
<1>1. flash' = flash /\ pc = "off" /\ pc' = "idle"
    BY DEF Boot
<1>2. LastBlock = h
    BY LastBlockIs
<1>3. NewestPage(h) = flash[h][m] /\ NextPage(h) = IF k >= 2 THEN k ELSE 0
    BY NewestPageIs
<1>4. NextPage(h) # 0
    BY <1>2 DEF Boot, Lapse
<1>5. blk' = h /\ page' = k /\ mem' = flash[h][m]
    BY <1>2, <1>3, <1>4 DEF Boot
<1>6. Serving(h, k, m)'
    BY <1>1, <1>5 DEF Serving
<1> QED BY <1>1, <1>5, <1>6, SameFlash DEF Stored

LEMMA WriteKeepsStored ==
    ASSUME TypeOK, Write,
           NEW h \in Heads, NEW k \in 1 .. PagesPerBlock, NEW m \in Pages, Stored(h, k, m)
    PROVE  h \in Heads' /\ Stored(h, k, m)' /\ flash' = flash
<1> USE StoredFacts
<1>1. /\ flash' = flash /\ blk' = blk /\ page' = page
      /\ pc = "idle" /\ pc' = "write" /\ copies' = 0
      /\ mem' = Data(mem.version + 1, writes + 1)
    BY DEF Write
<1>2. blk = h /\ page = k /\ mem = flash[h][m]
    BY <1>1 DEF Serving
<1>3. mem'.kind = "data" /\ mem'.version = flash[h][m].version + 1
    BY <1>1, <1>2 DEF Data
<1>4. flash[h][m].version < mem'.version /\ flash[h][0].version # mem'.version
    BY <1>3
<1>5. Writing(h, k, m)'
    BY <1>1, <1>2, <1>3, <1>4 DEF Writing
<1>6. Serving(h, k, m)'
    BY <1>1, <1>5 DEF Serving
<1> QED BY <1>1, <1>6, SameFlash DEF Stored

LEMMA SkipKeepsStored ==
    ASSUME TypeOK, SkipBadBlock,
           NEW h \in Heads, NEW k \in 1 .. PagesPerBlock, NEW m \in Pages, Stored(h, k, m)
    PROVE  h \in Heads' /\ Stored(h, k, m)' /\ flash' = flash
<1> USE StoredFacts
<1>1. /\ flash' = flash /\ blk' = NextBlock /\ page' = page /\ mem' = mem
      /\ copies' = copies
      /\ pc = "write" /\ pc' = "write" /\ BlockFull /\ NextBlock \notin GoodBlocks
    BY DEF SkipBadBlock, BlockFull, GoodBlocks
<1>2. /\ k = PagesPerBlock /\ page = PagesPerBlock
      /\ flash[h][0].version < mem.version
      /\ NextBlock # h
    BY <1>1, FullBlock
<1>3. Beyond(h, k)'
    BY <1>1, <1>2 DEF Beyond
<1>4. Writing(h, k, m)
    BY <1>1 DEF Serving
<1>5. flash[h][0].version # mem.version
    BY <1>2
<1>6. Writing(h, k, m)'
    BY <1>1, <1>2, <1>3, <1>4, <1>5 DEF Writing
<1>7. Serving(h, k, m)'
    BY <1>1, <1>6 DEF Serving
<1> QED BY <1>1, <1>7, SameFlash DEF Stored

LEMMA PowerLossKeepsStored ==
    ASSUME TypeOK, PowerLoss,
           NEW h \in Heads, NEW k \in 1 .. PagesPerBlock, NEW m \in Pages, Stored(h, k, m)
    PROVE  h \in Heads' /\ Stored(h, k, m)' /\ flash' = flash
<1> USE StoredFacts
<1>1. flash' = flash /\ pc' = "off"
    BY DEF PowerLoss, Off
<1>2. Serving(h, k, m)'
    BY <1>1 DEF Serving
<1> QED BY <1>1, <1>2, SameFlash DEF Stored

LEMMA StutterKeepsStored ==
    ASSUME TypeOK, UNCHANGED vars,
           NEW h \in Heads, NEW k \in 1 .. PagesPerBlock, NEW m \in Pages, Stored(h, k, m)
    PROVE  h \in Heads' /\ Stored(h, k, m)' /\ flash' = flash
<1> USE DEF vars
<1>1. Serving(h, k, m)' <=> Serving(h, k, m)
    BY DEF Serving, Writing, Beyond
<1> QED BY <1>1, StoredFacts, SameFlash DEF Stored

\* An erase that reaches the last block is a lapse.
LEMMA EraseKeepsStored ==
    ASSUME TypeOK, MadeByWrites, lapses' = {}, EraseBlock \/ EraseFail \/ PowerLossInErase,
           NEW h \in Heads, NEW k \in 1 .. PagesPerBlock, NEW m \in Pages, Stored(h, k, m)
    PROVE  h \in Heads' /\ Stored(h, k, m)' /\ flash'[h] = flash[h]
<1> USE StoredFacts
<1>1. pc = "write" /\ BlockFull /\ NextBlock \notin BadBlocks
    BY DEF EraseBlock, EraseFail, PowerLossInErase, BlockFull
<1>2. /\ k = PagesPerBlock /\ page = PagesPerBlock
      /\ flash[h][0].version < mem.version
      /\ NextBlock # h /\ NextBlock \in Blocks
  <2>1. LastBlock = h
    BY LastBlockIs
  <2>2. ~RoundTheRing
    BY DEF EraseBlock, EraseFail, PowerLossInErase, Lapse
  <2> QED BY <1>1, <2>1, <2>2, FullBlock DEF RoundTheRing
<1>3. PICK b \in Blocks : b = NextBlock
    BY <1>2
<1>4. PICK pages : Wiped(b, pages)
  <2>1. CASE EraseBlock
    BY <2>1, <1>3, Erases DEF EraseBlock
  <2>2. CASE EraseFail
    BY <2>2, <1>3, Erases DEF EraseFail
  <2>3. CASE PowerLossInErase
    BY <2>3, <1>3, Erases DEF PowerLossInErase
  <2> QED BY <2>1, <2>2, <2>3
<1>5. h \in Heads' /\ IsLast(h)' /\ IsFilled(h, k, m)'
    BY <1>2, <1>3, <1>4, WipeKeepsLast
<1>6. flash'[h] = flash[h]
    BY <1>2, <1>3, <1>4, WipeKeeps
<1>7. Writing(h, k, m)
    BY <1>1 DEF Serving
<1>8. flash[h][0].version # mem.version
    BY <1>2
<1>9. CASE EraseBlock
  <2>1. /\ blk' = b /\ page' = 0 /\ mem' = mem /\ copies' = copies
        /\ pc' = "write" /\ flash'[b] = ErasedBlock
    BY <1>1, <1>3, <1>9 DEF EraseBlock, TypeOK
  <2>2. Beyond(h, k)'
    BY <2>1, <1>1, <1>2, <1>3, <1>6 DEF Beyond, GoodBlocks
  <2>3. Writing(h, k, m)'
    BY <2>1, <2>2, <1>2, <1>3, <1>6, <1>7, <1>8 DEF Writing
  <2>4. Serving(h, k, m)'
    BY <2>1, <2>3 DEF Serving
  <2> QED BY <2>4, <1>5, <1>6 DEF Stored
<1>10. CASE EraseFail
  <2>1. /\ blk' = b /\ page' = page /\ mem' = mem /\ copies' = copies /\ pc' = "write"
    BY <1>1, <1>3, <1>10 DEF EraseFail
  <2>2. Beyond(h, k)'
    BY <2>1, <1>2, <1>3, <1>6 DEF Beyond
  <2>3. Writing(h, k, m)'
    BY <2>1, <2>2, <1>2, <1>3, <1>6, <1>7, <1>8 DEF Writing
  <2>4. Serving(h, k, m)'
    BY <2>1, <2>3 DEF Serving
  <2> QED BY <2>4, <1>5, <1>6 DEF Stored
<1>11. CASE PowerLossInErase
  <2>1. pc' = "off"
    BY <1>11 DEF PowerLossInErase, Off
  <2>2. Serving(h, k, m)'
    BY <2>1 DEF Serving
  <2> QED BY <2>2, <1>5, <1>6 DEF Stored
<1> QED BY <1>9, <1>10, <1>11

\* Where the next page of a write is.
LEMMA NextProgram ==
    ASSUME TypeOK, pc = "write", page < PagesPerBlock,
           NEW h \in Heads, NEW k \in 1 .. PagesPerBlock, NEW m \in Pages, Stored(h, k, m)
    PROVE  /\ Writing(h, k, m) /\ page \in Pages
           /\ mem \in PageType /\ mem # Erased /\ mem # Junk /\ mem.kind = "data"
           /\ flash[h][m].version <= mem.version
           /\ flash[blk][page] = Erased
           /\ blk = h => page = k
           /\ blk # h => /\ k = PagesPerBlock /\ page = 0 /\ blk \in GoodBlocks
                         /\ flash[blk] = ErasedBlock
                         /\ flash[h][0].version < mem.version
<1> USE StoredFacts, Sizes
<1>1. Writing(h, k, m)
    BY DEF Serving
<1>2. page \in Pages
    BY DEF Pages
<1>3. mem \in PageType /\ mem.kind = "data"
    BY <1>1 DEF Writing, TypeOK
<1>4. mem # Erased /\ mem # Junk
    BY <1>3, NoStructure
<1>5. flash[h][m].version <= mem.version
    BY <1>1 DEF Writing
<1>6. CASE blk = h
  <2>1. page = k
    BY <1>1, <1>6 DEF Writing
  <2>2. flash[blk][page] = Erased
    BY <1>2, <1>6, <2>1 DEF IsFilled
  <2> QED BY <1>1, <1>2, <1>3, <1>4, <1>5, <1>6, <2>1, <2>2
<1>7. CASE blk # h
  <2>1. /\ k = PagesPerBlock /\ page = 0 /\ blk \in GoodBlocks
        /\ flash[blk] = ErasedBlock /\ flash[h][0].version < mem.version
    BY <1>1, <1>7 DEF Writing, Beyond
  <2>2. flash[blk][page] = Erased
    BY <2>1, <1>2 DEF ErasedBlock
  <2> QED BY <1>1, <1>2, <1>3, <1>4, <1>5, <1>7, <2>1, <2>2
<1> QED BY <1>6, <1>7

\* A program that fails, or is cut, uses a page and leaves the last structure.
LEMMA ProgramFailKeepsStored ==
    ASSUME TypeOK, ProgramFail, lapses' = {},
           NEW h \in Heads, NEW k \in 1 .. PagesPerBlock, NEW m \in Pages, Stored(h, k, m)
    PROVE  \E n \in 1 .. PagesPerBlock :
              h \in Heads' /\ Stored(h, n, m)' /\ flash'[h][m] = flash[h][m]
<1> USE StoredFacts, Sizes
<1>1. /\ pc = "write" /\ page < PagesPerBlock /\ page # 0
      /\ page' = page + 1 /\ ~HeadIsOnlyCopy
      /\ blk' = blk /\ mem' = mem /\ copies' = copies /\ pc' = "write"
    BY DEF ProgramFail
<1>2. Writing(h, k, m) /\ blk = h /\ page = k
    BY <1>1, NextProgram
<1>3. Stores(h, k, Junk)
    BY <1>2 DEF ProgramFail, Stores
<1>4. Junk # Erased /\ Junk \in PageType
  <2>1. "junk" # "erased"
    OBVIOUS
  <2> QED BY <2>1 DEF Junk, Erased, PageType
<1> PICK n \in Nat : n = k + 1
    OBVIOUS
<1>5. /\ h \in Heads' /\ IsLast(h)' /\ IsFilled(h, n, m)'
      /\ flash'[h][0] = flash[h][0] /\ flash'[h][m] = flash[h][m]
  <2>1. IsLast(h) /\ IsFilled(h, k, m) /\ k < PagesPerBlock
    BY <1>1, <1>2
  <2> HIDE StoredFacts, Sizes
  <2> QED BY <2>1, <1>3, <1>4, AppendKeepsLast
<1>6. Writing(h, n, m)'
  <2>1. flash[h][0].version = mem.version => page + 1 < PagesPerBlock
    BY <1>1, <1>2 DEF Writing, HeadIsOnlyCopy
  <2> QED BY <1>1, <1>2, <1>5, <2>1 DEF Writing
<1>7. Serving(h, n, m)'
    BY <1>1, <1>6 DEF Serving
<1>8. n \in 1 .. PagesPerBlock
    BY <1>1, <1>2
<1> QED BY <1>5, <1>7, <1>8 DEF Stored

LEMMA PowerLossInProgramKeepsStored ==
    ASSUME TypeOK, MadeByWrites, PowerLossInProgram,
           NEW h \in Heads, NEW k \in 1 .. PagesPerBlock, NEW m \in Pages, Stored(h, k, m)
    PROVE  \E n \in 1 .. PagesPerBlock :
              h \in Heads' /\ Stored(h, n, m)' /\ flash'[h][m] = flash[h][m]
<1> USE StoredFacts, Sizes
<1>1. /\ pc = "write" /\ page < PagesPerBlock /\ pc' = "off"
      /\ flash' = [flash EXCEPT ![blk][page] = Junk]
    BY DEF PowerLossInProgram, Off
<1>2. PICK b \in Blocks, p \in Pages : b = blk /\ p = page
    BY <1>1, NextProgram
<1>3. Junk # Erased /\ Junk \in PageType
  <2>1. "junk" # "erased"
    OBVIOUS
  <2> QED BY <2>1 DEF Junk, Erased, PageType
<1>4. CASE b = h
  <2>1. p = k
    BY <1>1, <1>2, <1>4, NextProgram
  <2>2. Stores(h, k, Junk)
    BY <1>1, <1>2, <1>4, <2>1 DEF Stores
  <2>3. k < PagesPerBlock /\ IsLast(h) /\ IsFilled(h, k, m)
    BY <1>1, <1>2, <2>1
  <2> PICK n \in Nat : n = k + 1
    OBVIOUS
  <2>4. h \in Heads' /\ IsLast(h)' /\ IsFilled(h, n, m)' /\ flash'[h][m] = flash[h][m]
    <3> HIDE StoredFacts, Sizes
    <3> QED BY <2>2, <2>3, <1>3, AppendKeepsLast
  <2>5. n \in 1 .. PagesPerBlock
    BY <2>3
  <2>6. Serving(h, n, m)'
    BY <1>1 DEF Serving
  <2> QED BY <2>4, <2>5, <2>6 DEF Stored
<1>5. CASE b # h
  <2>1. k = PagesPerBlock
    BY <1>1, <1>2, <1>5, NextProgram
  <2> DEFINE pages == [flash[b] EXCEPT ![p] = Junk]
  <2>2. Wiped(b, pages)
    <3>1. pages \in [Pages -> PageType]
      BY <1>3 DEF TypeOK
    <3>2. \A q \in Pages : pages[q] \in {flash[b][q], Erased, Junk}
      BY DEF TypeOK
    <3>3. flash' = [flash EXCEPT ![b] = pages]
      BY <1>1, <1>2
    <3> QED BY <3>1, <3>2, <3>3 DEF Wiped
  <2> HIDE DEF pages
  <2>3. h \in Heads' /\ IsLast(h)' /\ IsFilled(h, k, m)'
    BY <2>2, <1>5, WipeKeepsLast
  <2>4. flash'[h] = flash[h]
    BY <2>2, <1>5, WipeKeeps
  <2>5. Serving(h, k, m)'
    BY <1>1 DEF Serving
  <2> QED BY <2>3, <2>4, <2>5 DEF Stored
<1> QED BY <1>4, <1>5

\* After a program init finds what was written.  When the write returns the other
\* copy is where it was.
LEMMA ProgramStores ==
    ASSUME TypeOK, MadeByWrites, Program,
           NEW h \in Heads, NEW k \in 1 .. PagesPerBlock, NEW m \in Pages, Stored(h, k, m)
    PROVE  /\ \E l \in Heads', n \in 1 .. PagesPerBlock, q \in Pages :
                Stored(l, n, q)' /\ flash'[l][q] = mem
           /\ pc' = "idle" =>
                /\ page \in Pages /\ <<h, m>> # <<blk, page>>
                /\ flash'[h][m] = mem /\ flash'[blk][page] = mem
<1> USE StoredFacts, Sizes
<1>1. /\ pc = "write" /\ page < PagesPerBlock
      /\ page' = page + 1 /\ copies' = copies + 1
      /\ blk' = blk /\ mem' = mem
      /\ pc' = IF copies + 1 < 2 THEN "write" ELSE "idle"
    BY DEF Program, CopiesNeeded
<1>2. /\ Writing(h, k, m) /\ page \in Pages
      /\ mem \in PageType /\ mem # Erased /\ mem.kind = "data"
      /\ flash[h][m].version <= mem.version
      /\ flash[blk][page] = Erased
    BY <1>1, NextProgram
<1>3. flash' = [flash EXCEPT ![blk][page] = mem]
    BY <1>2 DEF Program, Programmed
<1>4. PICK b \in Blocks, p \in Pages, d \in PageType : b = blk /\ p = page /\ d = mem
    BY <1>2
<1>5. \/ copies = 0 /\ pc' = "write" /\ copies' = 1 /\ flash[h][m].version < d.version
      \/ copies = 1 /\ pc' = "idle" /\ flash[h][m] = d
  <2>1. CASE copies = 0
    BY <2>1, <1>1, <1>2, <1>4 DEF Writing
  <2>2. CASE copies # 0
    <3>1. copies = 1 /\ flash[h][m] = d
      BY <2>2, <1>2, <1>4 DEF Writing
    <3> QED BY <3>1, <1>1
  <2> QED BY <2>1, <2>2
<1>6. CASE b = h
  <2>1. p = k /\ Stores(h, k, d) /\ k < PagesPerBlock
    BY <1>1, <1>3, <1>4, <1>6, NextProgram DEF Stores
  <2> PICK n \in Nat : n = k + 1
    OBVIOUS
  <2>2. /\ h \in Heads' /\ IsLast(h)' /\ IsFilled(h, n, k)'
        /\ flash'[h][0] = flash[h][0] /\ flash'[h][m] = flash[h][m] /\ flash'[h][k] = d
    <3>1. /\ IsLast(h) /\ IsFilled(h, k, m) /\ d # Erased /\ d.kind = "data"
          /\ d.version >= flash[h][m].version
      BY <1>2, <1>4
    <3> HIDE StoredFacts, Sizes
    <3> QED BY <2>1, <3>1, AppendKeepsLast
  <2>3. n \in 1 .. PagesPerBlock /\ k \in Pages
    BY <2>1 DEF Pages
  <2>4. CASE copies = 0
    <3>1. pc' = "write" /\ copies' = 1 /\ flash[h][0].version < d.version
      <4>1. flash[h][m].version < d.version /\ d.version \in Nat
        BY <2>4, <1>5, VersionType
      <4> QED BY <4>1, <2>4, <1>5
    <3>2. mem' = d /\ blk' = h /\ page' = n /\ d.kind = "data"
      BY <1>1, <1>2, <1>4, <1>6, <2>1
    <3>3. flash'[h][0].version # mem'.version
      BY <3>1, <3>2, <2>2
    <3>4. Writing(h, n, k)'
      BY <3>1, <3>2, <3>3, <2>2 DEF Writing
    <3>5. Serving(h, n, k)'
      BY <3>1, <3>4 DEF Serving
    <3> QED BY <3>1, <3>5, <2>2, <2>3, <1>4 DEF Stored
  <2>5. CASE copies # 0
    <3>1. pc' = "idle" /\ flash[h][m] = d
      BY <2>5, <1>5
    <3>2. mem' = d /\ blk' = h /\ page' = n
      BY <1>1, <1>4, <1>6, <2>1
    <3>3. Serving(h, n, k)'
      BY <3>1, <3>2, <2>2 DEF Serving
    <3>4. m # k
      BY DEF IsFilled
    <3>5. Stored(h, n, k)'
      BY <3>3, <2>2 DEF Stored
    <3> QED BY <3>1, <3>4, <3>5, <2>1, <2>2, <2>3, <1>4, <1>6
  <2> QED BY <2>4, <2>5
<1>7. CASE b # h
  <2>1. /\ p = 0 /\ b \in GoodBlocks /\ flash[b] = ErasedBlock
        /\ flash[h][0].version < d.version /\ flash[h][m].version <= d.version
        /\ flash' = [flash EXCEPT ![b][0] = d]
    BY <1>1, <1>2, <1>3, <1>4, <1>7, NextProgram
  <2>2. ASSUME NEW c \in GoodBlocks, NEW q \in Pages, IsData(c, q)
        PROVE  flash[c][q].version <= d.version
    <3>1. flash[c][q].version \in Nat /\ d.version \in Nat
      BY PageFacts, VersionType
    <3>2. flash[c][q].version <= flash[h][0].version \/ flash[c][q].version <= flash[h][m].version
      BY <2>2 DEF IsLast, IsFilled
    <3> QED BY <3>1, <3>2, <2>1
  <2>3. ASSUME NEW c \in Heads PROVE flash[c][0].version < d.version
    <3>1. flash[c][0].version \in Nat /\ d.version \in Nat
      BY PageFacts, VersionType DEF Heads
    <3>2. c = h \/ flash[c][0].version < flash[h][0].version
      BY DEF IsLast
    <3> QED BY <3>1, <3>2, <2>1
  <2>4. d.kind = "data"
    BY <1>2, <1>4
  <2>5. b \in Heads' /\ IsLast(b)' /\ IsFilled(b, 1, 0)' /\ flash'[b][0] = d
    BY <2>1, <2>2, <2>3, <2>4, HeadBecomesLast
  <2>6. mem' = d /\ blk' = b /\ page' = 1 /\ 1 < PagesPerBlock
    BY <1>1, <1>4, <2>1
  <2>7. Serving(b, 1, 0)'
    <3>1. CASE copies = 0
      <4>1. pc' = "write" /\ copies' = 1
        BY <3>1, <1>5
      <4>2. Writing(b, 1, 0)'
        BY <4>1, <2>4, <2>5, <2>6 DEF Writing
      <4> QED BY <4>1, <4>2 DEF Serving
    <3>2. CASE copies # 0
      <4>1. pc' = "idle"
        BY <3>2, <1>5
      <4> QED BY <4>1, <2>5, <2>6 DEF Serving
    <3> QED BY <3>1, <3>2
  <2>8. Stored(b, 1, 0)' /\ 1 \in 1 .. PagesPerBlock
    BY <2>5, <2>7 DEF Stored
  <2>9. flash'[h] = flash[h]
    BY <2>1, <1>7 DEF TypeOK
  <2>10. pc' = "idle" => flash'[h][m] = d
    BY <2>9, <1>5
  <2> QED BY <2>1, <2>5, <2>8, <2>10, <1>4, <1>7
<1> QED BY <1>6, <1>7

-----------------------------------------------------------------------------
(* Steps of a storage that holds no structure *)

LEMMA FormatFacts ==
    ASSUME TypeOK, Heads = {}, Formatting
    PROVE  /\ pc # "idle"
           /\ pc = "write" => page < PagesPerBlock /\ ~BlockFull
BY Sizes DEF Formatting, BlockFull

\* What an erase of formatting does to the flash.
LEMMA FormatErases ==
    ASSUME TypeOK, FormatErase \/ FormatEraseFail \/ PowerLossInFormat
    PROVE  flash' = flash \/ \E b \in Blocks : \E pages : Wiped(b, pages)
<1> USE Sizes
<1>1. FormatTarget \subseteq Blocks
    BY DEF FormatTarget
<1>2. CASE FormatErase
  <2>1. CASE FormatTarget = {}
    BY <1>2, <2>1 DEF FormatErase, TypeOK
  <2>2. CASE FormatTarget # {}
    <3>1. PICK t \in Blocks : FormatTarget = {t}
      BY <2>2, <1>1 DEF FormatTarget
    <3>2. flash' = [flash EXCEPT ![t] = ErasedBlock]
      BY <1>2, <3>1 DEF FormatErase, TypeOK
    <3> QED BY <3>2, Erases
  <2> QED BY <2>1, <2>2
<1>3. CASE FormatEraseFail
    BY <1>1, <1>3, Erases DEF FormatEraseFail
<1>4. CASE PowerLossInFormat
    BY <1>1, <1>4, Erases DEF PowerLossInFormat
<1> QED BY <1>2, <1>3, <1>4

\* Nothing that has no structure becomes one.
LEMMA NoHeads ==
    ASSUME \A b \in Blocks, p \in Pages : ~(IsData(b, p)')
    PROVE  Heads' = {}
BY Sizes DEF Heads, IsData

\* Until the first program the flash holds no structure.
LEMMA FormatKeeps ==
    ASSUME TypeOK, MadeByWrites, Heads = {}, Formatting, [Next]_vars, ~Program, lapses' = {}
    PROVE  Heads' = {} /\ Formatting'
<1> USE Sizes, FormatFacts
<1>1. \A b \in Blocks, p \in Pages : ~IsData(b, p)
    BY DEF Formatting
<1>2. ASSUME flash' = flash
      PROVE  Heads' = {} /\ \A b \in Blocks, p \in Pages : ~(IsData(b, p)')
    BY <1>1, <1>2, SameFlash DEF IsData
<1>3. ASSUME NEW b \in Blocks, NEW pages, Wiped(b, pages)
      PROVE  Heads' = {} /\ \A c \in Blocks, p \in Pages : ~(IsData(c, p)')
  <2>1. \A c \in Blocks, p \in Pages : ~(IsData(c, p)')
    BY <1>1, <1>3, WipeKeeps
  <2> QED BY <2>1, NoHeads
<1>4. CASE BootEmpty
  <2>1. /\ flash' = flash /\ blk' \in GoodBlocks /\ page' = 0 /\ mem' = Data(1, 0)
        /\ pc' = "format"
    BY <1>4, FirstGoodIs DEF BootEmpty
  <2> QED BY <2>1, <1>2 DEF Formatting, Data
<1>5. CASE FormatErase \/ FormatEraseFail
  <2>1. /\ pc = "format" /\ pc' = "format"
        /\ blk' = blk /\ page' = page /\ mem' = mem
    BY <1>5 DEF FormatErase, FormatEraseFail
  <2>2. blk \in GoodBlocks /\ page = 0 /\ mem = Data(1, 0)
    BY <2>1 DEF Formatting
  <2>3. Heads' = {} /\ \A c \in Blocks, p \in Pages : ~(IsData(c, p)')
    BY <1>2, <1>3, <1>5, FormatErases
  <2> QED BY <2>1, <2>2, <2>3 DEF Formatting, Data
<1>7. CASE FormatWrite
  <2>1. /\ flash' = flash /\ pc = "format" /\ pc' = "write" /\ copies' = 0
        /\ blk' = blk /\ page' = page /\ mem' = mem /\ flash[blk] = ErasedBlock
    BY <1>7 DEF FormatWrite, Lapse
  <2>2. blk \in GoodBlocks /\ page = 0 /\ mem = Data(1, 0)
    BY <2>1 DEF Formatting
  <2> QED BY <2>1, <2>2, <1>2 DEF Formatting, Data
<1>8. CASE PowerLoss
  <2>1. flash' = flash /\ pc' = "off"
    BY <1>8 DEF PowerLoss, Off
  <2> QED BY <2>1, <1>2 DEF Formatting
<1>9. CASE PowerLossInProgram
  <2>1. pc' = "off" /\ pc = "write" /\ flash' = [flash EXCEPT ![blk][page] = Junk]
    BY <1>9 DEF PowerLossInProgram, Off
  <2>2. blk \in Blocks /\ page \in Pages
    BY <2>1 DEF Formatting
  <2>3. \A b \in Blocks, p \in Pages : flash'[b][p] = flash[b][p] \/ flash'[b][p] = Junk
    BY <2>1, <2>2 DEF TypeOK
  <2>4. \A b \in Blocks, p \in Pages : ~(IsData(b, p)')
    BY <2>3, <1>1, NoStructure DEF IsData
  <2> QED BY <2>1, <2>4, NoHeads DEF Formatting
<1>10. CASE PowerLossInFormat
  <2>1. pc' = "off"
    BY <1>10 DEF PowerLossInFormat, Off
  <2>2. Heads' = {} /\ \A c \in Blocks, p \in Pages : ~(IsData(c, p)')
    BY <1>2, <1>3, <1>10, FormatErases
  <2> QED BY <2>1, <2>2 DEF Formatting
<1>11. CASE UNCHANGED vars
    BY <1>11, SameFlash DEF Formatting, vars, IsData
<1>12. ~Boot
    BY DEF Boot
<1>13. ~Write
    BY DEF Write
<1>14. ~Loop /\ ~PowerLossInErase
  <2>1. ~SkipBadBlock /\ ~EraseBlock /\ ~EraseFail /\ ~PowerLossInErase
    BY DEF SkipBadBlock, EraseBlock, EraseFail, PowerLossInErase, BlockFull
  <2>2. ~ProgramFail
    BY DEF ProgramFail, Formatting
  <2> QED BY <2>1, <2>2 DEF Loop
<1> QED BY <1>4, <1>5, <1>7, <1>8, <1>9, <1>10, <1>11, <1>12, <1>13, <1>14 DEF Next

\* The first program makes the flash hold the structure without items.
LEMMA FirstProgram ==
    ASSUME TypeOK, Heads = {}, Formatting, Program
    PROVE  \E b \in Heads' : /\ Stored(b, 1, 0)'
                             /\ flash'[b][0] = mem /\ pc' = "write"
<1> USE Sizes
<1>1. /\ pc = "write" /\ page' = page + 1 /\ copies' = copies + 1
      /\ blk' = blk /\ mem' = mem
      /\ flash' = [flash EXCEPT ![blk][page] = Programmed]
      /\ pc' = IF copies + 1 < 2 THEN "write" ELSE "idle"
    BY DEF Program, CopiesNeeded
<1>2. PICK b \in GoodBlocks : b = blk
    BY <1>1 DEF Formatting
<1>3. page = 0 /\ mem = Data(1, 0) /\ copies = 0 /\ flash[b] = ErasedBlock
    BY <1>1, <1>2 DEF Formatting
<1>4. Programmed = mem
    BY <1>2, <1>3 DEF Programmed, ErasedBlock
<1>5. PICK d \in PageType : d = mem
    BY DEF TypeOK
<1>6. flash' = [flash EXCEPT ![b][0] = d]
    BY <1>1, <1>2, <1>3, <1>4, <1>5
<1>7. d.kind = "data"
    BY <1>3, <1>5 DEF Data
<1>8. \A c \in GoodBlocks : \A p \in Pages : ~IsData(c, p)
    BY DEF Formatting
<1>9. b \in Heads' /\ IsLast(b)' /\ IsFilled(b, 1, 0)' /\ flash'[b][0] = d
    BY <1>3, <1>6, <1>7, <1>8, HeadBecomesLast
<1>10. copies' = 1 /\ pc' = "write" /\ page' = 1 /\ blk' = b /\ mem' = d
    BY <1>1, <1>2, <1>3, <1>5
<1>11. Writing(b, 1, 0)'
    BY <1>7, <1>9, <1>10 DEF Writing
<1>12. Serving(b, 1, 0)'
    BY <1>10, <1>11 DEF Serving
<1> QED BY <1>5, <1>9, <1>10, <1>12 DEF Stored

-----------------------------------------------------------------------------
(* The invariant is inductive *)

LEMMA StepType ==
    ASSUME MInv, [Next]_vars
    PROVE  TypeOK' /\ MadeByWrites'
<1> USE Sizes
<1>0. TypeOK /\ MadeByWrites /\ CopiesLeft /\ lapses' \subseteq LapseNames
    BY LapsesStay DEF MInv, TypeOK
<1>1. /\ Erased \in PageType \ {Junk} /\ Junk \in PageType /\ Known(Junk) /\ Known(Erased)
  <2>1. "erased" # "junk"
    OBVIOUS
  <2> QED BY <2>1, <1>0, NoStructure DEF Erased, Junk
<1>2. NextBlock \in Blocks
    BY <1>0 DEF NextBlock, TypeOK, Blocks
<1>3. ASSUME NEW b \in Blocks, NEW pages, Wiped(b, pages)
      PROVE  /\ flash' \in [Blocks -> [Pages -> PageType]]
             /\ \A c \in Blocks, q \in Pages : Known(flash'[c][q])
    BY <1>0, <1>3, WipeKeeps
<1>4. ASSUME NEW d \in PageType, Known(d), page < PagesPerBlock,
             flash' = [flash EXCEPT ![blk][page] = d]
      PROVE  /\ flash' \in [Blocks -> [Pages -> PageType]]
             /\ \A c \in Blocks, q \in Pages : Known(flash'[c][q])
  <2>1. page \in Pages /\ blk \in Blocks
    BY <1>0, <1>4 DEF TypeOK, Pages
  <2> QED BY <2>1, <1>0, <1>4, StoreType
<1>5. ASSUME Off,
             flash' \in [Blocks -> [Pages -> PageType]],
             \A c \in Blocks, q \in Pages : Known(flash'[c][q])
      PROVE  TypeOK' /\ MadeByWrites'
  <2>1. TypeOK'
    BY <1>0, <1>1, <1>5 DEF TypeOK, Off
  <2>2. MadeByWrites'
    BY <1>0, <1>1, <1>5 DEF MadeByWrites, Off, Known
  <2> QED BY <2>1, <2>2
<1>6. CASE Boot
  <2>1. /\ blk' \in Blocks /\ page' \in 0 .. PagesPerBlock
        /\ mem' \in PageType \ {Junk} /\ Known(mem')
    BY <1>0, <1>6, FoundType DEF Boot
  <2>2. TypeOK'
    BY <1>0, <1>6, <2>1 DEF Boot, TypeOK
  <2>3. MadeByWrites'
    BY <1>0, <1>6, <2>1 DEF Boot, MadeByWrites, Known
  <2> QED BY <2>2, <2>3
<1>7. CASE BootEmpty
  <2>1. FirstGood \in Blocks
    BY FirstGoodIs
  <2>2. Data(1, 0) \in PageType \ {Junk}
    <3>1. "data" # "junk"
      OBVIOUS
    <3> QED BY <3>1 DEF Data, PageType, Versions, Junk
  <2>3. TypeOK'
    BY <1>0, <1>7, <2>1, <2>2 DEF BootEmpty, TypeOK
  <2>4. MadeByWrites'
    BY <1>0, <1>7 DEF BootEmpty, MadeByWrites, Known, Data, TypeOK
  <2> QED BY <2>3, <2>4
<1>8. CASE FormatErase \/ FormatEraseFail \/ PowerLossInFormat
  <2>1. flash' = flash \/ \E b \in Blocks : \E pages : Wiped(b, pages)
    BY <1>0, <1>8, FormatErases
  <2>2. /\ flash' \in [Blocks -> [Pages -> PageType]]
        /\ \A c \in Blocks, q \in Pages : Known(flash'[c][q])
    BY <1>0, <1>3, <2>1 DEF TypeOK, MadeByWrites
  <2>3. CASE FormatErase \/ FormatEraseFail
    <3>1. /\ scan' \in 0 .. NumBlocks /\ faults' \in 0 .. MaxFaults
          /\ blk' = blk /\ page' = page /\ mem' = mem /\ copies' = copies /\ pc' = pc
          /\ writes' = writes
      BY <1>0, <2>3 DEF FormatErase, FormatEraseFail, TypeOK
    <3>2. TypeOK'
      BY <1>0, <2>2, <3>1 DEF TypeOK
    <3> QED BY <1>0, <2>2, <3>1, <3>2 DEF MadeByWrites, Known
  <2>4. CASE PowerLossInFormat
    BY <2>2, <2>4, <1>5 DEF PowerLossInFormat
  <2> QED BY <1>8, <2>3, <2>4
<1>9. CASE FormatWrite
  <2>1. TypeOK'
    BY <1>0, <1>9 DEF FormatWrite, TypeOK
  <2> QED BY <1>0, <1>9, <2>1 DEF FormatWrite, MadeByWrites, Known
<1>10. CASE Write
  <2>1. /\ writes' = writes + 1 /\ writes' \in 0 .. MaxWrites /\ flash' = flash
        /\ mem' = Data(mem.version + 1, writes + 1)
        /\ blk' = blk /\ page' = page /\ scan' = scan /\ faults' = faults
        /\ copies' = 0 /\ pc' = "write"
    BY <1>0, <1>10 DEF Write, TypeOK
  <2>2. mem.version \in Nat /\ mem.version <= writes + 1
    BY <1>0, VersionType DEF TypeOK, MadeByWrites, Known
  <2>3. mem.version + 1 \in Versions /\ writes + 1 \in 0 .. MaxWrites
    BY <1>0, <2>1, <2>2 DEF Versions, TypeOK
  <2>4. mem' \in PageType \ {Junk} /\ mem'.version <= writes' + 1 /\ mem'.items <= writes'
    <3>1. "data" # "junk"
      OBVIOUS
    <3>2. mem' \in PageType \ {Junk}
      BY <2>1, <2>3, <3>1 DEF Data, PageType, Junk
    <3>3. mem'.version = mem.version + 1 /\ mem'.items = writes + 1
      BY <2>1 DEF Data
    <3> QED BY <2>1, <2>2, <2>3, <3>2, <3>3
  <2>5. TypeOK'
    BY <1>0, <2>1, <2>4 DEF TypeOK
  <2>6. ASSUME NEW b \in Blocks, NEW p \in Pages
        PROVE  flash[b][p].version <= writes + 2 /\ flash[b][p].items <= writes + 1
    <3>1. flash[b][p].version <= writes + 1 /\ flash[b][p].items <= writes
      BY <1>0 DEF MadeByWrites, Known
    <3>2. flash[b][p].version \in Nat /\ flash[b][p].items \in Nat
      <4>1. flash[b][p] \in PageType
        BY <1>0, PageFacts
      <4> QED BY <4>1 DEF PageType, Versions, Erased, Junk
    <3>3. writes \in Nat
      BY <1>0 DEF TypeOK
    <3> QED BY <3>1, <3>2, <3>3
  <2>7. MadeByWrites'
    <3>1. writes' + 1 = writes + 2 /\ writes' = writes + 1
      BY <1>0, <2>1 DEF TypeOK
    <3> QED BY <2>1, <2>4, <2>6, <3>1 DEF MadeByWrites, Known
  <2> QED BY <2>5, <2>7
<1>11. CASE SkipBadBlock
  <2>1. TypeOK'
    BY <1>0, <1>2, <1>11 DEF SkipBadBlock, TypeOK
  <2> QED BY <1>0, <1>11, <2>1 DEF SkipBadBlock, MadeByWrites, Known
<1>12. CASE EraseBlock \/ EraseFail \/ PowerLossInErase
  <2>1. PICK b \in Blocks : \E pages : Wiped(b, pages)
    <3>1. CASE EraseBlock
      BY <1>0, <1>2, <3>1, Erases DEF EraseBlock
    <3>2. CASE EraseFail
      BY <1>0, <1>2, <3>2, Erases DEF EraseFail
    <3>3. CASE PowerLossInErase
      BY <1>0, <1>2, <3>3, Erases DEF PowerLossInErase
    <3> QED BY <1>12, <3>1, <3>2, <3>3
  <2>2. /\ flash' \in [Blocks -> [Pages -> PageType]]
        /\ \A c \in Blocks, q \in Pages : Known(flash'[c][q])
    BY <1>3, <2>1
  <2>3. CASE EraseBlock \/ EraseFail
    <3>1. /\ blk' \in Blocks /\ page' \in 0 .. PagesPerBlock /\ faults' \in 0 .. MaxFaults
          /\ scan' = scan /\ mem' = mem /\ copies' = copies /\ pc' = pc
          /\ writes' = writes
      BY <1>0, <1>2, <2>3 DEF EraseBlock, EraseFail, TypeOK
    <3>2. TypeOK'
      BY <1>0, <2>2, <3>1 DEF TypeOK
    <3> QED BY <1>0, <2>2, <3>1, <3>2 DEF MadeByWrites, Known
  <2>4. CASE PowerLossInErase
    BY <2>2, <2>4, <1>5 DEF PowerLossInErase
  <2> QED BY <1>12, <2>3, <2>4
<1>13. CASE Program
  <2>1. Programmed \in PageType /\ Known(Programmed)
    BY <1>0, <1>1 DEF Programmed, TypeOK, MadeByWrites
  <2>2. /\ flash' \in [Blocks -> [Pages -> PageType]]
        /\ \A c \in Blocks, q \in Pages : Known(flash'[c][q])
    BY <1>4, <1>13, <2>1 DEF Program
  <2>3. copies \in {0, 1}
    BY <1>0, <1>13 DEF CopiesLeft, Program
  <2>4. /\ page' \in 0 .. PagesPerBlock /\ copies' \in 0 .. 2
        /\ pc' \in {"write", "idle"}
        /\ blk' = blk /\ mem' = mem /\ scan' = scan /\ writes' = writes /\ faults' = faults
    BY <1>0, <1>13, <2>3 DEF Program, TypeOK
  <2>5. TypeOK'
    BY <1>0, <2>2, <2>4 DEF TypeOK
  <2> QED BY <1>0, <2>2, <2>4, <2>5 DEF MadeByWrites, Known
<1>14. CASE ProgramFail
  <2>1. /\ flash' \in [Blocks -> [Pages -> PageType]]
        /\ \A c \in Blocks, q \in Pages : Known(flash'[c][q])
    BY <1>1, <1>4, <1>14 DEF ProgramFail
  <2>2. /\ page' \in 0 .. PagesPerBlock /\ faults' \in 0 .. MaxFaults
        /\ blk' = blk /\ mem' = mem /\ scan' = scan /\ writes' = writes /\ copies' = copies
        /\ pc' = pc
    BY <1>0, <1>14 DEF ProgramFail, TypeOK
  <2>3. TypeOK'
    BY <1>0, <2>1, <2>2 DEF TypeOK
  <2> QED BY <1>0, <2>1, <2>2, <2>3 DEF MadeByWrites, Known
<1>15. CASE PowerLoss
    BY <1>0, <1>5, <1>15 DEF PowerLoss, TypeOK, MadeByWrites
<1>16. CASE PowerLossInProgram
  <2>1. /\ flash' \in [Blocks -> [Pages -> PageType]]
        /\ \A c \in Blocks, q \in Pages : Known(flash'[c][q])
    BY <1>1, <1>4, <1>16 DEF PowerLossInProgram
  <2> QED BY <2>1, <1>5, <1>16 DEF PowerLossInProgram
<1>17. CASE UNCHANGED vars
    BY <1>0, <1>17 DEF vars, TypeOK, MadeByWrites, Known
<1> QED BY <1>6, <1>7, <1>8, <1>9, <1>10, <1>11, <1>12, <1>13, <1>14, <1>15, <1>16, <1>17
        DEF Next, Loop

\* Every step but a program that succeeds leaves what init finds as it is.
LEMMA StepKeepsStored ==
    ASSUME TypeOK, MadeByWrites, [Next]_vars, ~Program, lapses' = {},
           NEW h \in Heads, NEW k \in 1 .. PagesPerBlock, NEW m \in Pages, Stored(h, k, m)
    PROVE  \E n \in 1 .. PagesPerBlock :
              h \in Heads' /\ Stored(h, n, m)' /\ flash'[h][m] = flash[h][m]
<1>1. CASE Boot
    BY <1>1, StartKeepsStored
<1>2. CASE Write
    BY <1>2, WriteKeepsStored
<1>3. CASE SkipBadBlock
    BY <1>3, SkipKeepsStored
<1>4. CASE EraseBlock \/ EraseFail \/ PowerLossInErase
    BY <1>4, EraseKeepsStored
<1>5. CASE ProgramFail
    BY <1>5, ProgramFailKeepsStored
<1>6. CASE PowerLoss
    BY <1>6, PowerLossKeepsStored
<1>7. CASE PowerLossInProgram
    BY <1>7, PowerLossInProgramKeepsStored
<1>8. CASE UNCHANGED vars
    BY <1>8, StutterKeepsStored
<1>9. ~BootEmpty /\ ~FormatErase /\ ~FormatEraseFail /\ ~FormatWrite /\ ~PowerLossInFormat
  <2>1. pc # "format"
    BY DEF Stored, Serving
  <2> QED BY <2>1 DEF BootEmpty, FormatErase, FormatEraseFail, FormatWrite, PowerLossInFormat
<1> QED BY <1>1, <1>2, <1>3, <1>4, <1>5, <1>6, <1>7, <1>8, <1>9 DEF Next, Loop

LEMMA StepCopies ==
    ASSUME TypeOK, CopiesLeft, [Next]_vars
    PROVE  CopiesLeft'
<1> USE DEF CopiesLeft
<1>1. CASE Boot \/ BootEmpty \/ FormatErase \/ FormatEraseFail \/ FormatWrite \/ Write
    BY <1>1 DEF Boot, BootEmpty, FormatErase, FormatEraseFail, FormatWrite, Write
<1>2. CASE SkipBadBlock \/ EraseBlock \/ EraseFail \/ ProgramFail
    BY <1>2 DEF SkipBadBlock, EraseBlock, EraseFail, ProgramFail, BlockFull
<1>3. CASE Program
    BY <1>3 DEF Program, CopiesNeeded
<1>4. CASE PowerLoss \/ PowerLossInProgram \/ PowerLossInErase \/ PowerLossInFormat
    BY <1>4 DEF PowerLoss, PowerLossInProgram, PowerLossInErase, PowerLossInFormat, Off
<1>5. CASE UNCHANGED vars
    BY <1>5 DEF vars
<1> QED BY <1>1, <1>2, <1>3, <1>4, <1>5 DEF Next, Loop

LEMMA StepMInv ==
    ASSUME MInv, [Next]_vars
    PROVE  MInv'
<1>1. /\ TypeOK /\ MadeByWrites /\ CopiesLeft
      /\ TypeOK' /\ MadeByWrites' /\ CopiesLeft'
    BY StepType, StepCopies DEF MInv
<1>2. CASE lapses' # {}
    BY <1>1, <1>2 DEF MInv
<1>3. CASE lapses' = {}
  <2>0. lapses = {}
    BY <1>3, LapsesStay
  <2>1. CASE Heads = {}
    <3>1. Formatting
      BY <2>0, <2>1 DEF MInv
    <3>2. CASE Program
      <4>1. \E b \in Heads' : Stored(b, 1, 0)'
        BY <1>1, <2>1, <3>1, <3>2, FirstProgram
      <4>2. 1 \in 1 .. PagesPerBlock /\ 0 \in Pages
        BY Sizes
      <4> QED BY <1>1, <4>1, <4>2 DEF MInv
    <3>3. CASE ~Program
      BY <1>1, <1>3, <2>1, <3>1, <3>3, FormatKeeps DEF MInv
    <3> QED BY <3>2, <3>3
  <2>2. CASE Heads # {}
    <3>1. PICK h \in Heads, k \in 1 .. PagesPerBlock, m \in Pages : Stored(h, k, m)
      BY <2>0, <2>2 DEF MInv
    <3>2. \E l \in Heads', n \in 1 .. PagesPerBlock, q \in Pages : Stored(l, n, q)'
      <4>1. CASE Program
        BY <1>1, <3>1, <4>1, ProgramStores
      <4>2. CASE ~Program
        BY <1>1, <1>3, <3>1, <4>2, StepKeepsStored
      <4> QED BY <4>1, <4>2
    <3> QED BY <1>1, <3>2 DEF MInv
  <2> QED BY <2>1, <2>2
<1> QED BY <1>2, <1>3

-----------------------------------------------------------------------------
(* The safety properties follow *)

LEMMA NothingNewerHolds == MInv => NothingNewer
<1> SUFFICES ASSUME MInv, lapses = {}, pc = "idle",
                    NEW b \in GoodBlocks, NEW p \in Pages, IsData(b, p)
             PROVE  flash[b][p].version <= mem.version
    BY DEF NothingNewer
<1> USE Sizes
<1>1. TypeOK /\ Heads # {}
    BY DEF MInv, Formatting
<1>2. PICK h \in Heads, k \in 1 .. PagesPerBlock, m \in Pages : Stored(h, k, m)
    BY <1>1 DEF MInv
<1>3. IsLast(h) /\ IsFilled(h, k, m) /\ mem = flash[h][m]
    BY <1>2 DEF Stored, Serving
<1>4. CASE b = h
    BY <1>3, <1>4 DEF IsFilled
<1>5. CASE b # h
  <2>1. flash[b][p].version <= flash[h][0].version
    BY <1>3, <1>5 DEF IsLast
  <2>2. /\ flash[h][0].version <= flash[h][m].version
        /\ flash[h][0].version \in Nat /\ flash[h][m].version \in Nat
    BY <1>1, <1>2, StoredFacts
  <2>3. flash[b][p].version \in Nat
    BY <1>1, PageFacts
  <2> QED BY <1>3, <2>1, <2>2, <2>3
<1> QED BY <1>4, <1>5

LEMMA ProgramsInOrderHolds == MInv => ProgramsInOrder
<1> SUFFICES ASSUME MInv, lapses = {}, pc = "write", page < PagesPerBlock
             PROVE  /\ flash[blk][page] = Erased
                    /\ \A q \in 0 .. page - 1 : flash[blk][q] # Erased
    BY DEF ProgramsInOrder
<1> USE Sizes
<1>1. TypeOK
    BY DEF MInv
<1>2. CASE Heads = {}
  <2>1. page = 0 /\ flash[blk] = ErasedBlock
    BY <1>2 DEF MInv, Formatting
  <2> QED BY <2>1, Sizes DEF ErasedBlock
<1>3. CASE Heads # {}
  <2>1. PICK h \in Heads, k \in 1 .. PagesPerBlock, m \in Pages : Stored(h, k, m)
    BY <1>3 DEF MInv
  <2>2. /\ flash[blk][page] = Erased
        /\ blk = h => page = k
        /\ blk # h => page = 0
    BY <1>1, <2>1, NextProgram
  <2>3. IsFilled(h, k, m)
    BY <2>1 DEF Stored
  <2>4. \A q \in 0 .. page - 1 : flash[blk][q] # Erased
    BY <1>1, <2>2, <2>3 DEF IsFilled, Pages
  <2> QED BY <2>2, <2>4
<1> QED BY <1>2, <1>3

LEMMA StepReturns ==
    ASSUME MInv, [Next]_vars, lapses' = {}, pc = "write", pc' = "idle"
    PROVE  Cardinality({c \in Blocks \X Pages : flash'[c[1]][c[2]] = mem}) >= 2
<1> DEFINE S == {c \in Blocks \X Pages : flash'[c[1]][c[2]] = mem}
<1>1. Program
  <2>1. ~Boot /\ ~BootEmpty /\ ~FormatErase /\ ~FormatEraseFail /\ ~FormatWrite /\ ~Write
    BY DEF Boot, BootEmpty, FormatErase, FormatEraseFail, FormatWrite, Write
  <2>2. ~SkipBadBlock /\ ~EraseBlock /\ ~EraseFail /\ ~ProgramFail
    BY DEF SkipBadBlock, EraseBlock, EraseFail, ProgramFail
  <2>3. ~PowerLoss /\ ~PowerLossInProgram /\ ~PowerLossInErase /\ ~PowerLossInFormat
    BY DEF PowerLoss, PowerLossInProgram, PowerLossInErase, PowerLossInFormat, Off
  <2>4. ~UNCHANGED vars
    BY DEF vars
  <2> QED BY <2>1, <2>2, <2>3, <2>4 DEF Next, Loop
<1>2. TypeOK /\ MadeByWrites /\ lapses = {}
    BY LapsesStay DEF MInv
<1>3. Heads # {}
  <2>1. ASSUME Heads = {} PROVE FALSE
    <3>1. pc' = "write"
      BY <1>1, <1>2, <2>1, FirstProgram DEF MInv
    <3> QED BY <3>1
  <2> QED BY <2>1
<1>4. PICK h \in Heads, k \in 1 .. PagesPerBlock, m \in Pages : Stored(h, k, m)
    BY <1>2, <1>3 DEF MInv
<1>5. /\ page \in Pages /\ <<h, m>> # <<blk, page>>
      /\ flash'[h][m] = mem /\ flash'[blk][page] = mem
    BY <1>1, <1>2, <1>4, ProgramStores
<1>6. h \in Blocks /\ blk \in Blocks
    BY <1>2, Sizes DEF Heads, TypeOK
<1>7. PICK x \in S, y \in S : x # y
  <2>1. <<h, m>> \in S /\ <<blk, page>> \in S
    BY <1>5, <1>6
  <2> QED BY <2>1, <1>5
<1> HIDE DEF S
<1>8. IsFiniteSet(S)
  <2>1. IsFiniteSet(Blocks) /\ IsFiniteSet(Pages)
    <3>1. 0 \in Int /\ NumBlocks - 1 \in Int /\ PagesPerBlock - 1 \in Int
      BY Sizes
    <3> QED BY <3>1, FS_Interval DEF Blocks, Pages
  <2>2. IsFiniteSet(Blocks \X Pages)
    BY <2>1, FS_Product
  <2>3. S \subseteq Blocks \X Pages
    BY DEF S
  <2> QED BY <2>2, <2>3, FS_Subset
<1>9. Cardinality({x} \cup {y}) = 2
  <2>1. IsFiniteSet({x}) /\ Cardinality({x}) = 1 /\ y \notin {x}
    BY <1>7, FS_Singleton
  <2>2. Cardinality({x} \cup {y}) = Cardinality({x}) + 1
    BY <2>1, FS_AddElement
  <2> QED BY <2>1, <2>2
<1>10. Cardinality({x} \cup {y}) <= Cardinality(S)
  <2>1. {x} \cup {y} \subseteq S
    OBVIOUS
  <2> QED BY <2>1, <1>8, FS_Subset
<1>11. Cardinality(S) \in Nat
    BY <1>8, FS_CardinalityType
<1>12. Cardinality(S) >= 2
    BY <1>9, <1>10, <1>11
<1> QED BY <1>12 DEF S

-----------------------------------------------------------------------------
(* Every step is one of AtomicStore, or changes nothing there *)

Durable == IF Heads = {} THEN Nothing ELSE NewestPage(LastBlock).items

\* The durable contents are those of the newest structure of the last block, in
\* every state and so in the next one.
DurableIsNewest ==
    TypeOK => \A h \in Heads, k \in 1 .. PagesPerBlock, m \in Pages :
                Stored(h, k, m) => Durable = flash[h][m].items /\ Durable # Nothing

LEMMA DurableIs == DurableIsNewest
<1> SUFFICES ASSUME TypeOK, NEW h \in Heads, NEW k \in 1 .. PagesPerBlock, NEW m \in Pages,
                    Stored(h, k, m)
             PROVE  Durable = flash[h][m].items /\ Durable # Nothing
    BY DEF DurableIsNewest
<1>1. LastBlock = h /\ NewestPage(h) = flash[h][m] /\ Heads # {}
    BY StoredFacts, LastBlockIs, NewestPageIs
<1>2. flash[h][m].items \in Nat
  <2>1. flash[h][m] \in PageType
    BY StoredFacts
  <2> QED BY <2>1, Sizes DEF PageType, Erased, Junk
<1> QED BY <1>1, <1>2 DEF Durable, Nothing

LEMMA DurableIsNext == DurableIsNewest'
BY DurableIs, PTL

LEMMA ServedType ==
    ASSUME TypeOK
    PROVE  mem.items \in Nat /\ mem.items # Nothing
<1>1. mem.items \in Nat
    BY Sizes DEF TypeOK, PageType, Erased, Junk
<1> QED BY <1>1 DEF Nothing

\* A power failure, and a step inside of a write, that leave the durable contents.
LEMMA StopImplements ==
    ASSUME pc' = "off", Durable' = Durable
    PROVE  Store!Next
<1>1. Store!Stop
    BY DEF Store!Stop, Durable
<1> QED BY <1>1 DEF Store!Next

LEMMA InsideImplements ==
    ASSUME pc \in {"format", "write"}, pc' \in {"format", "write"}, mem' = mem,
           Durable' = Durable
    PROVE  UNCHANGED Store!vars
BY DEF Store!vars, Durable

LEMMA StepImplements ==
    ASSUME MInv, [Next]_vars, lapses' = {}
    PROVE  Store!Next \/ UNCHANGED Store!vars
<1>0. TypeOK /\ MadeByWrites /\ TypeOK' /\ MInv' /\ lapses = {}
    BY StepMInv, LapsesStay DEF MInv
<1>1. mem.items # Nothing
    BY <1>0, ServedType
<1>2. CASE Program
  <2>1. /\ pc = "write" /\ pc' \in {"write", "idle"} /\ mem' = mem
    BY <1>2 DEF Program
  <2>2. Durable' = mem.items
    <3>1. CASE Heads = {}
      <4>1. PICK b \in Heads' : Stored(b, 1, 0)' /\ flash'[b][0] = mem
        BY <1>0, <1>2, <3>1, FirstProgram DEF MInv
      <4>2. 1 \in 1 .. PagesPerBlock /\ 0 \in Pages
        BY Sizes
      <4>3. Durable' = flash'[b][0].items
        BY <1>0, <4>1, <4>2, DurableIsNext DEF DurableIsNewest
      <4> QED BY <4>1, <4>3
    <3>2. CASE Heads # {}
      <4>1. PICK h \in Heads, k \in 1 .. PagesPerBlock, m \in Pages : Stored(h, k, m)
        BY <1>0, <3>2 DEF MInv
      <4>2. PICK l \in Heads', n \in 1 .. PagesPerBlock, q \in Pages :
               Stored(l, n, q)' /\ flash'[l][q] = mem
        BY <1>0, <1>2, <4>1, ProgramStores
      <4>3. Durable' = flash'[l][q].items
        BY <1>0, <4>2, DurableIsNext DEF DurableIsNewest
      <4> QED BY <4>2, <4>3
    <3> QED BY <3>1, <3>2
  <2>3. CASE pc' = "write"
    <3>1. Store!Commit
      BY <2>1, <2>2, <2>3 DEF Store!Commit, Durable
    <3> QED BY <3>1 DEF Store!Next
  <2>4. CASE pc' = "idle"
    <3>1. Store!Return
      BY <2>1, <2>2, <2>4 DEF Store!Return, Durable
    <3> QED BY <3>1 DEF Store!Next
  <2> QED BY <2>1, <2>3, <2>4
<1>3. CASE ~Program
  <2>1. Durable' = Durable /\ (Heads # {} => Durable # Nothing)
    <3>1. CASE Heads = {}
      BY <1>0, <1>3, <3>1, FormatKeeps DEF MInv, Durable
    <3>2. CASE Heads # {}
      <4>1. PICK h \in Heads, k \in 1 .. PagesPerBlock, m \in Pages : Stored(h, k, m)
        BY <1>0, <3>2 DEF MInv
      <4>2. PICK n \in 1 .. PagesPerBlock :
               h \in Heads' /\ Stored(h, n, m)' /\ flash'[h][m] = flash[h][m]
        BY <1>0, <1>3, <4>1, StepKeepsStored
      <4>3. Durable' = flash'[h][m].items
        BY <1>0, <4>2, DurableIsNext DEF DurableIsNewest
      <4>4. Durable = flash[h][m].items /\ Durable # Nothing
        BY <1>0, <4>1, DurableIs DEF DurableIsNewest
      <4> QED BY <4>2, <4>3, <4>4
    <3> QED BY <3>1, <3>2
  <2>2. CASE Boot
    <3>1. pc = "off" /\ pc' = "idle" /\ Heads # {} /\ mem'.items = Durable
      BY <2>2 DEF Boot, Durable
    <3>2. Store!Start
      BY <2>1, <3>1 DEF Store!Start, Durable
    <3> QED BY <3>2 DEF Store!Next
  <2>3. CASE BootEmpty
    <3>1. pc = "off" /\ pc' = "format" /\ Heads = {} /\ mem'.items = 0
      BY <2>3 DEF BootEmpty, Data
    <3>2. Store!Start
      BY <2>1, <3>1 DEF Store!Start, Durable
    <3> QED BY <3>2 DEF Store!Next
  <2>4. CASE Write
    <3>1. pc = "idle" /\ pc' = "write" /\ mem'.items = writes + 1
      BY <2>4 DEF Write, Data
    <3>2. writes + 1 \in 0 .. MaxWrites
      BY <2>4, <1>0, Sizes DEF Write, TypeOK
    <3>3. Store!Write(writes + 1)
      BY <1>1, <2>1, <3>1 DEF Store!Write, Durable
    <3> QED BY <3>2, <3>3 DEF Store!Next
  <2>5. CASE FormatErase \/ FormatEraseFail \/ FormatWrite
    <3>1. pc \in {"format", "write"} /\ pc' \in {"format", "write"} /\ mem' = mem
      BY <2>5 DEF FormatErase, FormatEraseFail, FormatWrite
    <3> QED BY <2>1, <3>1, InsideImplements
  <2>6. CASE SkipBadBlock \/ EraseBlock \/ EraseFail \/ ProgramFail
    <3>1. pc \in {"format", "write"} /\ pc' \in {"format", "write"} /\ mem' = mem
      BY <2>6 DEF SkipBadBlock, EraseBlock, EraseFail, ProgramFail, BlockFull
    <3> QED BY <2>1, <3>1, InsideImplements
  <2>7. CASE PowerLoss \/ PowerLossInProgram \/ PowerLossInErase \/ PowerLossInFormat
    <3>1. pc' = "off"
      BY <2>7 DEF PowerLoss, PowerLossInProgram, PowerLossInErase, PowerLossInFormat, Off
    <3> QED BY <2>1, <3>1, StopImplements
  <2>8. CASE UNCHANGED vars
    BY <2>1, <2>8 DEF vars, Store!vars, Durable
  <2> QED BY <1>3, <2>2, <2>3, <2>4, <2>5, <2>6, <2>7, <2>8 DEF Next, Loop
<1> QED BY <1>2, <1>3

LEMMA InitImplements == Init => Store!Init
<1> SUFFICES ASSUME Init PROVE Store!Init
    OBVIOUS
<1>1. \A b \in Blocks : flash[b][0] = Erased
    BY Sizes DEF Init, ErasedBlock
<1>2. Heads = {}
    BY <1>1, Sizes, NoStructure DEF Heads, IsData
<1> QED BY <1>2 DEF Init, Store!Init

-----------------------------------------------------------------------------
(* Theorems *)

\* The inductive invariant: until a lapse init finds one block and one newest
\* page in it, and the write in progress is after it in the ring.
THEOREM Invariant == Spec => []MInv
<1>1. MInv /\ [Next]_vars => MInv'
    BY StepMInv
<1> QED BY InitMInv, <1>1, PTL DEF Spec

\* The state of the driver and of the flash has its type, whatever fails and
\* after a lapse too.
THEOREM TypeCorrect == Spec => []TypeOK
<1>1. MInv => TypeOK
    BY DEF MInv
<1> QED BY Invariant, <1>1, PTL

\* Until a lapse no page of the flash is newer than what mtd_vendor_storage_init
\* serves.
THEOREM NothingNewerAlways == Spec => []NothingNewer
BY Invariant, NothingNewerHolds, PTL

\* Until a lapse mtd_vendor_nand_write programs the pages of a block once and in
\* order.
THEOREM ProgramsInOrderAlways == Spec => []ProgramsInOrder
BY Invariant, ProgramsInOrderHolds, PTL

\* When mtd_vendor_nand_write returns before any lapse two pages hold what it
\* wrote.
THEOREM TwoCopiesAlways == Spec => ReturnsWithTwoCopies
<1>1. MInv /\ [Next]_vars =>
        [lapses' = {} /\ pc = "write" /\ pc' = "idle" =>
           Cardinality({c \in Blocks \X Pages : flash'[c[1]][c[2]] = mem}) >= 2]_vars
    BY StepReturns
<1> QED BY Invariant, <1>1, PTL DEF Spec, ReturnsWithTwoCopies

\* Until a lapse the storage is atomic and durable: a start finds the last write
\* that returned or the one that was interrupted, as a whole.
THEOREM Implements == Spec => ImplementsAtomicStore
<1>1. MInv /\ [Next]_vars => [lapses' = {} => Store!Next]_(Store!vars)
    BY StepImplements
<1> QED BY InitImplements, Invariant, <1>1, PTL DEF Spec, ImplementsAtomicStore
=============================================================================
