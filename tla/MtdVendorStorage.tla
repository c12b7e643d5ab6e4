-------------------------- MODULE MtdVendorStorage --------------------------
(***************************************************************************)
(* The vendor storage on raw NAND (mtd_vendor_storage.c): all items are    *)
(* kept in one structure with a version, and every write programs it twice *)
(* into the next pages of a ring of erase blocks.  Init finds the block    *)
(* whose first page has the highest version and the last valid page of it. *)
(*                                                                         *)
(* A page is ops_size bytes.  The structure is its version and a number    *)
(* that stands for the items (VendorItems has them).  The ioctls hold      *)
(* vendor_ops_mutex, so there is one write at a time; power may fail at    *)
(* any step; a page whose program or erase is cut may be unreadable, as it *)
(* was or done.  mtd_write and mtd_erase may fail at any page or block.    *)
(*                                                                         *)
(* The driver has five ways to lose track of what it wrote.  The history   *)
(* variable lapses names those that have happened, each added by the step  *)
(* that takes it (Lapse); the properties say what holds until then.        *)
(***************************************************************************)
EXTENDS Integers, FiniteSets

CONSTANTS
  NumBlocks,      \* mtd->size / mtd->erasesize
  PagesPerBlock,  \* mtd->erasesize / nand_info.ops_size
  BadBlocks,      \* blocks mtd_block_isbad reports
  MaxWrites,      \* bound: number of writes
  MaxFaults       \* bound: number of mtd_write and mtd_erase calls that fail

Blocks == 0 .. NumBlocks - 1
Pages  == 0 .. PagesPerBlock - 1

ASSUME FlashAssumption ==
  /\ NumBlocks \in Nat /\ PagesPerBlock \in Nat /\ PagesPerBlock >= 2
  /\ BadBlocks \subseteq Blocks /\ Blocks \ BadBlocks # {}
  /\ MaxWrites \in Nat /\ MaxFaults \in Nat

VARIABLES
  flash,          \* the pages of the partition
  blk, page,      \* nand_info.blk_offset and .page_offset, in blocks and pages
  mem,            \* *g_vendor
  copies,         \* count in mtd_vendor_nand_write
  scan,           \* offset in the erase loop of mtd_vendor_storage_init
  pc,             \* "off", "format" (that loop), "write", "idle"
  writes, faults, \* writes and failed calls so far
  lapses          \* history: how the driver has lost track, see LapseNames

vars == <<flash, blk, page, mem, copies, scan, pc, writes, faults, lapses>>

\* "page":   init took the only programmed page of a block for a free one
\* "head":   the first page of a block was lost and the block is used on
\* "twins":  two blocks begin with the same version
\* "format": init programs a block it has not erased
\* "round":  the ring has come round to the block that init would load
LapseNames == {"page", "head", "twins", "format", "round"}

Lapse(name, happens) == lapses' = IF happens THEN lapses \cup {name} ELSE lapses

Data(v, n) == [kind |-> "data", version |-> v, items |-> n]
Erased     == [kind |-> "erased", version |-> 0, items |-> 0]
Junk       == [kind |-> "junk", version |-> 0, items |-> 0]

GoodBlocks   == Blocks \ BadBlocks
ErasedBlock  == [p \in Pages |-> Erased]
IsData(b, p) == flash[b][p].kind = "data"

Init ==
  /\ flash = [b \in Blocks |-> ErasedBlock]
  /\ blk = 0 /\ page = 0 /\ mem = Erased
  /\ copies = 0 /\ scan = 0
  /\ pc = "off"
  /\ writes = 0 /\ faults = 0
  /\ lapses = {}

-----------------------------------------------------------------------------
(* mtd_vendor_storage_init: what it finds on the flash.                     *)

\* Blocks whose first page holds a structure.
Heads == {b \in GoodBlocks : IsData(b, 0)}

\* The first one with the highest version.
LastBlock ==
  CHOOSE b \in Heads : \A c \in Heads :
    \/ flash[c][0].version < flash[b][0].version
    \/ flash[c][0].version = flash[b][0].version /\ b <= c

LastOf(S) == CHOOSE p \in S : \A q \in S : q <= p

\* Mutant: the search stops at a page that cannot be read.
NewestPage_StopAtJunk(b) ==
  LET used == {p \in Pages : flash[b][p] # Erased}
  IN  IF IsData(b, LastOf(used)) THEN flash[b][LastOf(used)] ELSE flash[b][0]

\* The last structure in the block: pages that cannot be read are skipped.
NewestPage(b) == flash[b][LastOf({p \in Pages : IsData(b, p)})]

\* Mutant: the first page after the newest structure, readable or not.
NextPage_AfterData(b) == LastOf({p \in Pages : IsData(b, p)}) + 1

\* "point to the next free page": nand_info.page_offset < offset is false for a
\* programmed page at offset 0, so page_offset stays 0.
NextPage(b) ==
  LET used == LastOf({p \in Pages : flash[b][p] # Erased})
  IN  IF used > 0 THEN used + 1 ELSE 0

\* The block where the scan of an empty partition leaves blk_offset.
FirstGood == CHOOSE b \in GoodBlocks : \A c \in GoodBlocks : b <= c

Boot ==
  /\ pc = "off" /\ Heads # {}
  /\ blk' = LastBlock
  /\ page' = NextPage(LastBlock)
  /\ mem' = NewestPage(LastBlock)
  /\ pc' = "idle"
  /\ Lapse("page", NextPage(LastBlock) = 0)
  /\ UNCHANGED <<flash, copies, scan, writes, faults>>

\* No structure on the flash: erase everything and write an empty one.
BootEmpty ==
  /\ pc = "off" /\ Heads = {}
  /\ blk' = FirstGood /\ page' = 0
  /\ mem' = Data(1, 0)
  /\ scan' = 0
  /\ pc' = "format"
  /\ UNCHANGED <<flash, copies, writes, faults, lapses>>

\* The block the loop erases for the offset scan: ei.addr is blk_offset + offset,
\* and mtd_erase refuses an address beyond the partition or in a bad block.
FormatTarget ==
  IF scan \in GoodBlocks /\ blk + scan \in GoodBlocks THEN {blk + scan} ELSE {}

FormatErase ==
  /\ pc = "format" /\ scan < NumBlocks
  /\ flash' = [b \in Blocks |-> IF b \in FormatTarget THEN ErasedBlock ELSE flash[b]]
  /\ scan' = scan + 1
  /\ UNCHANGED <<blk, page, mem, copies, pc, writes, faults, lapses>>

\* An erase that failed or was cut: each page is as it was, erased or unreadable.
HalfErased(b) ==
  {pages \in [Pages -> {flash[b][p] : p \in Pages} \cup {Erased, Junk}] :
     \A p \in Pages : pages[p] \in {flash[b][p], Erased, Junk}}

\* What mtd_erase returns is ignored.
FormatEraseFail ==
  /\ pc = "format" /\ scan < NumBlocks
  /\ faults < MaxFaults
  /\ \E b \in FormatTarget : \E pages \in HalfErased(b) : flash' = [flash EXCEPT ![b] = pages]
  /\ faults' = faults + 1
  /\ scan' = scan + 1
  /\ UNCHANGED <<blk, page, mem, copies, pc, writes, lapses>>

FormatWrite ==
  /\ pc = "format" /\ scan = NumBlocks
  /\ copies' = 0
  /\ pc' = "write"
  /\ Lapse("format", flash[blk] # ErasedBlock)
  /\ UNCHANGED <<flash, blk, page, mem, scan, writes, faults>>

-----------------------------------------------------------------------------
(* mtd_vendor_write and the loop of mtd_vendor_nand_write.                  *)

Write ==
  /\ pc = "idle" /\ writes < MaxWrites
  /\ writes' = writes + 1
  /\ mem' = Data(mem.version + 1, writes + 1)
  /\ copies' = 0
  /\ pc' = "write"
  /\ UNCHANGED <<flash, blk, page, scan, faults, lapses>>

BlockFull == pc = "write" /\ page >= PagesPerBlock

\* Mutant: the wrap is off by one.
NextBlock_OffByOne == IF blk + 1 > NumBlocks THEN 0 ELSE blk + 1

NextBlock == IF blk + 1 >= NumBlocks THEN 0 ELSE blk + 1

SkipBadBlock ==
  /\ BlockFull /\ NextBlock \in BadBlocks
  /\ blk' = NextBlock
  /\ UNCHANGED <<flash, page, mem, copies, scan, pc, writes, faults, lapses>>

\* What init would load is in the block to be erased.
RoundTheRing == Heads # {} /\ NextBlock = LastBlock

\* Mutant: page_offset is not reset.
EraseBlock_KeepPage ==
  /\ BlockFull /\ NextBlock \notin BadBlocks
  /\ blk' = NextBlock
  /\ flash' = [flash EXCEPT ![NextBlock] = ErasedBlock]
  /\ Lapse("round", RoundTheRing)
  /\ UNCHANGED <<page, mem, copies, scan, pc, writes, faults>>

EraseBlock ==
  /\ BlockFull /\ NextBlock \notin BadBlocks
  /\ blk' = NextBlock
  /\ flash' = [flash EXCEPT ![NextBlock] = ErasedBlock]
  /\ page' = 0
  /\ Lapse("round", RoundTheRing)
  /\ UNCHANGED <<mem, copies, scan, pc, writes, faults>>

\* mtd_erase fails, and the loop goes on to the block after it.
EraseFail ==
  /\ BlockFull /\ NextBlock \notin BadBlocks
  /\ faults < MaxFaults
  /\ faults' = faults + 1
  /\ blk' = NextBlock
  /\ \E pages \in HalfErased(NextBlock) : flash' = [flash EXCEPT ![NextBlock] = pages]
  /\ Lapse("round", RoundTheRing)
  /\ UNCHANGED <<page, mem, copies, scan, pc, writes>>

\* A page that is not erased cannot be programmed: what it holds is unreadable.
Programmed == IF flash[blk][page] = Erased THEN mem ELSE Junk

\* Mutant: one copy.
CopiesNeeded_One == 1

CopiesNeeded == 2

Program ==
  /\ pc = "write" /\ page < PagesPerBlock
  /\ flash' = [flash EXCEPT ![blk][page] = Programmed]
  /\ page' = page + 1
  /\ copies' = copies + 1
  /\ pc' = IF copies + 1 < CopiesNeeded THEN "write" ELSE "idle"
  /\ UNCHANGED <<blk, mem, scan, writes, faults, lapses>>

\* The block is used up with one copy of the structure, at its first page.
HeadIsOnlyCopy == page + 1 = PagesPerBlock /\ copies = 1 /\ flash[blk][0] = mem

\* mtd_write fails: the copy does not count, the page is used up.
ProgramFail ==
  /\ pc = "write" /\ page < PagesPerBlock
  /\ faults < MaxFaults
  /\ faults' = faults + 1
  /\ flash' = [flash EXCEPT ![blk][page] = Junk]
  /\ page' = page + 1
  /\ lapses' = lapses \cup (IF page = 0 THEN {"head"} ELSE {})
                     \cup (IF HeadIsOnlyCopy THEN {"twins"} ELSE {})
  /\ UNCHANGED <<blk, mem, copies, scan, pc, writes>>

-----------------------------------------------------------------------------
(* Power failures.  Nothing in memory survives.                             *)

Off ==
  /\ pc' = "off"
  /\ blk' = 0 /\ page' = 0 /\ mem' = Erased /\ copies' = 0 /\ scan' = 0
  /\ UNCHANGED <<writes, faults>>

\* Between two operations on the flash.
PowerLoss ==
  /\ pc # "off"
  /\ Off
  /\ UNCHANGED <<flash, lapses>>

PowerLossInProgram ==
  /\ pc = "write" /\ page < PagesPerBlock
  /\ flash' = [flash EXCEPT ![blk][page] = Junk]
  /\ Off
  /\ UNCHANGED lapses

PowerLossInErase ==
  /\ BlockFull /\ NextBlock \notin BadBlocks
  /\ \E pages \in HalfErased(NextBlock) : flash' = [flash EXCEPT ![NextBlock] = pages]
  /\ Lapse("round", RoundTheRing)
  /\ Off

PowerLossInFormat ==
  /\ pc = "format" /\ scan < NumBlocks
  /\ \E b \in FormatTarget : \E pages \in HalfErased(b) : flash' = [flash EXCEPT ![b] = pages]
  /\ Off
  /\ UNCHANGED lapses

-----------------------------------------------------------------------------
Loop == SkipBadBlock \/ EraseBlock \/ EraseFail \/ Program \/ ProgramFail

Next ==
  \/ Boot \/ BootEmpty \/ FormatErase \/ FormatEraseFail \/ FormatWrite
  \/ Write \/ Loop
  \/ PowerLoss \/ PowerLossInProgram \/ PowerLossInErase \/ PowerLossInFormat

Spec == Init /\ [][Next]_vars

\* mtd_vendor_nand_write is a loop in one thread: it goes on until it returns.
FairSpec == Spec /\ WF_vars(FormatErase \/ FormatEraseFail \/ FormatWrite) /\ WF_vars(Loop)

-----------------------------------------------------------------------------
(* Properties                                                               *)

Versions == 0 .. MaxWrites + 1
PageType == {Erased, Junk} \cup [kind : {"data"}, version : Versions, items : 0 .. MaxWrites]

\* The type of the state.
TypeOK ==
  /\ flash \in [Blocks -> [Pages -> PageType]]
  /\ blk \in Blocks /\ page \in 0 .. PagesPerBlock
  /\ mem \in PageType \ {Junk}
  /\ copies \in 0 .. 2 /\ scan \in 0 .. NumBlocks
  /\ pc \in {"off", "format", "write", "idle"}
  /\ writes \in 0 .. MaxWrites /\ faults \in 0 .. MaxFaults
  /\ lapses \subseteq LapseNames

\* A write that has returned is found again by every later init, an interrupted
\* one is found as a whole or not at all: until a lapse the driver is an
\* AtomicStore whose durable contents are what init would load.
Nothing == -1
Store == INSTANCE AtomicStore WITH
  Values  <- 0 .. MaxWrites,
  Empty   <- 0,
  durable <- IF Heads = {} THEN Nothing ELSE NewestPage(LastBlock).items,
  serving <- IF pc = "off" THEN Nothing ELSE mem.items,
  busy    <- pc \in {"format", "write"}
ImplementsAtomicStore ==
  Store!Init /\ [][lapses' = {} => Store!Next]_(Store!vars)

\* NAND pages are programmed once after an erase and in the order of the block:
\* the page that mtd_vendor_nand_write programs next is erased and the pages
\* before it are used, after a restart, a failed erase and a cut program too,
\* until a lapse.
ProgramsInOrder ==
  lapses = {} /\ pc = "write" /\ page < PagesPerBlock =>
    /\ flash[blk][page] = Erased
    /\ \A q \in 0 .. page - 1 : flash[blk][q] # Erased

\* When a write returns two pages hold it: an erase for the second copy, a
\* failed program or a bad block in between has not destroyed the first, until
\* a lapse.
ReturnsWithTwoCopies ==
  [][lapses' = {} /\ pc = "write" /\ pc' = "idle" =>
       Cardinality({c \in Blocks \X Pages : flash'[c[1]][c[2]] = mem}) >= 2]_vars

\* No page of the flash is newer than what the driver serves: an interrupted
\* write that init did not find cannot come back after later writes, until a
\* lapse.
NothingNewer ==
  lapses = {} /\ pc = "idle" => \A b \in GoodBlocks, p \in Pages :
    IsData(b, p) => flash[b][p].version <= mem.version

\* mtd_vendor_nand_write returns although blocks are bad and calls fail, after
\* a lapse too.
WritesReturn == (pc \in {"format", "write"}) ~> (pc \in {"idle", "off"})

\* mtd_vendor_storage_init: "point to the next free page".
PointsToFreePage ==
  pc = "idle" => page = PagesPerBlock \/ flash[blk][page] = Erased
=============================================================================
