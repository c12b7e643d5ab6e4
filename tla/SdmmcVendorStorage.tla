------------------------- MODULE SdmmcVendorStorage -------------------------
(***************************************************************************)
(* The vendor storage on SD/MMC (sdmmc_vendor_storage.c): four partitions  *)
(* of 128 sectors are written in turn.  A partition starts with version    *)
(* and ends with version2, sectors are written in their order, and init    *)
(* loads the partition with the highest version that is at both ends.      *)
(*                                                                         *)
(* A number stands for the items, of which every sector has a part; tag,   *)
(* version and next_index are in the first one.  The ioctls hold           *)
(* vendor_ops_mutex.  Power may fail between two sectors, and any transfer *)
(* may fail.                                                               *)
(***************************************************************************)
EXTENDS Integers

CONSTANTS
  NumParts,    \* EMMC_VENDOR_PART_NUM
  NumSectors,  \* EMMC_VENDOR_PART_SIZE
  MaxWrites,   \* bound: number of writes
  MaxFaults    \* bound: number of transfers to the card that fail

ASSUME PartsAssumption ==
  /\ NumParts \in Nat /\ NumParts >= 2
  /\ NumSectors \in Nat /\ NumSectors >= 2
  /\ MaxWrites \in Nat /\ MaxFaults \in Nat

Parts   == 0 .. NumParts - 1
Sectors == 0 .. NumSectors - 1
LastSector == NumSectors - 1

VARIABLES
  disk,           \* what each sector of each partition was written with
  mem,            \* *g_vendor: its tag, version, items and next_index
  part, sector,   \* the partition that is written and the next sector of it
  pc,             \* "off", "idle", "write"
  writes, faults, \* writes and failed transfers to the card so far
  misread         \* what a load that returned 0 has not read: "head", "items"

vars == <<disk, mem, part, sector, pc, writes, faults, misread>>

Vendor(version, items, next) ==
  [tag |-> TRUE, version |-> version, items |-> items, next |-> next]

\* A sector of a card that was never written: zeros.
Blank == [tag |-> FALSE, version |-> 0, items |-> 0, next |-> 0]

\* Items of a partition whose sectors are of different writes.
Torn == -1

Init ==
  /\ disk = [p \in Parts |-> [s \in Sectors |-> Blank]]
  /\ mem = Blank
  /\ part = 0 /\ sector = 0
  /\ pc = "off"
  /\ writes = 0 /\ faults = 0 /\ misread = {}

-----------------------------------------------------------------------------
(* emmc_vendor_storage_init                                                 *)

\* Mutant: version2 is not compared.
Valid_FirstSector == {p \in Parts : disk[p][0].tag /\ disk[p][0].version > 0}

Valid == {p \in Parts : /\ disk[p][0].tag /\ disk[p][0].version > 0
                        /\ disk[p][0].version = disk[p][LastSector].version}

\* The first one with the highest version.
Newest ==
  CHOOSE p \in Valid : \A q \in Valid :
    \/ disk[q][0].version < disk[p][0].version
    \/ disk[q][0].version = disk[p][0].version /\ p <= q

Loaded(p) ==
  [disk[p][0] EXCEPT !.items = IF \A s \in Sectors : disk[p][s].items = @ THEN @ ELSE Torn]

\* A read that fails before the load, or that of its last sector, makes the init
\* thread start again or give up: nothing happens.
Boot ==
  /\ pc = "off"
  /\ mem' = IF Valid = {} THEN Vendor(1, 0, 0) ELSE Loaded(Newest)
  /\ pc' = "idle"
  /\ UNCHANGED <<disk, part, sector, writes, faults, misread>>

\* The result of all reads but the last is lost in emmc_vendor_ops.  Memory has
\* what was there for a sector that was not read: for the first one that of the
\* last partition, the last the loop looked at, and for the others anything.
BootMisread ==
  /\ pc = "off" /\ Valid # {}
  /\ \E p \in {Newest, NumParts - 1} :
       /\ mem' = [disk[p][0] EXCEPT !.items = Torn]
       /\ misread' = misread \cup {IF p = Newest THEN "items" ELSE "head"}
  /\ pc' = "idle"
  /\ UNCHANGED <<disk, part, sector, writes, faults>>

-----------------------------------------------------------------------------
(* emmc_vendor_write and the loop of emmc_vendor_ops                        *)

\* Mutants: next_index stays; the wrap is off by one.
NextPart_Same(p) == p
NextPart_OffByOne(p) == IF p + 1 > NumParts THEN 0 ELSE p + 1

NextPart(p) == IF p + 1 >= NumParts THEN 0 ELSE p + 1

\* The structure on the disk has the next_index after the one it is written to.
Write ==
  /\ pc = "idle" /\ writes < MaxWrites
  /\ writes' = writes + 1
  /\ mem' = [tag |-> mem.tag, version |-> mem.version + 1,
             items |-> writes + 1, next |-> NextPart(mem.next)]
  /\ part' = mem.next /\ sector' = 0
  /\ pc' = "write"
  /\ UNCHANGED <<disk, faults, misread>>

SectorDone ==
  /\ pc' = IF sector = LastSector THEN "idle" ELSE "write"
  /\ sector' = IF sector = LastSector THEN 0 ELSE sector + 1
  /\ UNCHANGED <<mem, part, writes, misread>>

Transfer ==
  /\ pc = "write"
  /\ disk' = [disk EXCEPT ![part][sector] = mem]
  /\ SectorDone
  /\ UNCHANGED faults

\* The result of all transfers but the last is lost in emmc_vendor_ops, and its
\* own result in emmc_vendor_write.
TransferFail ==
  /\ pc = "write" /\ faults < MaxFaults
  /\ faults' = faults + 1
  /\ SectorDone
  /\ UNCHANGED disk

PowerLoss ==
  /\ pc # "off"
  /\ pc' = "off"
  /\ mem' = Blank /\ part' = 0 /\ sector' = 0
  /\ UNCHANGED <<disk, writes, faults, misread>>

Next == Boot \/ BootMisread \/ Write \/ Transfer \/ TransferFail \/ PowerLoss

Spec == Init /\ [][Next]_vars

-----------------------------------------------------------------------------
(* Properties                                                               *)

VendorType ==
  [tag : BOOLEAN, version : 0 .. MaxWrites + 1, items : {Torn} \cup 0 .. MaxWrites, next : Parts]

\* The type of the state.
TypeOK ==
  /\ disk \in [Parts -> [Sectors -> VendorType]]
  /\ mem \in VendorType
  /\ part \in Parts /\ sector \in Sectors
  /\ pc \in {"off", "idle", "write"}
  /\ writes \in 0 .. MaxWrites /\ faults \in 0 .. MaxFaults /\ misread \subseteq {"head", "items"}

\* Until a transfer fails, to the card or in a load, a write that has returned is
\* loaded by every later init and an interrupted one as a whole or not at all.
Nothing == -2
Store == INSTANCE AtomicStore WITH
  Values  <- 0 .. MaxWrites,
  Empty   <- 0,
  durable <- IF Valid = {} THEN 0 ELSE Loaded(Newest).items,
  serving <- IF pc = "off" THEN Nothing ELSE mem.items,
  busy    <- pc = "write"
ImplementsAtomicStore == Store!Init /\ [][faults' = 0 /\ misread' = {} => Store!Next]_(Store!vars)

\* Until NumParts - 1 transfers to the card have failed, or the read of the first
\* sector in a load (which leaves the next_index of another partition in memory), a
\* write never goes to the partition that init would load before it is complete,
\* restarts in the middle of writes included: each write that is lost moves
\* next_index one partition on.
NeverOverwritesNewest ==
  faults < NumParts - 1 /\ "head" \notin misread =>
    (pc = "write" /\ sector = 0 /\ Valid # {} => part # Newest)
=============================================================================
