----------------------------- MODULE VendorItems -----------------------------
(***************************************************************************)
(* The item table of the vendor storages: mtd_vendor_read and _write, and  *)
(* emmc_vendor_read and _write, which differ in how they count free space. *)
(* An item has room for its size rounded up to 64 bytes.  A write that     *)
(* does not fit the room moves the items behind it down and appends the    *)
(* new contents.                                                           *)
(*                                                                         *)
(* Nothing compares item_num with the length of item[], which lies before  *)
(* data: an entry that is added to a full table overwrites the first bytes *)
(* of data, and is overwritten with them.  The model shows that step and   *)
(* ends there (overrun); the properties are about the states before it.    *)
(*                                                                         *)
(* The calls hold vendor_ops_mutex; storing the structure afterwards is    *)
(* MtdVendorStorage and SdmmcVendorStorage.                                *)
(***************************************************************************)
EXTENDS Integers, SequencesExt

CONSTANTS
  Ids,         \* ids of items
  Sizes,       \* sizes that callers write
  Values,      \* what they write: the k-th byte of the value v is <<v, k>>
  Unit,        \* 0x40
  MaxItems,    \* entries of item[]: 62, or 126
  EntrySize,   \* sizeof(struct vendor_item)
  DataSize,    \* sizeof(g_vendor->data)
  Missing      \* no such item; a byte that is no caller's

Bytes(size, v) == [k \in 1 .. size |-> <<v, k>>]

ASSUME ItemsAssumption ==
  /\ Unit \in Nat \ {0} /\ DataSize \in Nat /\ MaxItems \in Nat /\ EntrySize \in Nat
  /\ Sizes \subseteq Nat
  /\ \A size \in Sizes, v \in Values : Missing # Bytes(size, v)

VARIABLES
  driver,       \* which of the two, "mtd" or "emmc"; it does not change
  items,        \* item[0 .. item_num - 1]
  data,         \* the bytes of data
  freeOffset,   \* free_offset
  freeSize,     \* free_size
  overrun,      \* an entry was written behind item[]
  reply         \* the last write and if it returned 0

vars == <<driver, items, data, freeOffset, freeSize, overrun, reply>>

\* The structure that the init functions build when they find none.
Init ==
  /\ driver \in {"mtd", "emmc"}
  /\ items = <<>>
  /\ data = [b \in 0 .. DataSize - 1 |-> Missing]
  /\ freeOffset = 0 /\ freeSize = DataSize
  /\ overrun = FALSE
  /\ reply = Missing

\* Mutant: rounded down.
Align_Down(n) == (n \div Unit) * Unit

Align(n) == ((n + Unit - 1) \div Unit) * Unit

\* memcpy.  Copies go to a lower address, and a forward copy of regions that
\* overlap reads each byte before it overwrites it.
Copied(d, to, from, n) ==
  [b \in DOMAIN d |-> IF b \in to .. to + n - 1 THEN d[b - to + from] ELSE d[b]]

\* The same from the caller's buffer.
Stored(d, to, bytes) ==
  [b \in DOMAIN d |->
     IF b \in to .. to + Len(bytes) - 1 THEN bytes[b - to + 1] ELSE d[b]]

Indexes(id) == {i \in 1 .. Len(items) : items[i].id = id}
IndexOf(id) == CHOOSE i \in Indexes(id) : \A j \in Indexes(id) : i <= j

\* What the read functions copy to a buffer that is large enough.
Read(id) ==
  IF Indexes(id) = {} THEN Missing
  ELSE LET item == items[IndexOf(id)]
       IN  [k \in 1 .. item.size |-> data[item.offset + k - 1]]

Answer(id, bytes, taken) == reply' = [id |-> id, bytes |-> bytes, taken |-> taken]

-----------------------------------------------------------------------------
\* The new contents fit the room of the item.
WriteInPlace(i, bytes) ==
  /\ items' = [items EXCEPT ![i].size = Len(bytes)]
  /\ data' = Stored(data, items[i].offset, bytes)
  /\ UNCHANGED <<freeOffset, freeSize>>

\* Mutant: the next item is put behind the size of this one, not behind its room.
MoveDown_BySize(moved, next) ==
  [moved EXCEPT
     !.items  = Append(@, [next EXCEPT !.offset = moved.offset]),
     !.data   = Copied(@, moved.offset, next.offset, Align(next.size)),
     !.offset = @ + next.size]

\* One turn of the loop: an item behind the one that grows.
MoveDown(moved, next) ==
  [moved EXCEPT
     !.items  = Append(@, [next EXCEPT !.offset = moved.offset]),
     !.data   = Copied(@, moved.offset, next.offset, Align(next.size)),
     !.offset = @ + Align(next.size)]

\* Mutant: the count of emmc_vendor_write in mtd_vendor_write.
FreeAfterGrow_Sdmmc(offset, i, bytes) ==
  freeSize - (Align(Len(bytes)) - Align(items[i].size))

\* free_size after the item i has grown and ends at offset.
FreeAfterGrow(offset, i, bytes) ==
  IF driver = "mtd" THEN DataSize - offset
  ELSE freeSize - (Align(Len(bytes)) - Align(items[i].size))

\* The loop over the items behind item i: what it has made after k turns.
Turns(i) ==
  LET turn[k \in 0 .. Len(items) - i] ==
        IF k = 0
        THEN [items |-> SubSeq(items, 1, i - 1), data |-> data, offset |-> items[i].offset]
        ELSE MoveDown(turn[k - 1], items[i + k])
  IN  turn

WriteGrown(i, bytes) ==
  LET moved == Turns(i)[Len(items) - i]
      item  == [id |-> items[i].id, offset |-> moved.offset, size |-> Len(bytes)]
      end   == moved.offset + Align(Len(bytes))
  IN  /\ items' = Append(moved.items, item)
      /\ data' = Stored(moved.data, moved.offset, bytes)
      /\ freeOffset' = end
      /\ freeSize' = FreeAfterGrow(end, i, bytes)

TableIsFull == Len(items) >= MaxItems

\* data with the new entry written: behind item[] are the first bytes of data.
Entered ==
  IF TableIsFull THEN [b \in DOMAIN data |-> IF b < EntrySize THEN Missing ELSE data[b]]
  ELSE data

WriteNew(id, bytes) ==
  /\ items' = Append(items, [id |-> id, offset |-> freeOffset, size |-> Len(bytes)])
  /\ data' = Stored(Entered, freeOffset, bytes)
  /\ freeOffset' = freeOffset + Align(Len(bytes))
  /\ freeSize' = freeSize - Align(Len(bytes))

\* Mutant: the size before it is rounded up.
Fits_Unaligned(bytes) == freeSize >= Len(bytes)

Fits(bytes) == freeSize >= Align(Len(bytes))

Overwrite(id, bytes) ==
  /\ Indexes(id) # {}
  /\ LET i == IndexOf(id) IN
       \/ /\ Len(bytes) <= Align(items[i].size)
          /\ WriteInPlace(i, bytes)
       \/ /\ Len(bytes) > Align(items[i].size)
          /\ Fits(bytes)
          /\ WriteGrown(i, bytes)
  /\ Answer(id, bytes, TRUE)
  /\ UNCHANGED overrun

Add(id, bytes) ==
  /\ Indexes(id) = {}
  /\ Fits(bytes)
  /\ WriteNew(id, bytes)
  /\ overrun' = TableIsFull
  /\ Answer(id, bytes, TRUE)

Refuse(id, bytes) ==
  /\ ~Fits(bytes)
  /\ Indexes(id) # {} => Len(bytes) > Align(items[IndexOf(id)].size)
  /\ Answer(id, bytes, FALSE)
  /\ UNCHANGED <<items, data, freeOffset, freeSize, overrun>>

Next ==
  /\ ~overrun
  /\ UNCHANGED driver
  /\ \E id \in Ids, size \in Sizes, v \in Values :
       \/ Overwrite(id, Bytes(size, v))
       \/ Add(id, Bytes(size, v))
       \/ Refuse(id, Bytes(size, v))

Spec == Init /\ [][Next]_vars

-----------------------------------------------------------------------------
(* Properties                                                               *)

Contents == {Bytes(size, v) : size \in Sizes, v \in Values}
Room(i) == items[i].offset .. items[i].offset + Align(items[i].size) - 1

\* The type of the state.
TypeOK ==
  /\ driver \in {"mtd", "emmc"} /\ overrun \in BOOLEAN
  /\ reply \in [id : Ids, bytes : Contents, taken : BOOLEAN] \cup {Missing}
  /\ ~overrun =>
       /\ items \in Seq([id : Ids, offset : 0 .. DataSize, size : Sizes])
       /\ Len(items) <= MaxItems
       /\ data \in [0 .. DataSize - 1 -> (UNION {Range(c) : c \in Contents}) \cup {Missing}]
       /\ freeOffset \in 0 .. DataSize /\ freeSize \in 0 .. DataSize

\* Until an entry is written behind item[], a write that returned 0 is read back
\* and no other item changes, a refused one changes nothing, after any growing,
\* shrinking and moving of items.
Map == INSTANCE ItemMap WITH
  Strings <- Contents,
  store   <- [id \in Ids |-> Read(id)]
ImplementsItemMap == Map!Init /\ [][~overrun' => Map!Next]_(Map!vars)

\* Until then, the rooms of the items lie one behind the other and before
\* free_offset, so no write of one item reaches another or the space counted as
\* free.
RoomsAreApart ==
  ~overrun =>
    /\ \A i \in 1 .. Len(items) : \A b \in Room(i) : b < freeOffset
    /\ \A i, j \in 1 .. Len(items) : i < j => \A b \in Room(i) : b < items[j].offset

\* Until then, what is appended at free_offset does not leave data, and
\* mtd_vendor_write counts all of the space behind free_offset as free.  (The room
\* that an item lost when it shrank is before free_offset and counted by neither.)
FreeSpaceIsThere ==
  ~overrun =>
    /\ freeOffset + freeSize <= DataSize
    /\ driver = "mtd" => freeOffset + freeSize = DataSize
=============================================================================
