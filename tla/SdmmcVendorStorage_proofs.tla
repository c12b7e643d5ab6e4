---------------------- MODULE SdmmcVendorStorage_proofs ----------------------
(***************************************************************************)
(* Theorems about SdmmcVendorStorage, for any number of partitions,        *)
(* sectors and writes.  SInv is the inductive invariant.                   *)
(***************************************************************************)
EXTENDS SdmmcVendorStorage, WellFoundedInduction, TLAPS

-----------------------------------------------------------------------------
(* The inductive invariant *)

\* No structure has a version that its number of writes does not allow.
Versions ==
    /\ mem.version <= writes + 1
    /\ \A p \in Parts : \A s \in Sectors : disk[p][s].version <= writes + 1

\* A valid partition was written by one write, which knew the partition after it.
Whole ==
    \A p \in Valid : /\ \A s \in Sectors : disk[p][s] = disk[p][0]
                     /\ disk[p][0].next = NextPart(p)

\* No partition ends with a later version than the newest one.
Below ==
    \A p \in Parts : \/ disk[p][LastSector].version = 0
                     \/ /\ Valid # {}
                        /\ disk[p][LastSector].version <= disk[Newest][0].version

\* Between writes the structure in memory is that of the newest partition.
Idle ==
    pc = "idle" =>
        IF Valid = {} THEN mem.tag /\ mem.version = 1 /\ mem.next = 0 ELSE mem = disk[Newest][0]

\* A write has a version of its own and goes to a partition that is not the newest.
Writing ==
    pc = "write" =>
        /\ mem.tag /\ mem.version > 1 /\ mem.next = NextPart(part)
        /\ \A p \in Parts : disk[p][LastSector].version < mem.version
        /\ \A s \in Sectors : s < sector => disk[part][s] = mem
        /\ Valid # {} => part # Newest

\* What holds until a transfer fails.
Clean == faults = 0 /\ misread = {} => Whole /\ Below /\ Idle /\ Writing

\* The version a partition begins with, and the partition d behind p.
Ver(p) == disk[p][0].version
Forward(p, d) == IF p + d < NumParts THEN p + d ELSE p + d - NumParts

\* What a partition begins with knows the partition after it.
Headed == \A p \in Parts : Ver(p) > 0 => disk[p][0].tag /\ disk[p][0].next = NextPart(p)

\* So does the structure in memory, which has a version.
Ready ==
    /\ pc # "off" => mem.tag /\ mem.version > 0
    /\ pc = "write" => mem.next = NextPart(part)

\* The writes since the newest partition was written, in memory only.
Lead == mem.version - Ver(Newest)

\* They are as many as the partitions next_index went on, and each of them cost a
\* failed transfer: but for the one in progress, as long as its first sector is good.
Trails ==
    Valid # {} =>
        /\ pc = "idle" => Lead \in 0 .. faults /\ mem.next = Forward(Newest, Lead + 1)
        /\ pc = "write" => /\ Lead \in 0 .. faults + 1 /\ part = Forward(Newest, Lead)
                           /\ sector = 0 => Lead > 0
                           /\ sector = 0 \/ Lead <= faults \/ Ver(part) = mem.version

\* What holds until NumParts - 1 transfers to the card have failed or a load has not
\* read the first sector.
Kept == faults < NumParts - 1 /\ "head" \notin misread => Headed /\ Ready /\ Trails

SInv == TypeOK /\ Versions /\ Clean /\ Kept

-----------------------------------------------------------------------------
(* Facts about the choice of the newest partition *)

\* Every structure on the disk and in memory has its type.
LEMMA FirstSector ==
    ASSUME TypeOK
    PROVE  /\ 0 \in Sectors /\ LastSector \in Sectors /\ LastSector # 0
           /\ \A p \in Parts : \A s \in Sectors :
                 /\ disk[p][s] \in VendorType
                 /\ disk[p][s].version \in 0 .. MaxWrites + 1
                 /\ disk[p][s].tag \in BOOLEAN
                 /\ disk[p][s].items \in {Torn} \cup 0 .. MaxWrites
                 /\ disk[p][s].next \in Parts
<1>1. 0 \in Sectors /\ LastSector \in Sectors /\ LastSector # 0
    BY PartsAssumption DEF Sectors, LastSector
<1>2. ASSUME NEW p \in Parts, NEW s \in Sectors PROVE disk[p][s] \in VendorType
    BY DEF TypeOK
<1> QED BY <1>1, <1>2 DEF VendorType

\* A set of natural numbers has a least element.
LEMMA LeastElement ==
    ASSUME NEW T \in SUBSET Nat, T # {}
    PROVE  \E x \in T : \A y \in T : x <= y
<1>1. PICK x \in T : \A y \in T : ~ (<<y, x>> \in OpToRel(<, Nat))
    BY NatLessThanWellFounded, WFMin, Zenon
<1>2. ASSUME NEW y \in T PROVE x <= y
  <2> DEFINE less == {ss \in Nat \X Nat : ss[1] < ss[2]}
  <2>1. <<y, x>> \notin less
    BY <1>1 DEF OpToRel
  <2>2. x \in Nat /\ y \in Nat
    OBVIOUS
  <2>3. ~ (y < x)
    BY <2>1, <2>2
  <2> QED BY <2>2, <2>3
<1> QED BY <1>2

\* A partition q does not come before p in the choice of init.
NotBefore(q, p) ==
    \/ disk[q][0].version < disk[p][0].version
    \/ disk[q][0].version = disk[p][0].version /\ p <= q

\* There is one partition that Newest can choose.
LEMMA NewestIsValid ==
    ASSUME TypeOK, Valid # {}
    PROVE  /\ Newest \in Valid
           /\ \A q \in Valid : NotBefore(q, Newest)
<1> USE PartsAssumption
<1> DEFINE V(p) == disk[p][0].version
<1> DEFINE Gap(p) == MaxWrites + 1 - V(p)
<1>1. \A p \in Parts : V(p) \in 0 .. MaxWrites + 1
    BY FirstSector
<1>2. Valid \subseteq Parts /\ Parts \subseteq Nat
    BY DEF Valid, Parts
<1>3. \A p \in Valid : Gap(p) \in Nat
    BY <1>1, <1>2
<1>4. PICK g \in {Gap(p) : p \in Valid} : \A h \in {Gap(p) : p \in Valid} : g <= h
  <2> HIDE DEF Gap
  <2>1. {Gap(p) : p \in Valid} \in SUBSET Nat
    BY <1>3
  <2>2. {Gap(p) : p \in Valid} # {}
    OBVIOUS
  <2> QED BY <2>1, <2>2, LeastElement
<1>5. PICK m \in Valid : \A q \in Valid : V(q) <= V(m)
  <2>1. PICK m \in Valid : g = Gap(m)
    BY <1>4
  <2>2. \A q \in Valid : Gap(m) <= Gap(q)
    BY <1>4, <2>1
  <2> QED BY <2>1, <2>2, <1>1, <1>2
<1> DEFINE Top == {p \in Valid : V(p) = V(m)}
<1>6. PICK n \in Top : \A q \in Top : n <= q
    BY <1>2, LeastElement
<1>7. \A q \in Valid : NotBefore(q, n)
  <2> SUFFICES ASSUME NEW q \in Valid PROVE NotBefore(q, n)
    OBVIOUS
  <2>1. CASE V(q) = V(m)
    BY <2>1, <1>6 DEF NotBefore
  <2>2. CASE V(q) # V(m)
    BY <2>2, <1>1, <1>2, <1>5, <1>6 DEF NotBefore
  <2> QED BY <2>1, <2>2
<1>8. \E p \in Valid : \A q \in Valid : NotBefore(q, p)
    BY <1>6, <1>7
<1>9. Newest = CHOOSE p \in Valid : \A q \in Valid : NotBefore(q, p)
    BY DEF Newest, NotBefore
<1> HIDE DEF NotBefore
<1> QED BY <1>8, <1>9, Zenon

\* Only one partition comes before all others.
LEMMA ChoiceIsUnique ==
    ASSUME NEW S \in SUBSET Nat, NEW d, \A p \in S : d[p][0].version \in Nat,
           NEW n \in S,
           \A q \in S : \/ d[q][0].version < d[n][0].version
                        \/ d[q][0].version = d[n][0].version /\ n <= q
    PROVE  n = CHOOSE p \in S : \A q \in S :
                 \/ d[q][0].version < d[p][0].version
                 \/ d[q][0].version = d[p][0].version /\ p <= q
<1> DEFINE Before(q, p) == \/ d[q][0].version < d[p][0].version
                           \/ d[q][0].version = d[p][0].version /\ p <= q
<1> DEFINE c == CHOOSE p \in S : \A q \in S : Before(q, p)
<1>1. c \in S /\ \A q \in S : Before(q, c)
  <2> HIDE DEF Before
  <2>1. \A q \in S : Before(q, n)
    BY DEF Before
  <2> QED BY <2>1, Zenon
<1>2. Before(n, c) /\ Before(c, n)
    BY <1>1
<1> HIDE DEF c
<1>3. n \in Nat /\ c \in Nat /\ d[n][0].version \in Nat /\ d[c][0].version \in Nat
    BY <1>1
<1>4. n = c
    BY <1>2, <1>3
<1> QED BY <1>4 DEF c

-----------------------------------------------------------------------------
(* What a transfer does to the partitions *)

\* The partition that is written is not valid until its last sector is, and
\* then it is the newest one.
LEMMA TransferMovesNewest ==
    ASSUME TypeOK, faults = 0, misread = {}, Clean, Transfer
    PROVE  /\ \A p \in Parts \ {part} : disk'[p] = disk[p]
           /\ \A s \in Sectors \ {sector} : disk'[part][s] = disk[part][s]
           /\ disk'[part][sector] = mem
           /\ sector # LastSector =>
                /\ Valid' = Valid \ {part}
                /\ Valid # {} => Newest \in Valid' /\ Newest' = Newest
           /\ sector = LastSector =>
                /\ Valid' \subseteq Valid \cup {part}
                /\ \A s \in Sectors : disk'[part][s] = mem
                /\ part \in Valid' /\ Newest' = part
<1> USE FirstSector
<1>1. Writing /\ Whole /\ Below
    BY DEF Clean
<1>2. PICK w \in Parts, t \in Sectors : w = part /\ t = sector
    BY DEF TypeOK
<1>3. /\ pc = "write"
      /\ mem.tag /\ mem.version > 1 /\ mem.version \in Nat
      /\ \A p \in Parts : disk[p][LastSector].version < mem.version
      /\ \A s \in Sectors : s < t => disk[w][s] = mem
      /\ Valid # {} => w # Newest
    BY <1>1, <1>2 DEF Writing, Transfer, TypeOK, VendorType
<1>4. disk' = [disk EXCEPT ![w] = [disk[w] EXCEPT ![t] = mem]]
    BY <1>2 DEF Transfer
<1>5. /\ \A p \in Parts \ {w} : disk'[p] = disk[p]
      /\ \A s \in Sectors \ {t} : disk'[w][s] = disk[w][s]
      /\ disk'[w][t] = mem
    BY <1>2, <1>4 DEF TypeOK
<1>6. \A p \in Parts \ {w} : p \in Valid' <=> p \in Valid
    BY <1>5 DEF Valid
<1>7. Valid \subseteq Parts /\ Valid' \subseteq Parts /\ Parts \subseteq Nat
    BY DEF Valid, Parts
<1>8. ASSUME t # LastSector
      PROVE  /\ Valid' = Valid \ {w}
             /\ Valid # {} => Newest \in Valid' /\ Newest' = Newest
  <2>1. disk'[w][LastSector].version < mem.version
    BY <1>3, <1>5, <1>8
  <2>2. disk'[w][0] = mem
    <3>1. CASE t = 0
      BY <3>1, <1>5
    <3>2. CASE t # 0
      BY <3>2, <1>3, <1>5 DEF Sectors
    <3> QED BY <3>1, <3>2
  <2>3. w \notin Valid'
    BY <2>1, <2>2, <1>3 DEF Valid, TypeOK
  <2>4. Valid' = Valid \ {w}
    BY <2>3, <1>6, <1>7
  <2>5. ASSUME Valid # {} PROVE Newest \in Valid' /\ Newest' = Newest
    <3>1. PICK n : n = Newest
      OBVIOUS
    <3>2. n \in Valid /\ n # w /\ \A q \in Valid : NotBefore(q, n)
      BY <3>1, <2>5, <1>3, NewestIsValid
    <3>3. \A p \in Valid' : p \in Parts /\ p # w /\ disk'[p] = disk[p]
      BY <2>4, <1>5, <1>7
    <3>4. n \in Valid' /\ Valid' \in SUBSET Nat
      BY <3>2, <2>4, <1>7
    <3>5. \A p \in Valid' : disk'[p][0].version \in Nat
      BY <3>3
    <3>6. \A q \in Valid' : \/ disk'[q][0].version < disk'[n][0].version
                            \/ disk'[q][0].version = disk'[n][0].version /\ n <= q
      BY <3>2, <3>3, <3>4, <2>4 DEF NotBefore
    <3>7. n = Newest'
      BY <3>4, <3>5, <3>6, ChoiceIsUnique, Zenon DEF Newest
    <3> QED BY <3>1, <3>4, <3>7
  <2> QED BY <2>4, <2>5
<1>9. ASSUME t = LastSector
      PROVE  /\ Valid' \subseteq Valid \cup {w}
             /\ \A s \in Sectors : disk'[w][s] = mem
             /\ w \in Valid' /\ Newest' = w
  <2>1. \A s \in Sectors : disk'[w][s] = mem
    BY <1>3, <1>5, <1>9, PartsAssumption DEF Sectors, LastSector
  <2>2. w \in Valid'
    BY <2>1, <1>2, <1>3 DEF Valid
  <2>3. \A p \in Valid' : p # w => disk'[p] = disk[p] /\ p \in Valid
    BY <1>5, <1>6, <1>7
  <2>4. \A p \in Valid' : disk'[p][0].version \in Nat
    BY <2>1, <2>3, <1>3, <1>7
  <2>5. ASSUME NEW q \in Valid'
        PROVE  \/ disk'[q][0].version < disk'[w][0].version
               \/ disk'[q][0].version = disk'[w][0].version /\ w <= q
    <3>1. CASE q = w
      BY <3>1, <1>7
    <3>2. CASE q # w
      <4>1. disk'[q][0].version = disk[q][LastSector].version
        BY <3>2, <2>3 DEF Valid
      <4>2. disk'[q][0].version < mem.version
        BY <4>1, <1>3, <1>7
      <4> QED BY <4>2, <2>1
    <3> QED BY <3>1, <3>2
  <2>6. Valid' \in SUBSET Nat
    BY <1>7
  <2>7. w = Newest'
    BY <2>2, <2>4, <2>5, <2>6, ChoiceIsUnique, Zenon DEF Newest
  <2> QED BY <2>1, <2>2, <2>3, <2>7
<1> QED BY <1>2, <1>5, <1>8, <1>9

-----------------------------------------------------------------------------
(* The invariant is inductive *)

LEMMA InitSInv == Init => SInv
<1> SUFFICES ASSUME Init PROVE SInv
    OBVIOUS
<1> USE PartsAssumption
<1>1. Blank \in VendorType /\ Blank.version = 0
    BY PartsAssumption DEF Blank, VendorType, Parts
<1>2. TypeOK
    BY <1>1 DEF Init, TypeOK, Parts, Sectors
<1>3. \A p \in Parts : \A s \in Sectors : disk[p][s] = Blank
    BY DEF Init
<1>4. Versions
    BY <1>1, <1>3 DEF Init, Versions
<1>5. Valid = {}
    BY <1>1, <1>3, <1>2, FirstSector DEF Valid
<1>6. Whole /\ Below
    BY <1>1, <1>2, <1>3, <1>5, FirstSector DEF Whole, Below
<1>7. Idle /\ Writing
    BY DEF Init, Idle, Writing
<1>8. Headed
    BY <1>1, <1>2, <1>3, FirstSector DEF Headed, Ver
<1>9. Ready /\ Trails
    BY <1>5 DEF Init, Ready, Trails
<1> QED BY <1>2, <1>4, <1>6, <1>7, <1>8, <1>9 DEF SInv, Clean, Kept

\* Where the next write goes.
LEMMA NextPartType ==
    ASSUME NEW p \in Parts
    PROVE  NextPart(p) \in Parts /\ NextPart(p) # p
BY PartsAssumption DEF Parts, NextPart

LEMMA StepTypeOK ==
    ASSUME TypeOK, Versions, [Next]_vars
    PROVE  TypeOK' /\ Versions'
<1> USE PartsAssumption, FirstSector
<1> DEFINE OneSector == \E d \in VendorType : disk' = [disk EXCEPT ![part][sector] = d]
<1>0. Blank \in VendorType /\ Blank.version = 0
    BY PartsAssumption DEF Blank, VendorType, Parts
<1>1. CASE Boot
  <2>1. mem' \in VendorType /\ mem'.version <= writes + 1
    <3>1. CASE Valid = {}
      BY <3>1, <1>1 DEF Boot, Vendor, VendorType, Parts, TypeOK
    <3>2. CASE Valid # {}
      <4>1. PICK p \in Parts : p = Newest
        BY <3>2, NewestIsValid DEF Valid
      <4>2. mem' = Loaded(p)
        BY <4>1, <3>2, <1>1 DEF Boot
      <4>3. mem'.version = disk[p][0].version
        BY <4>2 DEF Loaded
      <4>4. mem' \in VendorType
        BY <4>2 DEF Loaded, VendorType
      <4> QED BY <4>3, <4>4 DEF Versions
    <3> QED BY <3>1, <3>2
  <2> QED BY <2>1, <1>1 DEF Boot, TypeOK, Versions
<1>11. CASE BootMisread
  <2>1. PICK p \in Parts : mem' = [disk[p][0] EXCEPT !.items = Torn]
    <3>1. PICK p \in {Newest, NumParts - 1} : mem' = [disk[p][0] EXCEPT !.items = Torn]
      BY <1>11 DEF BootMisread
    <3>2. Newest \in Parts
      BY <1>11, NewestIsValid DEF BootMisread, Valid
    <3>3. NumParts - 1 \in Parts
      BY PartsAssumption DEF Parts
    <3> QED BY <3>1, <3>2, <3>3
  <2>2. mem' \in VendorType /\ mem'.version = disk[p][0].version
    BY <2>1 DEF VendorType
  <2>3. mem'.version <= writes + 1
    BY <2>2 DEF Versions
  <2>4. misread' \subseteq {"head", "items"}
    BY <1>11 DEF BootMisread, TypeOK
  <2> QED BY <2>2, <2>3, <2>4, <1>11 DEF BootMisread, TypeOK, Versions
<1>2. CASE Write
  <2>1. mem.tag \in BOOLEAN /\ mem.next \in Parts /\ mem.version \in 0 .. MaxWrites + 1
    BY DEF TypeOK, VendorType
  <2>2. writes' = writes + 1 /\ writes' \in 0 .. MaxWrites
    BY <1>2 DEF Write, TypeOK
  <2>3. mem.version + 1 \in 0 .. MaxWrites + 1 /\ mem.version + 1 <= writes' + 1
    BY <2>1, <2>2 DEF Versions, TypeOK
  <2>4. mem' \in VendorType /\ mem'.version = mem.version + 1
    BY <2>1, <2>2, <2>3, <1>2, NextPartType DEF Write, VendorType
  <2>5. TypeOK'
    BY <2>1, <2>2, <2>4, <1>2 DEF Write, TypeOK
  <2>6. Versions'
    <3>1. ASSUME NEW p \in Parts, NEW s \in Sectors PROVE disk'[p][s].version <= writes' + 1
      <4>1. disk[p][s].version <= writes + 1 /\ disk[p][s].version \in Int
        BY DEF Versions
      <4>2. disk' = disk /\ writes \in Int
        BY <1>2 DEF Write, TypeOK
      <4> QED BY <4>1, <4>2, <2>2
    <3> QED BY <3>1, <2>3, <2>4 DEF Versions
  <2> QED BY <2>5, <2>6
<1>3. ASSUME SectorDone PROVE mem' = mem /\ part' = part /\ writes' = writes /\ misread' = misread
                              /\ sector' \in Sectors /\ pc' \in {"idle", "write"}
    BY <1>3 DEF SectorDone, TypeOK, Sectors, LastSector
<1>4. CASE Transfer
  <2>1. SectorDone /\ faults' = faults
    BY <1>4 DEF Transfer
  <2>2. PICK w \in Parts, t \in Sectors : w = part /\ t = sector
    BY DEF TypeOK
  <2>3. disk' = [disk EXCEPT ![w] = [disk[w] EXCEPT ![t] = mem]]
    BY <2>2, <1>4 DEF Transfer
  <2>4. disk' \in [Parts -> [Sectors -> VendorType]]
    BY <2>3 DEF TypeOK
  <2>5. TypeOK'
    BY <2>1, <2>4, <1>3 DEF TypeOK
  <2>6. ASSUME NEW p \in Parts, NEW s \in Sectors PROVE disk'[p][s].version <= writes + 1
    <3>1. disk'[p][s] = mem \/ disk'[p][s] = disk[p][s]
      BY <2>3 DEF TypeOK
    <3> QED BY <3>1 DEF Versions
  <2>7. Versions'
    BY <2>1, <2>6, <1>3 DEF Versions
  <2> QED BY <2>5, <2>7
<1>5. CASE TransferFail
  <2>1. SectorDone /\ disk' = disk /\ faults' \in 0 .. MaxFaults
    BY <1>5 DEF TransferFail, TypeOK
  <2> QED BY <2>1, <1>3 DEF TypeOK, Versions
<1>6. CASE PowerLoss
  <2>1. 0 \in Parts /\ 0 <= writes + 1
    BY DEF Parts, TypeOK
  <2> QED BY <1>6, <1>0, <2>1 DEF PowerLoss, TypeOK, Versions
<1>7. CASE UNCHANGED vars
    BY <1>7 DEF vars, TypeOK, Versions
<1> QED BY <1>1, <1>11, <1>2, <1>4, <1>5, <1>6, <1>7 DEF Next

\* The choice of init depends on the disk only.
LEMMA SameDisk ==
    ASSUME disk' = disk
    PROVE  Valid' = Valid /\ Newest' = Newest
BY DEF Valid, Newest

LEMMA StepClean ==
    ASSUME TypeOK, Versions, Clean, [Next]_vars
    PROVE  Clean'
<1> USE FirstSector
<1> SUFFICES ASSUME faults' = 0, misread' = {}
             PROVE  Whole' /\ Below' /\ Idle' /\ Writing'
    BY DEF Clean
<1>1. CASE Boot
  <2>1. /\ faults = 0 /\ misread = {} /\ disk' = disk /\ pc' = "idle"
        /\ Valid' = Valid /\ Newest' = Newest
    BY <1>1, SameDisk DEF Boot
  <2>2. Whole /\ Below
    BY <2>1 DEF Clean
  <2>3. Whole' /\ Below'
    BY <2>1, <2>2 DEF Whole, Below
  <2>4. Idle'
    <3>1. CASE Valid = {}
      BY <3>1, <2>1, <1>1 DEF Boot, Idle, Vendor
    <3>2. CASE Valid # {}
      <4>1. PICK p \in Parts : p = Newest /\ p \in Valid
        BY <3>2, NewestIsValid DEF Valid
      <4>2. \A s \in Sectors : disk[p][s] = disk[p][0]
        BY <4>1, <2>2 DEF Whole
      <4>3. Loaded(p) = disk[p][0]
        BY <4>2 DEF Loaded, VendorType
      <4>4. mem' = disk[p][0]
        BY <4>1, <4>3, <3>2, <1>1 DEF Boot
      <4> QED BY <4>1, <4>4, <3>2, <2>1 DEF Idle
    <3> QED BY <3>1, <3>2
  <2> QED BY <2>1, <2>3, <2>4 DEF Writing
<1>2. CASE Write
  <2>1. /\ faults = 0 /\ misread = {} /\ disk' = disk /\ pc' = "write"
        /\ Valid' = Valid /\ Newest' = Newest
    BY <1>2, SameDisk DEF Write
  <2>2. Whole /\ Below /\ Idle /\ pc = "idle"
    BY <2>1, <1>2 DEF Clean, Write
  <2>3. Whole' /\ Below' /\ Idle'
    BY <2>1, <2>2 DEF Whole, Below, Idle
  <2>4. /\ mem'.tag = mem.tag /\ mem'.version = mem.version + 1
        /\ mem'.next = NextPart(part')
        /\ part' = mem.next /\ sector' = 0
    BY <1>2 DEF Write
  <2>5. CASE Valid = {}
    <3>1. mem.tag /\ mem.version = 1
      BY <2>2, <2>5 DEF Idle
    <3>2. \A p \in Parts : disk[p][LastSector].version = 0
      BY <2>2, <2>5 DEF Below
    <3>3. \A s \in Sectors : ~ (s < 0)
      BY PartsAssumption DEF Sectors
    <3> QED BY <2>1, <2>3, <2>4, <2>5, <3>1, <3>2, <3>3 DEF Writing
  <2>6. CASE Valid # {}
    <3>1. PICK p \in Parts : p = Newest /\ p \in Valid
      BY <2>6, NewestIsValid DEF Valid
    <3>2. mem = disk[p][0]
      BY <3>1, <2>2, <2>6 DEF Idle
    <3>3. mem.next # p
      BY <3>1, <3>2, <2>2, NextPartType DEF Whole
    <3>4. mem.tag /\ mem.version > 0 /\ mem.version \in Nat
      BY <3>1, <3>2 DEF Valid
    <3>5. \A q \in Parts : disk[q][LastSector].version < mem.version + 1
      BY <3>1, <3>2, <3>4, <2>2 DEF Below
    <3>6. \A s \in Sectors : ~ (s < 0)
      BY PartsAssumption DEF Sectors
    <3>7. mem'.tag /\ mem'.version > 1
      BY <2>4, <3>4
    <3>8. \A q \in Parts : disk'[q][LastSector].version < mem'.version
      BY <2>1, <2>4, <3>5
    <3>9. part' # Newest'
      BY <2>1, <2>4, <3>1, <3>3
    <3>10. \A s \in Sectors : s < sector' => disk'[part'][s] = mem'
      BY <2>4, <3>6
    <3> QED BY <2>3, <2>4, <3>7, <3>8, <3>9, <3>10 DEF Writing
  <2> QED BY <2>5, <2>6
<1>3. CASE Transfer
  <2>1. /\ faults = 0 /\ misread = {} /\ pc = "write" /\ SectorDone
        /\ mem' = mem /\ part' = part
    BY <1>3 DEF Transfer, SectorDone
  <2>2. PICK w \in Parts, t \in Sectors : w = part /\ t = sector
    BY DEF TypeOK
  <2>3. Whole /\ Below /\ Writing
    BY <2>1 DEF Clean
  <2>4. /\ mem.tag /\ mem.version > 1 /\ mem.version \in Nat /\ mem.next = NextPart(w)
        /\ \A p \in Parts : disk[p][LastSector].version < mem.version
        /\ \A s \in Sectors : s < t => disk[w][s] = mem
        /\ Valid # {} => w # Newest
    BY <2>1, <2>2, <2>3 DEF Writing, TypeOK, VendorType
  <2>5. /\ \A p \in Parts \ {w} : disk'[p] = disk[p]
        /\ \A s \in Sectors \ {t} : disk'[w][s] = disk[w][s]
        /\ disk'[w][t] = mem
        /\ t # LastSector =>
             /\ Valid' = Valid \ {w}
             /\ Valid # {} => Newest \in Valid' /\ Newest' = Newest
        /\ t = LastSector =>
             /\ Valid' \subseteq Valid \cup {w}
             /\ \A s \in Sectors : disk'[w][s] = mem
             /\ w \in Valid' /\ Newest' = w
    BY <2>1, <2>2, <1>3, TransferMovesNewest
  <2>6. Valid \subseteq Parts /\ Valid' \subseteq Parts
    BY DEF Valid
  <2>7. CASE t # LastSector
    <3>1. pc' = "write" /\ sector' = t + 1
      BY <2>1, <2>2, <2>7 DEF SectorDone
    <3>2. Whole'
      BY <2>3, <2>5, <2>6, <2>7 DEF Whole
    <3>3. Below'
      <4> SUFFICES ASSUME NEW p \in Parts, disk'[p][LastSector].version # 0
                   PROVE  Valid' # {} /\ disk'[p][LastSector].version <= disk'[Newest'][0].version
        BY DEF Below
      <4>1. disk'[p][LastSector] = disk[p][LastSector]
        BY <2>5, <2>7
      <4>2. Valid # {} /\ disk[p][LastSector].version <= disk[Newest][0].version
        BY <4>1, <2>3 DEF Below
      <4>3. PICK n : n = Newest
        OBVIOUS
      <4>4. n \in Valid' /\ n = Newest' /\ n # w /\ n \in Parts
        BY <4>2, <4>3, <2>4, <2>5, <2>6, <2>7
      <4> QED BY <4>1, <4>2, <4>3, <4>4, <2>5
    <3>4. Idle'
      BY <3>1 DEF Idle
    <3>5. \A p \in Parts : disk'[p][LastSector].version < mem.version
      BY <2>4, <2>5, <2>7
    <3>6. ASSUME NEW s \in Sectors, s < t + 1 PROVE disk'[w][s] = mem
      <4>1. s = t \/ s < t
        BY <3>6 DEF Sectors
      <4> QED BY <4>1, <2>4, <2>5 DEF Sectors
    <3>7. Valid' # {} => w # Newest'
      BY <2>4, <2>5, <2>7
    <3>8. Writing'
      BY <2>1, <2>2, <2>4, <3>1, <3>5, <3>6, <3>7 DEF Writing
    <3> QED BY <3>2, <3>3, <3>4, <3>8
  <2>8. CASE t = LastSector
    <3>1. pc' = "idle"
      BY <2>1, <2>2, <2>8 DEF SectorDone
    <3>2. Whole'
      BY <2>3, <2>4, <2>5, <2>6, <2>8 DEF Whole
    <3>3. \A p \in Parts : disk'[p][LastSector].version <= mem.version
      BY <2>4, <2>5, <2>8
    <3>4. Valid' # {} /\ disk'[Newest'][0] = mem
      BY <2>5, <2>8
    <3>5. Below' /\ Idle'
      BY <2>1, <3>3, <3>4 DEF Below, Idle
    <3> QED BY <3>1, <3>2, <3>5 DEF Writing
  <2> QED BY <2>7, <2>8
<1>4. CASE TransferFail
    BY <1>4 DEF TransferFail, TypeOK
<1>7. CASE BootMisread
    BY <1>7 DEF BootMisread
<1>5. CASE PowerLoss
  <2>1. /\ faults = 0 /\ misread = {} /\ disk' = disk /\ pc' = "off"
        /\ Valid' = Valid /\ Newest' = Newest
    BY <1>5, SameDisk DEF PowerLoss
  <2> QED BY <2>1 DEF Clean, Whole, Below, Idle, Writing
<1>6. CASE UNCHANGED vars
  <2>1. /\ faults = 0 /\ misread = {} /\ disk' = disk /\ mem' = mem /\ part' = part /\ sector' = sector
        /\ pc' = pc /\ Valid' = Valid /\ Newest' = Newest
    BY <1>6, SameDisk DEF vars
  <2> QED BY <2>1 DEF Clean, Whole, Below, Idle, Writing
<1> QED BY <1>1, <1>2, <1>3, <1>4, <1>5, <1>6, <1>7 DEF Next

-----------------------------------------------------------------------------
(* What remains when transfers fail *)

\* The partition d behind another one.
LEMMA ForwardFacts ==
    ASSUME NEW p \in Parts, NEW d \in Nat, d < NumParts
    PROVE  /\ Forward(p, d) \in Parts
           /\ Forward(p, d) = p <=> d = 0
           /\ Forward(p, 0) = p /\ Forward(p, 1) = NextPart(p)
           /\ NextPart(Forward(p, d)) = Forward(p, d + 1)
BY PartsAssumption DEF Parts, Forward, NextPart

\* A partition whose version is above all others is the newest one.
LEMMA GreatestIsNewest ==
    ASSUME TypeOK', NEW w \in Valid',
           \A q \in Valid' : q # w => disk'[q][0].version < disk'[w][0].version
    PROVE  Newest' = w
<1>1. Valid' \in SUBSET Nat
    BY PartsAssumption DEF Valid, Parts
<1>2. \A q \in Valid' : disk'[q][0].version \in Nat
  <2>1. \A q \in Parts : \A s \in Sectors : disk'[q][s] \in VendorType
    BY DEF TypeOK
  <2>2. 0 \in Sectors
    BY PartsAssumption DEF Sectors
  <2> QED BY <2>1, <2>2 DEF Valid, VendorType
<1>3. \A q \in Valid' : \/ disk'[q][0].version < disk'[w][0].version
                        \/ disk'[q][0].version = disk'[w][0].version /\ w <= q
    BY <1>1
<1>4. w = CHOOSE p \in Valid' : \A q \in Valid' :
            \/ disk'[q][0].version < disk'[p][0].version
            \/ disk'[q][0].version = disk'[p][0].version /\ p <= q
    BY <1>1, <1>2, <1>3, ChoiceIsUnique, Zenon
<1> QED BY <1>4, Zenon DEF Newest

\* The newest partition stays it when no other becomes valid or changes.
LEMMA NewestStays ==
    ASSUME TypeOK, Valid # {}, Valid' \subseteq Valid, Newest \in Valid',
           \A p \in Valid' : disk'[p][0].version = disk[p][0].version
    PROVE  Newest' = Newest
<1>1. PICK n \in Valid : n = Newest /\ \A q \in Valid : NotBefore(q, n)
    BY NewestIsValid
<1>2. Valid' \in SUBSET Nat
    BY PartsAssumption DEF Valid, Parts
<1>3. \A p \in Valid' : disk'[p][0].version \in Nat
    BY FirstSector DEF Valid
<1>4. \A q \in Valid' : \/ disk'[q][0].version < disk'[n][0].version
                        \/ disk'[q][0].version = disk'[n][0].version /\ n <= q
    BY <1>1 DEF NotBefore
<1>5. n \in Valid'
    BY <1>1
<1>6. n = CHOOSE p \in Valid' : \A q \in Valid' :
            \/ disk'[q][0].version < disk'[p][0].version
            \/ disk'[q][0].version = disk'[p][0].version /\ p <= q
    BY <1>2, <1>3, <1>4, <1>5, ChoiceIsUnique, Zenon
<1>7. n = Newest'
    BY <1>6, Zenon DEF Newest
<1> QED BY <1>1, <1>7

\* Two numbers without a difference are one.
LEMMA NoDifference == \A a, b \in Nat : a - b = 0 => b = a
OBVIOUS

\* A transfer either makes the partition that is written the newest one, or
\* leaves the newest one, or there is none.
LEMMA TransferKeepsNewest ==
    ASSUME TypeOK, TypeOK', faults < NumParts - 1, Headed, Ready, Trails, Transfer
    PROVE  \/ Valid' = {}
           \/ part \in Valid' /\ Newest' = part /\ disk'[part][0].version = mem.version
           \/ /\ Valid # {} /\ Newest' = Newest /\ Newest # part
              /\ disk'[Newest][0].version = Ver(Newest)
              /\ sector = LastSector => Ver(part) # mem.version
<1> USE FirstSector
<1>1. PICK w \in Parts, t \in Sectors : w = part /\ t = sector
    BY DEF TypeOK
<1>2. /\ \A p \in Parts \ {w} : disk'[p] = disk[p]
      /\ \A s \in Sectors \ {t} : disk'[w][s] = disk[w][s]
      /\ disk'[w][t] = mem
  <2>1. disk' = [disk EXCEPT ![w] = [disk[w] EXCEPT ![t] = mem]]
    BY <1>1 DEF Transfer
  <2> QED BY <2>1 DEF TypeOK
<1>3. pc = "write" /\ mem.tag /\ mem.version > 0 /\ mem.version \in Nat
    BY DEF Transfer, Ready, TypeOK, VendorType
<1>4. /\ \A p \in Parts \ {w} : p \in Valid' <=> p \in Valid
      /\ Valid \subseteq Parts /\ Valid' \subseteq Parts
    BY <1>2 DEF Valid
<1>5. \A q \in Valid' \ {w} : q \in Valid /\ disk'[q][0].version = disk[q][0].version
    BY <1>2, <1>4
<1>6. ASSUME w \in Valid', w \notin Valid \/ t = 0 \/ t = LastSector
      PROVE  disk'[w][0].version = mem.version
    BY <1>2, <1>6 DEF Valid
<1>7. CASE Valid = {}
  <2>1. Valid' \subseteq {w}
    BY <1>5, <1>7
  <2>2. CASE Valid' # {}
    <3>1. w \in Valid' /\ disk'[w][0].version = mem.version
      BY <1>6, <1>7, <2>1, <2>2
    <3>2. Newest' = w
      BY <2>1, <3>1, GreatestIsNewest
    <3> QED BY <1>1, <3>1, <3>2
  <2> QED BY <2>2
<1>8. CASE Valid # {}
  <2>1. PICK n \in Valid : n = Newest /\ \A q \in Valid : NotBefore(q, n)
    BY <1>8, NewestIsValid
  <2>2. /\ Lead \in 0 .. faults + 1 /\ w = Forward(n, Lead) /\ (t = 0 => Lead > 0)
        /\ Lead = mem.version - Ver(n) /\ faults \in Nat /\ n \in Parts /\ Ver(n) \in Nat
    BY <1>1, <1>3, <1>8, <2>1 DEF Trails, Lead, Valid, Ver, TypeOK
  <2>3. Lead \in Nat /\ Lead < NumParts
    BY <2>2, PartsAssumption
  <2>4. w = n <=> Lead = 0
    BY <2>2, <2>3, ForwardFacts
  <2>5. CASE w = n
    <3>1. Lead = 0 /\ Ver(w) = mem.version /\ t # 0
      <4>1. Lead = 0 /\ t # 0
        BY <2>2, <2>4, <2>5
      <4>2. \A a, b \in Nat : a - b = 0 => b = a
        BY NoDifference
      <4>3. mem.version - Ver(n) = 0 /\ mem.version \in Nat /\ Ver(n) \in Nat
        BY <1>3, <2>2, <4>1
      <4>4. Ver(n) = mem.version
        BY <4>2, <4>3
      <4> QED BY <2>5, <4>1, <4>4
    <3>2. disk'[w][0].version = mem.version
      BY <1>2, <3>1 DEF Ver
    <3>3. w \in Valid'
      BY <1>2, <1>3, <2>5, <3>1, <3>2 DEF Valid, Ver
    <3>4. Valid' \subseteq Valid
      BY <1>5, <2>5
    <3>5. \A p \in Valid' : disk'[p][0].version = disk[p][0].version
      BY <1>5, <3>1, <3>2 DEF Ver
    <3>6. Newest' = w
      BY <1>8, <2>1, <2>5, <3>3, <3>4, <3>5, NewestStays
    <3> QED BY <1>1, <3>2, <3>3, <3>6
  <2>6. CASE w # n
    <3>1. Lead > 0 /\ Ver(n) < mem.version
      BY <1>3, <2>2, <2>4, <2>6
    <3>2. n \in Valid' /\ disk'[n][0].version = Ver(n)
      BY <1>2, <1>4, <2>1, <2>6 DEF Ver
    <3>3. CASE w \in Valid' /\ (w \notin Valid \/ t = 0 \/ t = LastSector)
      <4>1. disk'[w][0].version = mem.version
        BY <1>6, <3>3
      <4>2. ASSUME NEW q \in Valid', q # w PROVE disk'[q][0].version < disk'[w][0].version
        <5>1. q \in Valid /\ disk'[q][0].version = Ver(q)
          BY <1>5, <4>2 DEF Ver
        <5>2. Ver(q) <= Ver(n) /\ Ver(q) \in Nat
          BY <1>4, <2>1, <5>1 DEF NotBefore, Ver
        <5> QED BY <1>3, <2>2, <3>1, <4>1, <5>1, <5>2
      <4>3. Newest' = w
        BY <3>3, <4>2, GreatestIsNewest
      <4> QED BY <1>1, <3>3, <4>1, <4>3
    <3>4. CASE ~ (w \in Valid' /\ (w \notin Valid \/ t = 0 \/ t = LastSector))
      <4>1. Valid' \subseteq Valid
        BY <1>5, <3>4
      <4>2. \A p \in Valid' : disk'[p][0].version = disk[p][0].version
        BY <1>2, <1>5, <3>4
      <4>3. Newest' = n
        BY <1>8, <2>1, <3>2, <4>1, <4>2, NewestStays
      <4>4. ASSUME t = LastSector PROVE Ver(w) # mem.version
        <5>1. w \notin Valid' /\ t # 0
          BY <3>4, <4>4
        <5>2. Ver(w) > 0 => disk[w][0].tag
          BY DEF Headed
        <5> QED BY <1>2, <1>3, <4>4, <5>1, <5>2 DEF Valid, Ver
      <4> QED BY <1>1, <1>8, <2>1, <2>6, <3>2, <4>3, <4>4
    <3> QED BY <3>3, <3>4
  <2> QED BY <2>5, <2>6
<1> QED BY <1>7, <1>8

\* The newest partition is ahead of the write as long as partitions are left.
LEMMA StepKept ==
    ASSUME TypeOK, TypeOK', Kept, [Next]_vars
    PROVE  Kept'
<1> USE FirstSector, PartsAssumption
<1> SUFFICES ASSUME faults' < NumParts - 1, "head" \notin misread'
             PROVE  Headed' /\ Ready' /\ Trails'
    BY DEF Kept
<1>1. /\ faults \in Nat /\ (faults' = faults \/ faults' = faults + 1)
      /\ "head" \notin misread
    BY DEF Next, Boot, BootMisread, Write, Transfer, TransferFail, SectorDone, PowerLoss, vars, TypeOK
<1>2. Headed /\ Ready /\ Trails /\ faults < NumParts - 1
    BY <1>1 DEF Kept
<1>3. ASSUME disk' = disk
      PROVE  Headed' /\ Valid' = Valid /\ Newest' = Newest /\ \A p \in Parts : Ver(p)' = Ver(p)
    BY <1>2, <1>3, SameDisk DEF Headed, Ver
<1>4. ASSUME Valid # {}
      PROVE  \E n \in Parts : n = Newest /\ n \in Valid /\ Ver(n) > 0 /\ Ver(n) \in Nat
    BY <1>4, NewestIsValid DEF Valid, Ver
<1>5. CASE Boot \/ BootMisread
  <2>1. disk' = disk /\ pc' = "idle" /\ faults' = faults
    BY <1>5 DEF Boot, BootMisread
  <2>2. CASE Valid = {}
    <3>1. mem'.tag /\ mem'.version = 1
      BY <1>5, <2>2 DEF Boot, BootMisread, Vendor
    <3> QED BY <1>3, <2>1, <2>2, <3>1 DEF Ready, Trails
  <2>3. CASE Valid # {}
    <3>1. PICK n \in Parts : n = Newest /\ n \in Valid /\ Ver(n) > 0 /\ Ver(n) \in Nat
      BY <1>4, <2>3
    <3>2. mem'.tag /\ mem'.version = Ver(n) /\ mem'.next = NextPart(n)
      <4>1. \E k \in {Torn} \cup 0 .. MaxWrites : mem' = [disk[n][0] EXCEPT !.items = k]
        <5>1. CASE Boot
          <6>1. mem' = Loaded(n)
            BY <2>3, <3>1, <5>1 DEF Boot
          <6> QED BY <6>1 DEF Loaded
        <5>2. CASE BootMisread
          BY <3>1, <5>2 DEF BootMisread
        <5> QED BY <1>5, <5>1, <5>2
      <4> QED BY <1>2, <3>1, <4>1 DEF Ver, Headed, VendorType
    <3>3. mem'.next = Forward(n, 0 + 1)
      BY <3>2, ForwardFacts
    <3>4. Lead' = 0
      BY <1>3, <2>1, <3>1, <3>2 DEF Lead
    <3> QED BY <1>1, <1>3, <2>1, <3>1, <3>2, <3>3, <3>4 DEF Ready, Trails
  <2> QED BY <2>2, <2>3
<1>6. CASE Write
  <2>1. /\ disk' = disk /\ pc = "idle" /\ pc' = "write" /\ faults' = faults
        /\ mem'.tag = mem.tag /\ mem'.version = mem.version + 1
        /\ mem'.next = NextPart(part')
        /\ part' = mem.next /\ sector' = 0
    BY <1>6 DEF Write
  <2>2. mem.version \in Nat /\ mem'.tag /\ mem'.version > 0
    BY <1>2, <2>1 DEF Ready, TypeOK, VendorType
  <2>3. Ready'
    BY <2>1, <2>2 DEF Ready
  <2>4. ASSUME Valid # {} PROVE Trails'
    <3>1. PICK n \in Parts : n = Newest /\ n \in Valid /\ Ver(n) > 0 /\ Ver(n) \in Nat
      BY <1>4, <2>4
    <3>2. Lead \in 0 .. faults /\ mem.next = Forward(n, Lead + 1)
      BY <1>2, <2>1, <2>4, <3>1 DEF Trails
    <3>3. Lead' = Lead + 1
      BY <1>3, <2>1, <2>2, <3>1 DEF Lead
    <3> QED BY <1>1, <1>3, <2>1, <3>1, <3>2, <3>3 DEF Trails
  <2> QED BY <1>3, <2>1, <2>3, <2>4 DEF Trails
<1>7. ASSUME SectorDone
      PROVE  /\ mem' = mem /\ part' = part
             /\ sector = LastSector => pc' = "idle"
             /\ sector # LastSector => pc' = "write" /\ sector' = sector + 1 /\ sector' # 0
    BY <1>7 DEF SectorDone, TypeOK, Sectors
<1>8. CASE Transfer
  <2>1. SectorDone /\ faults' = faults /\ pc = "write"
    BY <1>8 DEF Transfer
  <2>2. PICK w \in Parts, t \in Sectors : w = part /\ t = sector
    BY DEF TypeOK
  <2>3. /\ mem.tag /\ mem.version > 0 /\ mem.version \in Nat /\ mem.next = NextPart(w)
    BY <1>2, <2>1, <2>2 DEF Ready, TypeOK, VendorType
  <2>4. disk' = [disk EXCEPT ![w] = [disk[w] EXCEPT ![t] = mem]]
    BY <1>8, <2>2 DEF Transfer
  <2>5. Headed'
    <3>1. \A p \in Parts : disk'[p][0] = disk[p][0] \/ (p = w /\ disk'[p][0] = mem)
      BY <2>4 DEF TypeOK
    <3> QED BY <1>2, <2>3, <3>1 DEF Headed, Ver
  <2>6. Ready'
    BY <1>2, <1>7, <2>1 DEF Ready
  <2>7. CASE Valid' = {}
    BY <2>5, <2>6, <2>7 DEF Trails
  <2>8. CASE part \in Valid' /\ Newest' = part /\ disk'[part][0].version = mem.version
    <3>1. Lead' = 0
      BY <1>7, <2>1, <2>3, <2>8 DEF Lead, Ver
    <3>2. mem.next = Forward(w, 0 + 1) /\ w = Forward(w, 0)
      BY <2>3, ForwardFacts
    <3> QED BY <1>1, <1>7, <2>1, <2>2, <2>5, <2>6, <2>8, <3>1, <3>2 DEF Trails
  <2>9. CASE /\ Valid # {} /\ Newest' = Newest /\ Newest # part
             /\ disk'[Newest][0].version = Ver(Newest)
             /\ sector = LastSector => Ver(part) # mem.version
    <3>1. PICK n \in Parts : n = Newest /\ n \in Valid /\ Ver(n) > 0 /\ Ver(n) \in Nat
      BY <1>4, <2>9
    <3>2. /\ Lead \in 0 .. faults + 1 /\ w = Forward(n, Lead)
          /\ t = 0 \/ Lead <= faults \/ Ver(w) = mem.version
      BY <1>2, <2>1, <2>2, <2>9, <3>1 DEF Trails
    <3>3. Lead' = Lead
      BY <1>7, <2>1, <2>9, <3>1 DEF Lead, Ver
    <3>4. CASE t = LastSector
      <4>1. Lead \in 0 .. faults
        BY <2>2, <2>9, <3>2, <3>4
      <4>2. Lead \in Nat /\ Lead < NumParts
        BY <1>1, <1>2, <4>1
      <4>3. mem.next = Forward(n, Lead + 1)
        BY <2>3, <3>2, <4>2, ForwardFacts
      <4> QED BY <1>7, <2>1, <2>2, <2>5, <2>6, <2>9, <3>1, <3>3, <3>4, <4>1, <4>3 DEF Trails
    <3>5. CASE t # LastSector
      <4>1. Lead <= faults \/ disk'[w][0].version = mem.version
        BY <2>4, <3>2 DEF TypeOK, Ver
      <4> QED BY <1>7, <2>1, <2>2, <2>5, <2>6, <2>9, <3>1, <3>2, <3>3, <3>5, <4>1 DEF Trails, Ver
    <3> QED BY <3>4, <3>5
  <2> QED BY <1>2, <1>8, <2>7, <2>8, <2>9, TransferKeepsNewest
<1>9. CASE TransferFail
  <2>1. SectorDone /\ faults' = faults + 1 /\ pc = "write" /\ disk' = disk
    BY <1>9 DEF TransferFail
  <2>2. Ready'
    BY <1>2, <1>7, <2>1 DEF Ready
  <2>3. ASSUME Valid # {} PROVE Trails'
    <3>1. PICK n \in Parts : n = Newest /\ n \in Valid /\ Ver(n) > 0 /\ Ver(n) \in Nat
      BY <1>4, <2>3
    <3>2. Lead \in 0 .. faults + 1 /\ part = Forward(n, Lead) /\ mem.next = NextPart(part)
      BY <1>2, <2>1, <2>3, <3>1 DEF Trails, Ready
    <3>3. Lead' = Lead
      BY <1>3, <1>7, <2>1, <3>1 DEF Lead
    <3>4. mem.next = Forward(n, Lead + 1)
      <4>1. Lead \in Nat /\ Lead < NumParts
        BY <1>1, <2>1, <3>2
      <4> QED BY <3>2, <4>1, ForwardFacts
    <3> QED BY <1>1, <1>3, <1>7, <2>1, <3>1, <3>2, <3>3, <3>4 DEF Trails
  <2> QED BY <1>3, <2>1, <2>2, <2>3 DEF Trails
<1>10. CASE PowerLoss
  <2>1. disk' = disk /\ pc' = "off"
    BY <1>10 DEF PowerLoss
  <2> QED BY <1>3, <2>1 DEF Ready, Trails
<1>11. CASE UNCHANGED vars
  <2>1. /\ disk' = disk /\ mem' = mem /\ part' = part /\ sector' = sector /\ pc' = pc
        /\ faults' = faults
    BY <1>11 DEF vars
  <2>2. Lead' = Lead /\ Ver(part)' = Ver(part)
    BY <1>3, <2>1 DEF Lead, Ver
  <2> QED BY <1>2, <1>3, <2>1, <2>2 DEF Ready, Trails
<1> QED BY <1>5, <1>6, <1>8, <1>9, <1>10, <1>11 DEF Next

-----------------------------------------------------------------------------
(* Every step is one of AtomicStore, or changes nothing there *)

Durable == IF Valid = {} THEN 0 ELSE Loaded(Newest).items
Serving == IF pc = "off" THEN Nothing ELSE mem.items

\* Contents are told apart from their absence.
LEMMA StoreType ==
    ASSUME TypeOK
    PROVE  Durable # Nothing /\ mem.items # Nothing
<1> USE FirstSector
<1>1. mem.items # Nothing
  <2>1. mem.items \in {Torn} \cup 0 .. MaxWrites
    BY DEF TypeOK, VendorType
  <2> QED BY <2>1, PartsAssumption DEF Torn, Nothing
<1>2. CASE Valid = {}
    BY <1>1, <1>2 DEF Durable, Nothing
<1>3. CASE Valid # {}
  <2>1. PICK p \in Parts : p = Newest
    BY <1>3, NewestIsValid DEF Valid
  <2>2. disk[p][0].items # Nothing
    BY DEF Torn, Nothing
  <2>3. Loaded(p).items # Nothing
    BY <2>2 DEF Loaded, VendorType, Torn, Nothing
  <2> QED BY <1>1, <1>3, <2>1, <2>3 DEF Durable
<1> QED BY <1>2, <1>3

\* The contents on the disk depend on the disk only.
LEMMA SameDurable ==
    ASSUME disk' = disk
    PROVE  Durable' = Durable
BY SameDisk DEF Durable, Loaded

LEMMA StepImplements ==
    ASSUME TypeOK, Clean, TypeOK', [Next]_vars, faults' = 0, misread' = {}
    PROVE  Store!Next \/ UNCHANGED Store!vars
<1> USE FirstSector
<1>1. CASE Boot
  <2>1. Durable' = Durable /\ pc = "off" /\ pc' = "idle" /\ Durable # Nothing
    BY <1>1, SameDurable, StoreType DEF Boot
  <2>2. mem'.items = Durable
    BY <1>1 DEF Boot, Durable, Vendor
  <2>3. Store!Start
    BY <2>1, <2>2 DEF Store!Start, Durable
  <2> QED BY <2>3 DEF Store!Next
<1>2. CASE Write
  <2>1. Durable' = Durable /\ pc = "idle" /\ pc' = "write" /\ mem.items # Nothing
    BY <1>2, SameDurable, StoreType DEF Write
  <2>2. mem'.items = writes + 1 /\ writes + 1 \in 0 .. MaxWrites
    BY <1>2, PartsAssumption DEF Write, TypeOK
  <2>3. Store!Write(writes + 1)
    BY <2>1, <2>2 DEF Store!Write, Durable
  <2> QED BY <2>2, <2>3 DEF Store!Next
<1>3. CASE Transfer
  <2>1. /\ faults = 0 /\ misread = {} /\ pc = "write" /\ mem' = mem
        /\ pc' = IF sector = LastSector THEN "idle" ELSE "write"
    BY <1>3 DEF Transfer, SectorDone
  <2>2. PICK w \in Parts, t \in Sectors : w = part /\ t = sector
    BY DEF TypeOK
  <2>3. /\ \A p \in Parts \ {w} : disk'[p] = disk[p]
        /\ t # LastSector =>
             /\ Valid' = Valid \ {w}
             /\ Valid # {} => Newest \in Valid' /\ Newest' = Newest
        /\ t = LastSector =>
             /\ \A s \in Sectors : disk'[w][s] = mem
             /\ w \in Valid' /\ Newest' = w
    BY <2>1, <2>2, <1>3, TransferMovesNewest
  <2>4. CASE t # LastSector
    <3>1. Durable' = Durable
      <4>1. CASE Valid = {}
        BY <4>1, <2>3, <2>4 DEF Durable
      <4>2. CASE Valid # {}
        <5>1. PICK n : n = Newest
          OBVIOUS
        <5>2. n \in Valid' /\ n = Newest' /\ n \in Parts /\ n # w
          BY <4>2, <5>1, <2>3, <2>4 DEF Valid
        <5>3. disk'[n] = disk[n]
          BY <5>2, <2>3
        <5>4. Loaded(n)' = Loaded(n)
          BY <5>3 DEF Loaded
        <5>5. Durable = Loaded(n).items
          BY <4>2, <5>1 DEF Durable
        <5>6. Durable' = Loaded(n)'.items
          BY <5>2 DEF Durable
        <5> QED BY <5>4, <5>5, <5>6
      <4> QED BY <4>1, <4>2
    <3>2. UNCHANGED Store!vars
      BY <3>1, <2>1, <2>2, <2>4 DEF Store!vars, Durable
    <3> QED BY <3>2
  <2>5. CASE t = LastSector
    <3>1. Durable' = mem.items
      <4>1. Loaded(w)'.items = mem.items
        BY <2>3, <2>5 DEF Loaded, TypeOK, VendorType
      <4>2. Durable' = Loaded(w)'.items
        BY <2>3, <2>5 DEF Durable
      <4> QED BY <4>1, <4>2
    <3>2. Store!Return
      BY <3>1, <2>1, <2>2, <2>5 DEF Store!Return, Durable
    <3> QED BY <3>2 DEF Store!Next
  <2> QED BY <2>4, <2>5
<1>4. CASE TransferFail
    BY <1>4 DEF TransferFail, TypeOK
<1>5. CASE PowerLoss
  <2>1. Durable' = Durable /\ pc' = "off"
    BY <1>5, SameDurable DEF PowerLoss
  <2>2. Store!Stop
    BY <2>1 DEF Store!Stop, Durable
  <2> QED BY <2>2 DEF Store!Next
<1>6. CASE UNCHANGED vars
  <2>1. Durable' = Durable /\ pc' = pc /\ mem' = mem
    BY <1>6, SameDurable DEF vars
  <2> QED BY <2>1 DEF Store!vars, Durable
<1>7. CASE BootMisread
    BY <1>7 DEF BootMisread
<1> QED BY <1>1, <1>2, <1>3, <1>4, <1>5, <1>6, <1>7 DEF Next

LEMMA InitImplements == Init => Store!Init
<1> SUFFICES ASSUME Init PROVE Store!Init
    OBVIOUS
<1>1. SInv
    BY InitSInv
<1>2. \A p \in Parts : disk[p][0].version = 0
    BY <1>1, FirstSector DEF Init, SInv, Blank, Vendor
<1>3. Valid = {}
    BY <1>2 DEF Valid
<1> QED BY <1>3 DEF Init, Store!Init

-----------------------------------------------------------------------------
(* Theorems *)

\* The inductive invariant: as long as no transfer has failed, the newest valid
\* partition is whole, nothing on the disk is newer, and a write goes elsewhere; and
\* with fewer failures than partitions, how far a write may be ahead of it.
THEOREM Invariant == Spec => []SInv
<1>1. SInv /\ [Next]_vars => SInv'
    BY StepTypeOK, StepClean, StepKept DEF SInv
<1> QED BY InitSInv, <1>1, PTL DEF Spec

\* The state of the driver and of the partitions has its type.
THEOREM TypeCorrect == Spec => []TypeOK
<1>1. SInv => TypeOK
    BY DEF SInv
<1> QED BY Invariant, <1>1, PTL

\* emmc_vendor_write never touches the partition that emmc_vendor_storage_init
\* would load, whatever power failures came before, until one transfer less
\* than there are partitions has failed or a load went on without the first sector.
THEOREM NewestIsKept == Spec => []NeverOverwritesNewest
<1>1. SInv => NeverOverwritesNewest
  <2> SUFFICES ASSUME TypeOK, Kept, faults < NumParts - 1, "head" \notin misread, pc = "write", sector = 0, Valid # {}
               PROVE  part # Newest
    BY DEF SInv, NeverOverwritesNewest
  <2>1. Lead \in 0 .. faults + 1 /\ part = Forward(Newest, Lead) /\ Lead > 0
    BY DEF Kept, Trails
  <2>2. Newest \in Parts
    BY NewestIsValid DEF Valid
  <2>3. Lead \in Nat /\ Lead < NumParts
    BY <2>1, PartsAssumption DEF TypeOK
  <2> QED BY <2>1, <2>2, <2>3, ForwardFacts
<1> QED BY Invariant, <1>1, PTL

\* The storage is atomic and durable until a transfer or a read of a load fails: what a start finds
\* is the last write that returned, or the one that was interrupted, as a whole.
THEOREM Implements == Spec => ImplementsAtomicStore
<1>1. SInv /\ SInv' /\ [Next]_vars => [faults' = 0 /\ misread' = {} => Store!Next]_(Store!vars)
    BY StepImplements DEF SInv
<1> QED BY InitImplements, Invariant, <1>1, PTL DEF Spec, ImplementsAtomicStore
=============================================================================
