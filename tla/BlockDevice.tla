----------------------------- MODULE BlockDevice -----------------------------
(***************************************************************************)
(* The disk of src/virtio_block_device.c in the mode main gives it,        *)
(* BF_MODE_SNAPSHOT: a file that is only read, and a table of the sectors  *)
(* that have been written.                                                 *)
(***************************************************************************)
EXTENDS Integers, Sequences

CONSTANTS
    NbSectors,        \* nb_sectors
    SectorSize,       \* SECTOR_SIZE
    FileValue         \* marks the bytes that come from the file

ASSUME DiskAssumption == NbSectors \in Nat /\ SectorSize \in Nat \ {0}

VARIABLE sector_table

NoSector == <<>>
SectorNumbers == 0 .. NbSectors - 1

\* A byte is the value it was written with and its place in what was written.
FileSector(s) == [k \in 1 .. SectorSize |-> <<FileValue, s * SectorSize + k - 1>>]

block_device_init == sector_table = [s \in SectorNumbers |-> NoSector]

Sector(s) == IF sector_table[s] = NoSector THEN FileSector(s) ELSE sector_table[s]

\* The bytes of `size` sectors.  Nothing checks that the table has them.
bf_read_async(sector_num, size) ==
    [k \in 1 .. size * SectorSize |->
        Sector(sector_num + (k - 1) \div SectorSize)[((k - 1) % SectorSize) + 1]]

\* Mutant: the check of the bound lets one sector too many pass.
WriteFits_OffByOne(sector_num, size) == sector_num + size <= NbSectors + 1

WriteFits(sector_num, size) == sector_num + size <= NbSectors

\* All sectors or none.
bf_write_async(sector_num, buf, size) ==
    sector_table' =
        IF WriteFits(sector_num, size)
        THEN [s \in SectorNumbers |->
                IF s \in sector_num .. sector_num + size - 1
                THEN SubSeq(buf, (s - sector_num) * SectorSize + 1,
                                 (s - sector_num + 1) * SectorSize)
                ELSE sector_table[s]]
        ELSE sector_table
=============================================================================
