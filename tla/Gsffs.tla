------------------------------- MODULE Gsffs -------------------------------
(***************************************************************************)
(* The small file system of fs/gsffs.c on NOR flash.  A file is one        *)
(* sector.  Programming a sector only clears bits, erasing a block of      *)
(* sectors sets them all, so a status goes from UNUSED through CREATE and  *)
(* SAVED to DELETED, and data is the set of the bits it clears.            *)
(*                                                                         *)
(* A step is one operation on the flash; the power may fail between any    *)
(* two.  search_blank_fd() always returns the first descriptor, because    *)
(* nothing sets flg_used: there is one descriptor, whatever is opened.     *)
(***************************************************************************)
EXTENDS Integers, FiniteSets, FiniteSetsExt

CONSTANTS
    FileNames,
    Bits,        \* the bits of a file's data
    Handles,     \* the entries of file_desc that are files of this system
    BlockSize,   \* fs_erase_block_num: sectors in an erase block
    FirstBlock,  \* the erase block of fs_sect_start
    BlockCount,  \* GSC_GSFFS_USE_ERASESECTCOUNT
    NoName,      \* no file
    Erased,      \* a name or CRC field of 0xff
    Garbled,     \* a field that was programmed twice with different values
    Absent,      \* of a file: it is not there
    Unknown      \* of a file: nothing is known of it

ASSUME GsffsAssumption ==
    /\ BlockSize \in Nat \ {0}
    /\ FirstBlock \in Nat
    /\ BlockCount \in Nat \ {0}
    /\ {NoName, Erased, Garbled} \cap FileNames = {}
    /\ {Erased, Garbled, Absent, Unknown} \cap {d : d \in SUBSET Bits} = {}
    /\ Cardinality({NoName, Erased, Garbled, Absent, Unknown}) = 5

VARIABLES
    flash,      \* the sectors
    gsffs,      \* the descriptor gsffs[0]
    pending,    \* the call that has flash operations left to do
    handle,     \* what each handle was opened for
    wrote,      \* what the file of each handle should hold once it is closed
    kept        \* what each file should hold now

gsffsVars == <<flash, gsffs, pending, handle, wrote, kept>>

\* (unsigned int)-1
NoSector == -1

Sectors == FirstBlock * BlockSize .. (FirstBlock + BlockCount) * BlockSize - 1
LastSector == (FirstBlock + BlockCount) * BlockSize - 1
Data == {d : d \in SUBSET Bits}

\* The CRC field stands for the data the CRC was computed over.
Images == [stat : {"unused", "create", "saved", "deleted"},
           name : FileNames \cup {Erased, Garbled},
           data : Data,
           crc : Data \cup {Erased, Garbled}]

BlankImage == [stat |-> "unused", name |-> Erased, data |-> {}, crc |-> Erased]

NoCall == [at |-> "none"]

\* The descriptor when nothing is open; only flg_dirty outlives a close.
ClosedFd(dirty) == [buf |-> BlankImage, sector |-> NoSector, new |-> FALSE, dirty |-> dirty]

\* Nothing is known of a file that was created and not saved (the sector that
\* announces it hides the file until the next format), or that was created on
\* top of what the last sector holds.
Quiet == \A h \in Handles : handle[h] = NoName

GsffsInit ==
    /\ flash = [s \in Sectors |-> BlankImage]
    /\ gsffs = ClosedFd(FALSE)
    /\ pending = NoCall
    /\ handle = [h \in Handles |-> NoName]
    /\ wrote = [h \in Handles |-> Unknown]
    /\ kept = [n \in FileNames |-> Absent]

-----------------------------------------------------------------------------
(* The flash: block_write and IOCMD_QSPI_ERASE_BLOCK of the QSPI driver.   *)

Rank == [unused |-> 0, create |-> 1, saved |-> 2, deleted |-> 3]

Merged(old, new) ==
    CASE old = Erased -> new [] new \in {Erased, old} -> old [] OTHER -> Garbled

\* Bits that are clear stay clear.  The name in a deleted sector is never looked
\* at and not represented.
Programmed(old, new) ==
    [stat |-> IF Rank[new.stat] >= Rank[old.stat] THEN new.stat ELSE old.stat,
     name |-> IF "deleted" \in {old.stat, new.stat} THEN Erased
              ELSE Merged(old.name, new.name),
     data |-> old.data \cup new.data,
     crc |-> Merged(old.crc, new.crc)]

Block(b) == {s \in Sectors : s \div BlockSize = b}

WithoutBlock(b) == [s \in Sectors |-> IF s \in Block(b) THEN BlankImage ELSE flash[s]]

-----------------------------------------------------------------------------
(* The searches.                                                           *)

Hits(n) == {s \in Sectors : flash[s].stat \in {"create", "saved"} /\ flash[s].name = n}

\* search_file_sector() returns a sector, and not -1 or -2.
Found(n) == Hits(n) # {} /\ flash[Min(Hits(n))].stat = "saved"

\* The sector it has read last, which stays in the buffer.
LastRead(n) == IF Hits(n) # {} THEN Min(Hits(n)) ELSE LastSector

Unused == {s \in Sectors : flash[s].stat = "unused"}

\* Mistake: a block is erased as soon as one of its sectors is deleted.
Erasable_OneIsEnough == {b \in FirstBlock .. FirstBlock + BlockCount - 1 :
                            \E s \in Block(b) : flash[s].stat = "deleted"}

Erasable == {b \in FirstBlock .. FirstBlock + BlockCount - 1 :
                \A s \in Block(b) : flash[s].stat = "deleted"}

\* search_blank_sector(): the first sector that is unused, or the first block
\* of deleted ones, whichever comes first, and what is then on the flash.
Blank ==
    LET s == Min(Unused)
        b == Min(Erasable)
    IN CASE Unused = {} /\ Erasable = {} -> [sector |-> NoSector, flash |-> flash]
         [] Erasable # {} /\ (Unused = {} \/ b * BlockSize < s) ->
                [sector |-> b * BlockSize, flash |-> WithoutBlock(b)]
         [] OTHER -> [sector |-> s, flash |-> flash]

-----------------------------------------------------------------------------
(* The calls.  One task calls at a time, and as long as there is one handle *)
(* it is closed before the next file is opened or unlinked.                *)

Alone == Cardinality(Handles) = 1 => Quiet

Settles(n, value) == [kept EXCEPT ![n] = IF @ = Unknown THEN @ ELSE value]

\* A handle is closed.
Closes(h) == handle' = [handle EXCEPT ![h] = NoName]

\* What a call leaves in the descriptor, which matters while a file is open.
Leaves(d) == gsffs' = IF \A h \in Handles : handle'[h] = NoName THEN ClosedFd(d.dirty) ELSE d

\* open_gsffs() of a file that is there.  With FA_CREATE_* it is truncated.
OpenOld(h, n, truncate) ==
    /\ pending = NoCall /\ handle[h] = NoName
    /\ Found(n)
    /\ LET s == Min(Hits(n))
           data == IF truncate THEN {} ELSE flash[s].data
       IN /\ gsffs' = [gsffs EXCEPT !.buf = [flash[s] EXCEPT !.data = data],
                                 !.sector = s, !.new = FALSE]
          /\ wrote' = [wrote EXCEPT ![h] = data]
    /\ handle' = [handle EXCEPT ![h] = n]
    /\ UNCHANGED <<flash, pending, kept>>

\* open_gsffs() of a file that is not there, without a flag to create it or a
\* sector for it: the buffer keeps what the search has read.
OpenFails(n) ==
    /\ pending = NoCall /\ Alone
    /\ ~ Found(n)
    /\ UNCHANGED handle
    /\ Leaves([gsffs EXCEPT !.buf = flash[LastRead(n)]])
    /\ UNCHANGED <<flash, pending, wrote, kept>>

\* open_gsffs() of a new file, or of one that is being created: the search for
\* a sector, which may erase a block.
OpenNew(h, n) ==
    /\ pending = NoCall /\ handle[h] = NoName
    /\ ~ Found(n)
    /\ Blank.sector # NoSector
    /\ flash' = Blank.flash
    /\ gsffs' = [gsffs EXCEPT !.buf = [flash[LastRead(n)] EXCEPT !.stat = "create", !.name = n],
                           !.new = TRUE]
    /\ pending' = [at |-> "create", by |-> h, name |-> n, sector |-> Blank.sector]
    /\ UNCHANGED <<handle, wrote, kept>>

\* ... and the write of the sector that announces the file.
Create ==
    /\ pending.at = "create"
    /\ flash' = [flash EXCEPT ![pending.sector] = Programmed(@, gsffs.buf)]
    /\ gsffs' = [gsffs EXCEPT !.sector = pending.sector]
    /\ handle' = [handle EXCEPT ![pending.by] = pending.name]
    /\ wrote' = [wrote EXCEPT ![pending.by] =
                    IF kept[pending.name] = Absent /\ gsffs.buf.data = {} /\ gsffs.buf.crc = Erased
                      THEN {} ELSE Unknown]
    /\ kept' = [kept EXCEPT ![pending.name] = Unknown]
    /\ pending' = NoCall

CreateFails ==
    /\ pending.at = "create"
    /\ pending' = NoCall
    /\ UNCHANGED handle
    /\ Leaves(gsffs)
    /\ UNCHANGED <<flash, wrote, kept>>

\* write_gsffs(), whatever is written and wherever.
Write(h, d) ==
    /\ pending = NoCall /\ handle[h] # NoName
    /\ gsffs' = [gsffs EXCEPT !.buf.data = d, !.dirty = TRUE]
    /\ wrote' = [wrote EXCEPT ![h] = IF @ = Unknown THEN @ ELSE d]
    /\ UNCHANGED <<flash, pending, handle, kept>>

\* Mistake: the old sector is left as it is.
CloseOld_KeepsIt(h) ==
    /\ pending = NoCall /\ handle[h] # NoName
    /\ gsffs.dirty /\ ~ gsffs.new
    /\ pending' = [at |-> "search", by |-> h, name |-> handle[h]]
    /\ kept' = Settles(handle[h], Absent)
    /\ UNCHANGED <<flash, gsffs, handle, wrote>>

\* close_gsffs() of a file that was written to, as far as flg_dirty tells, and
\* was there before: its sector is marked deleted, ...
CloseOld(h) ==
    /\ pending = NoCall /\ handle[h] # NoName
    /\ gsffs.dirty /\ ~ gsffs.new
    /\ LET image == [gsffs.buf EXCEPT !.stat = "deleted"]
       IN flash' = [flash EXCEPT ![gsffs.sector] = Programmed(@, image)]
    /\ pending' = [at |-> "search", by |-> h, name |-> handle[h]]
    /\ kept' = Settles(handle[h], Absent)
    /\ UNCHANGED <<gsffs, handle, wrote>>

\* ... a blank one is searched (that there is none goes unnoticed, since
\* st_gsffs.sector is unsigned) ...
Search ==
    /\ pending.at = "search"
    /\ gsffs' = [gsffs EXCEPT !.sector = Blank.sector]
    /\ flash' = Blank.flash
    /\ pending' = [pending EXCEPT !.at = "save"]
    /\ UNCHANGED <<handle, wrote, kept>>

SavedImage == [gsffs.buf EXCEPT !.stat = "saved", !.crc = gsffs.buf.data]

\* ... and written.
Save ==
    /\ pending.at = "save" /\ gsffs.sector # NoSector
    /\ flash' = [flash EXCEPT ![gsffs.sector] = Programmed(@, SavedImage)]
    /\ kept' = Settles(pending.name, wrote[pending.by])
    /\ Closes(pending.by)
    /\ Leaves([gsffs EXCEPT !.buf = SavedImage])
    /\ pending' = NoCall
    /\ UNCHANGED wrote

\* The write fails; that of sector -1 always does.
SaveFails ==
    /\ pending.at = "save"
    /\ Closes(pending.by)
    /\ Leaves([gsffs EXCEPT !.buf = SavedImage])
    /\ pending' = NoCall
    /\ UNCHANGED <<flash, wrote, kept>>

\* close_gsffs() of a new file that was written to.
CloseNew(h) ==
    /\ pending = NoCall /\ handle[h] # NoName
    /\ gsffs.dirty /\ gsffs.new
    /\ flash' = [flash EXCEPT ![gsffs.sector] = Programmed(@, SavedImage)]
    /\ kept' = [kept EXCEPT ![handle[h]] = wrote[h]]
    /\ Closes(h)
    /\ Leaves([gsffs EXCEPT !.buf = SavedImage])
    /\ UNCHANGED <<pending, wrote>>

\* close_gsffs() of a file that was not written to, or of any file when the
\* first write fails.
CloseOnly(h) ==
    /\ pending = NoCall /\ handle[h] # NoName
    /\ Closes(h)
    /\ Leaves(CASE ~ gsffs.dirty -> gsffs
                [] gsffs.new -> [gsffs EXCEPT !.buf = SavedImage]
                [] OTHER -> [gsffs EXCEPT !.buf.stat = "deleted"])
    /\ UNCHANGED <<flash, pending, wrote, kept>>

\* unlink_gsffs(), through the buffer of the one descriptor.
Unlink(n) ==
    /\ pending = NoCall /\ Alone
    /\ Found(n)
    /\ UNCHANGED handle
    /\ LET s == Min(Hits(n))
           image == [flash[s] EXCEPT !.stat = "deleted"]
       IN /\ flash' = [flash EXCEPT ![s] = Programmed(@, image)]
          /\ Leaves([gsffs EXCEPT !.buf = image])
    /\ kept' = Settles(n, Absent)
    /\ UNCHANGED <<pending, wrote>>

\* ... of a file that is not found, or when the write of its sector fails.
UnlinkFails(n) ==
    /\ pending = NoCall /\ Alone
    /\ UNCHANGED handle
    /\ Leaves([gsffs EXCEPT !.buf =
                  IF Found(n) THEN [flash[Min(Hits(n))] EXCEPT !.stat = "deleted"]
                  ELSE flash[LastRead(n)]])
    /\ UNCHANGED <<flash, pending, wrote, kept>>

\* The power fails, and mount_gsffs() runs again.
PowerFails ==
    /\ gsffs' = ClosedFd(FALSE)
    /\ pending' = NoCall
    /\ handle' = [h \in Handles |-> NoName]
    /\ wrote' = [h \in Handles |-> Unknown]
    /\ UNCHANGED <<flash, kept>>

\* mkfs_gsffs(), while no file is open.
Format ==
    /\ pending = NoCall /\ Quiet
    /\ flash' = [s \in Sectors |-> BlankImage]
    /\ kept' = [n \in FileNames |-> Absent]
    /\ UNCHANGED <<gsffs, pending, handle, wrote>>

GsffsNext ==
    \/ \E h \in Handles : \E n \in FileNames :
           (\E truncate \in BOOLEAN : OpenOld(h, n, truncate)) \/ OpenNew(h, n)
    \/ \E h \in Handles : \E d \in Data : Write(h, d)
    \/ \E h \in Handles : CloseOnly(h) \/ CloseOld(h) \/ CloseNew(h)
    \/ Create \/ CreateFails \/ Search \/ Save \/ SaveFails
    \/ \E n \in FileNames : OpenFails(n) \/ Unlink(n) \/ UnlinkFails(n)
    \/ PowerFails \/ Format

GsffsSpec == GsffsInit /\ [][GsffsNext]_gsffsVars

-----------------------------------------------------------------------------
(* Properties.                                                             *)

GsffsTypeOK ==
    /\ flash \in [Sectors -> Images]
    /\ gsffs \in [buf : Images, sector : Sectors \cup {NoSector}, new : BOOLEAN, dirty : BOOLEAN]
    /\ handle \in [Handles -> FileNames \cup {NoName}]
    /\ wrote \in [Handles -> Data \cup {Unknown}]
    /\ kept \in [FileNames -> Data \cup {Absent, Unknown}]

\* A file holds what was written to it when it was last closed, and is absent
\* once it is unlinked: across erased blocks, sectors of other files, failed
\* writes and power failures (search_file_sector(), search_blank_sector(),
\* close_gsffs()).  While a file is replaced it is absent.
FilesAreKept ==
    \A n \in FileNames : kept[n] # Unknown =>
        IF kept[n] = Absent THEN ~ Found(n)
        ELSE Found(n) /\ flash[Min(Hits(n))].data = kept[n]

\* What readdir_gsffs() lists for a name.
Listed(n) == {s \in Sectors : flash[s].stat = "saved" /\ flash[s].name = n}

\* A file is listed once, wherever it was moved by replacing it, and an absent
\* file is not listed (readdir_gsffs(), close_gsffs()).
ListedOnce ==
    \A n \in FileNames : kept[n] # Unknown =>
        Cardinality(Listed(n)) = IF kept[n] = Absent THEN 0 ELSE 1

\* A file whose CRC was written is read back with that CRC (open_gsffs()
\* compares them and reports "CRC error").
SavedFilesAreIntact ==
    \A s \in Sectors : flash[s].stat = "saved" => flash[s].crc = flash[s].data

\* A sector that holds a file stays as it is until the file is replaced or
\* unlinked, and is erased only after that (search_blank_sector()); a format
\* is the exception.
SavedSectorsStay ==
    [][~ Format => \A s \in Sectors : flash[s].stat = "saved" =>
            flash'[s] = flash[s] \/ flash'[s].stat = "deleted"]_gsffsVars

\* What is on the flash is what the calls of the file system have said, at
\* every moment at which the power may fail.
GsffsInv == GsffsTypeOK /\ FilesAreKept /\ ListedOnce

=============================================================================
