--------------------------------- MODULE Ofs ---------------------------------
(***************************************************************************)
(* The Osaka FileSystem: src/src/filesys/ofs.cc and the commands and       *)
(* programs that call it (cli.cc, app/file_edit.cc, mode/file_edit.cc).    *)
(*                                                                         *)
(* On disk: a count of table entries, a table of file locations, and from  *)
(* DataStart on the files, each a header sector with the name and the size *)
(* followed by its blocks.  In memory: the list of files, the number of    *)
(* files and the sector the next file goes to.                             *)
(*                                                                         *)
(* Sizes are counted in sectors; a block (OFS_BLOCK_SIZE, 2048 bytes) is   *)
(* Block sectors.  Where the code adds OFS_BLOCK_SIZE to a sector number   *)
(* the model adds Jump.  A sector of file data either starts with a zero   *)
(* byte (and is then all zeros) or is text; FileIf sees just that.  Tags,  *)
(* image resolutions, the second size field and the table's division into  *)
(* sectors are not modelled.                                               *)
(*                                                                         *)
(* An operation maps a state st, a record of the disk and the memory, to   *)
(* the state it leaves; st.seen collects the disks its writes go through,  *)
(* any of which a crash may leave, and st.over tells that it wrote beyond  *)
(* the bounds of the model.                                                *)
(***************************************************************************)
EXTENDS Integers, Sequences, FiniteSets, SequencesExt

CONSTANTS
  Name,
  Matches,    \* pairs <<n, m>> for which strcmp(n, m) is true: n begins m
  NoName,     \* the name of a sector that is no header
  DataStart, DataEnd,
  TableSize,  \* entries of the table
  Block,      \* sectors in a block; 4 in the code
  Jump,       \* what the code adds to a sector for OFS_BLOCK_SIZE; 2048
  Sizes,      \* whole sectors of a download; part of one more follows
  MaxLba,     \* highest block a program writes
  MaxAstray   \* bound: operations go on while no more than this went wrong

ASSUME OfsAssumption ==
  /\ Matches \subseteq Name \X Name /\ \A n \in Name : <<n, n>> \in Matches
  /\ NoName \notin Name
  /\ DataStart \in Nat \ {0} /\ DataEnd \in Nat /\ TableSize \in Nat \ {0}
  /\ Block \in Nat \ {0} /\ Jump \in Nat /\ Block <= Jump
  /\ Sizes \subseteq Nat /\ MaxLba \in Nat /\ MaxAstray \in Nat

Sector == DataStart .. DataEnd
Entry == 0 .. TableSize - 1
Lba == 0 .. MaxLba

\* A sector of zeros, a sector of text, and a header.
Zero == [kind |-> "zero", name |-> NoName, size |-> 0, fragments |-> 0]
Text == [kind |-> "text", name |-> NoName, size |-> DataEnd, fragments |-> 0]
Header(n, size) == [kind |-> "file", name |-> n, size |-> size, fragments |-> 0]

\* What a program writes: a block of zeros (touch) or of text.
Blank == [i \in 1 .. Block |-> Zero]
Full == [i \in 1 .. Block |-> Text]

VARIABLES
  disk,    \* [count, table, data]
  mem,     \* [files, fileCount, currentOpenSector, tailLost]
  store,   \* what the callers were promised: name -> block -> its sectors
  astray   \* how the file system has left the ground it works on

vars == <<disk, mem, store, astray>>

EmptyDisk ==
  [count |-> 0, table |-> [k \in Entry |-> 0], data |-> [s \in Sector |-> Zero]]

-----------------------------------------------------------------------------
\* The disk after one Write28.
Written(st, d) == [st EXCEPT !.disk = d, !.seen = @ \cup {d}]

WriteCount(st, n) == Written(st, [st.disk EXCEPT !.count = n])
WriteEntry(st, k, loc) ==
  IF k \in Entry THEN Written(st, [st.disk EXCEPT !.table[k] = loc])
  ELSE [st EXCEPT !.over = TRUE]
WriteSector(st, s, c) ==
  IF s \in Sector THEN Written(st, [st.disk EXCEPT !.data[s] = c])
  ELSE [st EXCEPT !.over = TRUE]

At(d, s) == IF s \in Sector THEN d.data[s] ELSE Zero
FileIf(d, s) == At(d, s).kind # "zero"

Strayed(st, why) == [st EXCEPT !.astray = @ \cup why]

\* What an operation on n starts from; n may begin the name of another file.
StateFor(n) ==
  [disk |-> disk, mem |-> mem, ok |-> TRUE, over |-> FALSE, seen |-> {disk},
   astray |-> astray \cup
     (IF \E f \in ToSet(mem.files) : f.name # n /\ <<n, f.name>> \in Matches
      THEN {"shadowed"} ELSE {})]

(***************************************************************************)
(* GetFileSector: the first file of the list the name begins; for a name   *)
(* that is not there, the sector the next file goes to.                    *)
(***************************************************************************)
Found(m, n) ==
  {i \in 1 .. Len(m.files) : i <= m.fileCount /\ <<n, m.files[i].name>> \in Matches}

GetFileSector(m, n) ==
  IF Found(m, n) = {} THEN m.currentOpenSector ELSE m.files[Min(Found(m, n))].location

\* For text the four bytes read as a size make a number larger than the disk.
GetFileSize(st, n) == At(st.disk, GetFileSector(st.mem, n)).size

-----------------------------------------------------------------------------
\* A definition named after a mistake, here and below, is a variant of the one
\* after it that the properties are tried against; the model does not use it.
AddTableBefore(st, loc) ==
  WriteEntry(WriteCount(st, st.disk.count + 1), Max({st.disk.count, 1}) - 1, loc)

AddTable(st, loc) ==
  WriteEntry(WriteCount(st, st.disk.count + 1), st.disk.count, loc)

RemoveTableInPlace(st, loc) ==
  WriteEntry(WriteCount(st, st.disk.count - 1),
             Min({k \in Entry : st.disk.table[k] = loc \/ k = TableSize - 1}), 0)

(***************************************************************************)
(* RemoveTable clears the newest entry and moves it to the first entry     *)
(* with the location that is removed.                                      *)
(***************************************************************************)
RemoveTable(st, loc) ==
  LET newest == st.disk.count - 1
      moved == IF newest \in Entry THEN st.disk.table[newest] ELSE 0
      cleared == WriteEntry(WriteCount(st, newest), newest, 0)
      holes == {k \in Entry : cleared.disk.table[k] = loc}
  IN  IF (newest > 0 \/ moved # loc) /\ holes # {}
      THEN WriteEntry(cleared, Min(holes), moved)
      ELSE cleared

-----------------------------------------------------------------------------
\* The disk with the first k sectors of p written from start on.
Overlaid(d, start, p, k) ==
  [d EXCEPT !.data = [s \in Sector |->
     IF start <= s /\ s < start + k THEN p[s - start + 1] ELSE d.data[s]]]

\* One block, sector by sector.
WriteBlock(st, start, p) ==
  IF start .. start + Block - 1 \subseteq Sector
  THEN [st EXCEPT !.disk = Overlaid(st.disk, start, p, Block),
                  !.seen = @ \cup {Overlaid(st.disk, start, p, k) : k \in 1 .. Block}]
  ELSE [st EXCEPT !.over = TRUE]

BlockStartAtHeader(loc, lba) == loc + Block * lba

BlockStart(loc, lba) == loc + 1 + Block * lba

(***************************************************************************)
(* WriteLBA.  A block beyond the size of the file whose place is taken     *)
(* goes a multiple of Jump further on and is counted as a fragment; a      *)
(* block that ends up at or behind the open sector moves that on.          *)
(***************************************************************************)
Grows(st, n, lba) == Block * (lba + 1) > GetFileSize(st, n)

Place(st, n, lba) ==
  LET first == BlockStart(GetFileSector(st.mem, n), lba)
  IN  IF Grows(st, n, lba)
      THEN first + Jump * Min({k \in 0 .. 64 : k = 64 \/ ~FileIf(st.disk, first + k * Jump)})
      ELSE first

\* Only the first sector of the block is looked at: the file may grow over, or
\* past, the header of another.
Overlaps(st, n, lba) ==
  LET loc == GetFileSector(st.mem, n)
  IN  \E f \in ToSet(st.mem.files) : loc < f.location /\ f.location <= loc + Block * (lba + 1)

Fragments(st, n, lba) == Place(st, n, lba) # BlockStart(GetFileSector(st.mem, n), lba)

\* The end of the block lies behind the open sector, which stays: "spilled".
OpenMoved(st, start) ==
  IF start >= st.mem.currentOpenSector
  THEN [st EXCEPT !.mem.currentOpenSector = start + Jump]
  ELSE Strayed(st, IF start + Block > st.mem.currentOpenSector THEN {"spilled"} ELSE {})

WriteLBA(st, n, p, lba) ==
  LET loc == GetFileSector(st.mem, n)
      start == Place(st, n, lba)
      noted == IF Fragments(st, n, lba)
               THEN Strayed(WriteSector(st, loc, [At(st.disk, loc) EXCEPT !.fragments = @ + 1]),
                            {"fragmented"})
               ELSE st
      put == WriteBlock(noted, start, p)
      sized == Strayed(WriteSector(put, loc, [At(put.disk, loc) EXCEPT !.size = Block * (lba + 1)]),
                       IF Overlaps(st, n, lba) THEN {"overlapped"} ELSE {})
  IN  IF ~FileIf(st.disk, loc)
      THEN [st EXCEPT !.ok = FALSE]
      ELSE IF Grows(put, n, lba) THEN OpenMoved(sized, start) ELSE put

\* The blocks first, ..., last of p, one WriteLBA after the other.
WriteBlocks(st, n, p, first, last) ==
  LET after[k \in 0 .. last + 1 - first] ==
        IF k = 0 THEN st
        ELSE WriteLBA(after[k - 1], n, p[first + k - 1], first + k - 1)
  IN  after[last + 1 - first]

-----------------------------------------------------------------------------
(***************************************************************************)
(* The file list of module LinkedList as a sequence, with whether its last *)
(* node has been removed (tailLost).  A Push after that goes through a     *)
(* freed node; what it does is undefined and beyond this module.           *)
(***************************************************************************)
Pushed(m, loc, n) ==
  [m EXCEPT !.files = Append(@, [location |-> loc, name |-> n]),
            !.fileCount = @ + 1]

\* The list without its first file at loc.
Dropped(m, loc) ==
  LET here == {i \in 1 .. Len(m.files) : i <= m.fileCount /\ m.files[i].location = loc}
      left == IF here = {} THEN m.files ELSE RemoveAt(m.files, Min(here))
  IN  [m EXCEPT !.files = left,
                !.fileCount = @ - 1,
                !.tailLost = left # <<>> /\ (m.tailLost \/ Len(m.files) \in here)]

(***************************************************************************)
(* NewFile registers the open sector in the table before it looks whether  *)
(* the sector is free, and writes the first block by name.                 *)
(***************************************************************************)
NewFile(st, n, size, p) ==
  LET loc == st.mem.currentOpenSector
      listed == AddTable(st, loc)
      twin == \E f \in ToSet(st.mem.files) :
                <<n, f.name>> \in Matches \/ <<f.name, n>> \in Matches
      pushed == [Pushed(st.mem, loc, n) EXCEPT !.currentOpenSector = @ + size + 1]
      made == WriteSector([listed EXCEPT !.mem = pushed], loc, Header(n, size))
  IN  IF FileIf(listed.disk, loc)
      THEN Strayed([listed EXCEPT !.ok = FALSE], {"collided"})
      ELSE [WriteLBA(Strayed(made, IF twin THEN {"shadowed"} ELSE {}), n, p, 0)
              EXCEPT !.ok = TRUE]

\* DeleteFile wipes the whole blocks of the file's size, then the header; what
\* a download has in its last block stays: "leftover".
DeleteFile(st, n) ==
  LET loc == GetFileSector(st.mem, n)
      size == GetFileSize(st, n)
      wiped == WriteBlocks(RemoveTable(st, loc), n, [lba \in 0 .. size |-> Blank],
                           0, (size \div Block) - 1)
      left == At(wiped.disk, BlockStart(loc, size \div Block)).kind = "text"
      gone == Strayed(WriteSector(wiped, loc, Zero), IF left THEN {"leftover"} ELSE {})
      open == IF loc + size + 1 = gone.mem.currentOpenSector
              THEN gone.mem.currentOpenSector - (size + 1)
              ELSE gone.mem.currentOpenSector
  IN  IF ~FileIf(st.disk, loc)
      THEN [st EXCEPT !.ok = FALSE]
      ELSE [gone EXCEPT !.mem = [Dropped(@, loc) EXCEPT !.currentOpenSector = open]]

UpdateSize(st, loc, size) ==
  WriteSector(st, loc, [At(st.disk, loc) EXCEPT !.size = size])

-----------------------------------------------------------------------------
GetFileCountFromFirst(d) ==
  Cardinality({k \in Entry \ {0} : d.table[k] # 0 /\ FileIf(d, d.table[k])})

(***************************************************************************)
(* The constructor and RefreshFileTable.  They count the entries that lead *)
(* to a file, then look at that many entries from the first, skip those    *)
(* that lead nowhere, and put the open sector behind the last one.         *)
(***************************************************************************)
GetFileCount(d) ==
  IF d.table[0] = 0 THEN 0
  ELSE Cardinality({k \in Entry : d.table[k] # 0 /\ FileIf(d, d.table[k])})

Loaded(d) ==
  LET count == GetFileCount(d)
      here == {k \in 0 .. count - 1 : d.table[k] # 0 /\ FileIf(d, d.table[k])}
      Nth(i) == CHOOSE k \in here : Cardinality({j \in here : j <= k}) = i
      files == [i \in 1 .. Cardinality(here) |->
                  LET loc == d.table[Nth(i)] IN [location |-> loc, name |-> At(d, loc).name]]
      bare == [files |-> files, fileCount |-> count, currentOpenSector |-> DataStart,
               tailLost |-> FALSE]
      size == IF files = <<>> THEN 0
              ELSE At(d, GetFileSector(bare, files[Len(files)].name)).size
  IN  IF count = 0 THEN bare
      ELSE [bare EXCEPT !.currentOpenSector = d.table[count - 1] + size + 1]

\* ReadLBA: the sectors of the block.  A file with a fragment is read by its
\* fragment bytes, of which those for block 0 lead to the header itself.
ReadLBA(d, m, n, lba) ==
  LET loc == GetFileSector(m, n)
      start == IF At(d, loc).fragments > 0 /\ lba = 0 THEN loc ELSE BlockStart(loc, lba)
  IN  [i \in 1 .. Block |-> IF FileIf(d, loc) THEN At(d, start + i - 1) ELSE Zero]

-----------------------------------------------------------------------------
\* No block was promised.
Absent == [lba \in Lba |-> <<>>]

Init ==
  /\ disk = EmptyDisk
  /\ mem = Loaded(EmptyDisk)
  /\ store = [n \in Name |-> Absent]
  /\ astray = {}

\* The operation is carried out to its end, or the machine stops within it.
Finished(st, promised) ==
  /\ ~st.over
  /\ disk' = st.disk /\ mem' = st.mem /\ astray' = st.astray
  /\ store' = promised

\* The open sector is chosen by the last entry of the table and the size of
\* that file: there may be data at it or behind it, "taken".
Started(d, lost) ==
  LET m == Loaded(d)
      taken == \E s \in Sector : s >= m.currentOpenSector /\ FileIf(d, s)
  IN  /\ disk' = d /\ mem' = m
      /\ astray' = astray \cup lost \cup (IF taken THEN {"taken"} ELSE {})

Cut(st, n, lost) ==
  /\ ~st.over
  /\ \E d \in st.seen : Started(d, lost \cup st.astray)
  /\ store' = [store EXCEPT ![n] = Absent]

Run(st, n, promised) == Finished(st, promised) \/ Cut(st, n, {"crashed"})

Exists(n) == FileIf(disk, GetFileSector(mem, n))
Sole(n, lba, p) == [store EXCEPT ![n] = [Absent EXCEPT ![lba] = p]]
Create(n, size, p) == NewFile(StateFor(n), n, size, p)

\* touch, in cli.cc.
Touch(n, p) ==
  /\ ~mem.tailLost
  /\ LET st == Create(n, Block, p)
     IN  Run(st, n, IF st.ok THEN Sole(n, 0, p) ELSE store)

\* Saving in the journal; a new file is created as by touch.  A name the list
\* does not know leads to a file when the open sector is taken.
Save(n, p) ==
  /\ Exists(n)
  /\ LET put == WriteLBA(StateFor(n), n, p, 0)
         kept == IF Found(mem, n) = {}
                 THEN [put EXCEPT !.mem = Pushed(@, mem.currentOpenSector, n)]
                 ELSE put
     IN  /\ Found(mem, n) = {} => ~mem.tailLost
         /\ Run(kept, n, [store EXCEPT ![n][0] = p])

\* Saving block lba in the text editor.  For a new file it is written as block
\* 0: "misplaced".
Edit(n, lba, p) ==
  IF Exists(n)
  THEN Run(WriteLBA(StateFor(n), n, p, lba), n, [store EXCEPT ![n][lba] = p])
  ELSE /\ ~mem.tailLost
       /\ LET st == Create(n, Block * (lba + 1), p)
          IN  Run(Strayed(st, IF lba > 0 THEN {"misplaced"} ELSE {}), n, Sole(n, lba, p))

\* The blocks of a download: its sectors are text, the rest of the last is 0.
Part(size, lba) ==
  [i \in 1 .. Block |-> IF Block * lba + i <= size + 1 THEN Text ELSE Zero]

Download(n, size) ==
  LET last == size \div Block
      made == Create(n, size, Part(size, 0))
      put == WriteBlocks(made, n, [lba \in 0 .. last |-> Part(size, lba)], 1, last)
      done == IF GetFileSize(put, n) # size
              THEN UpdateSize(put, GetFileSector(put.mem, n), size) ELSE put
  IN  /\ last \in Lba /\ ~mem.tailLost
      /\ IF made.ok
         THEN Run(done, n, [store EXCEPT ![n] =
                    [lba \in Lba |-> IF lba <= last THEN Part(size, lba) ELSE <<>>]])
         ELSE Run(made, n, store)

\* rm, in cli.cc.  A count of files that wraps below 0 is not modelled.
Delete(n) ==
  LET st == DeleteFile(StateFor(n), n)
  IN  /\ mem.fileCount > 0
      /\ \/ Finished(st, IF st.ok THEN [store EXCEPT ![n] = Absent] ELSE store)
         \/ Cut(st, n, {"half deleted"})

\* A restart, or refreshFileSystem called from the page.
Reboot == Started(disk, {}) /\ UNCHANGED store

Operation ==
  \/ \E n \in Name, p \in {Blank, Full} :
       Touch(n, p) \/ Save(n, p) \/ \E lba \in Lba : Edit(n, lba, p)
  \/ \E n \in Name, size \in Sizes : Download(n, size)
  \/ \E n \in Name : Delete(n)

Next == Reboot \/ (Cardinality(astray) <= MaxAstray /\ Operation)

Spec == Init /\ [][Next]_vars

-----------------------------------------------------------------------------
\* Locations are sectors, names are names, and no count is negative.
TypeOK ==
  /\ disk.count \in Nat /\ disk.table \in [Entry -> Nat]
  /\ DOMAIN disk.data = Sector
  /\ \A s \in Sector : disk.data[s].kind \in {"zero", "text", "file"}
  /\ mem.files \in Seq([location : Sector, name : Name \cup {NoName}])
  /\ mem.fileCount \in Nat /\ mem.currentOpenSector \in Nat
  /\ store \in [Name -> [Lba -> {<<>>} \cup [1 .. Block -> {Zero, Text}]]]

File == ToSet(mem.files)
Located(files) == {f.location : f \in ToSet(files)}

\* The sectors a file owns: its header, and its blocks up to its size.
Extent(f) ==
  LET size == At(disk, f.location).size
  IN  f.location .. f.location + Max({size, Block * (size \div Block)})

BeginsNoOther(n) == \A f \in File : <<n, f.name>> \in Matches => f.name = n

\* Nothing has gone wrong yet; no operation has been cut short yet.
Sound == astray = {}
Uncut == astray \cap {"crashed", "half deleted"} = {}

(***************************************************************************)
(* What was last written to a block under a name is what reading it under  *)
(* that name returns, whatever was created, grown, deleted or restarted in *)
(* between; a name that was deleted leads to no file.                      *)
(***************************************************************************)
ReadsBack ==
  Sound => \A n \in Name :
    /\ store[n] # Absent => Exists(n)
    /\ Exists(n) /\ BeginsNoOther(n) => store[n] # Absent
    /\ \A lba \in Lba : store[n][lba] # <<>> => ReadLBA(disk, mem, n, lba) = store[n][lba]

\* Two files share no sector, and the next file to be created has its sector
\* and all those behind it to itself.
Apart ==
  Sound =>
    /\ \A f, g \in File : f # g => Extent(f) \cap Extent(g) = {}
    /\ \A f \in File : \A s \in Extent(f) : s < mem.currentOpenSector
    /\ \A s \in Sector : s >= mem.currentOpenSector => disk.data[s] = Zero

\* The table on the disk and the list in memory hold the same files, though
\* deleting shifts the list and moves the newest entry of the table.
TableAgrees ==
  Sound =>
    /\ mem.fileCount = Len(mem.files) /\ disk.count = mem.fileCount
    /\ Located(mem.files) = {disk.table[k] : k \in 0 .. disk.count - 1}
    /\ \A k \in Entry : k >= disk.count => disk.table[k] = 0
    /\ \A f \in File : At(disk, f.location).kind = "file" /\ At(disk, f.location).name = f.name

\* A restart at any moment between two operations finds the files that are there.
RestartFindsAll == Sound => Located(Loaded(disk).files) = Located(mem.files)

\* The count on the disk counts the entries, unless a crash came in between.
CountLedger ==
  Uncut =>
    disk.count = Cardinality({k \in Entry : disk.table[k] # 0})

(***************************************************************************)
(* NewFile, WriteLBA, Delete and the restarts keep the disk, the list in   *)
(* memory and the open sector in agreement with each other.                *)
(***************************************************************************)
DiskInv == TypeOK /\ Apart /\ TableAgrees /\ CountLedger

(***************************************************************************)
(* A machine that stops while a file is created or written loses no block  *)
(* of any other file: the writes of one operation stay with its file.      *)
(***************************************************************************)
CrashSparesOthers ==
  [][Sound /\ "crashed" \in astray' /\ astray' \subseteq {"crashed", "taken"} =>
       \A n \in Name, lba \in Lba :
         store'[n][lba] # <<>> => ReadLBA(disk', mem', n, lba) = store'[n][lba]]_vars
=============================================================================
