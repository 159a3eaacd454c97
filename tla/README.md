# ToyDB in TLA+

Models, model checks and proofs for ToyDB (`src/toydb`), a small storage engine
in C: a Paged File layer with a buffer manager, a Slotted Page layer and a
B+ tree Access Method layer above it. Line numbers are those of the source;
paths are relative to `src/toydb` unless they start with `src/`.

## 1. The system

| Component | State it keeps | Operations | Made correct by |
|---|---|---|---|
| Buffer manager (`pflayer/src/pfbuf.c`) | two linked lists of frames, `PFnumbpage`, `PFmaxbpage`, `PFstrategy`; per frame `fd`, `page`, `fixed`, `dirty`, the page | `PFbufGet`, `PFbufAlloc`, `PFbufUnfix`, `PFbufUsed`, `PFbufReleaseFile` | no page in two frames, none lost; a fixed page stays in its frame; a change reaches the disk before its frame is reused; the victim is the LRU or MRU unfixed frame |
| Page table (`pfhash.c`) | buckets of (fd, page) entries | `PFhashFind`, `PFhashInsert`, `PFhashDelete` | finds exactly the frames in use |
| Paged files (`pf.c`) | `PFftab`: name, unix descriptor, header and `hdrchanged` per open file; the files | `PF_Init`, `PF_CreateFile`, `PF_DestroyFile`, `PF_OpenFile`, `PF_CloseFile`, `PF_GetFirstPage`, `PF_GetNextPage`, `PF_GetThisPage`, `PF_AllocPage`, `PF_DisposePage`, `PF_UnfixPage` | the free list of a file is exact; a used page stays used, with its data; a closed file is whole on disk |
| Slotted pages (`splayer/src/sp.c`) | a header, slots and records in one page | `SP_InitPage`, `SP_InsertRecord`, `SP_DeleteRecord`, `SP_GetRecord`, `SP_GetNextRecord` | slots and records do not overlap |
| Record files (`splayer/src/sp{convert,insert,find,delete,scan,analyze}.c`) | the pages of a `.tdb` file; pages they hold fixed | convert a text, insert, find, delete, scan, analyze | records appear and disappear only by a call that says so; every page fixed is unfixed |
| B+ tree (`amlayer/src/{amfns,am,aminsert,amsearch,amstack}.c`) | leaves, inner nodes, the path stack, `AM_RootPageNum`, `AM_LeftPageNum` | create, destroy, insert, delete, search | keys sorted, tree balanced, every entry findable; the stack empty and no page fixed between calls |
| Index scans (`amscan.c`) | `AM_scanTable`: per open scan the operator, where its range ends, the place of the next entry | `AM_OpenIndexScan`, `AM_FindNextEntry`, `AM_CloseIndexScan` | every entry of the range once and in order, also if the client deletes each entry it gets; no page left fixed |
| Bulk load (`am_bulkload.c`) | the leaf and the list of separators being built | `AM_BulkLoad` | searches find the records of the file, or nothing if the load fails |
| Output, statistics, `main.c`, tests | | | not modelled |

The two upper layers are clients of the Paged File layer and never of each
other, except that the bulk load reads slotted pages. The layers talk through
calls only: a page is fixed by a get or an allocation, the client then works
through a pointer into the frame, and says at the unfix whether it has changed
the page. `pf.c` gives `pfbuf.c` two callbacks (`PFreadfcn`, `PFwritefcn`),
through which the buffer manager reads and writes pages of files it does not
know.

Everything runs in one thread. What is hard is not the interleaving of threads
but that of frames and failures: any get may evict any other page, of any file,
and fail at it; any call may fail at `malloc()`, `read()` or `write()` half way
and leave the state for the next one; state is in four places (frame, page
table, table of open files, disk) that have to agree; and calls may come in any
order. PROJECT.json lists these hazards, each at its line, with the properties
that watch over it.

## 2. The modules

| Module | What it models | Lines of code it stands for |
|---|---|---|
| `PFBuffer` | the buffer manager, its page table and the two callbacks, as operators from a pool and a disk to the set of possible outcomes | `pfbuf.c`, `pfhash.c`, `pf.c:99-154` |
| `PFFile` | the state machine: every `PF_` call over `PFBuffer`, the files and the client | `pf.c` |
| `PFFileProps` | the properties, the inductive invariant, the refinement mapping | |
| `PageStore` | the abstract specification: files of pages, no buffers | `IMP.DOC` |
| `PFReplacement` | `PFFile` with the order in which pages were used last, for the replacement strategy | |
| `PFBufferProofs` | lemmas on the operations of the buffer manager: what every outcome has in common, what it may move and evict | |
| `PFFileProofs` | `PFFile` keeps its types, the pool its lists; what is stored stays stored, the action properties, and that `PFFile` implements `PageStore`, over lemmas on free chains and on one page's way between frame and disk | |
| `PFReplacementProofs` | the page that loses its frame is the one the strategy asks for | |
| `SlottedPage` | one page: layout, insert, delete, next record | `sp.c` |
| `SPFile` | the record-level calls, one step per page they get, over what a client sees of the Paged File layer | `sp*.c` |
| `SPFileProps` | its properties and the inductive invariant | |
| `SPFileProofs` | their proofs | |
| `AMLeaf` | a leaf of the B+ tree: search, insertion, deletion, compaction, on its keys and lists of record ids | `aminsert.c`, `amsearch.c:153-246`, `amfns.c:154-202` |
| `AMLeafSpec`, `AMLeafPage` | one leaf as a state machine, and the same in offsets, linked lists and a free list, shown to implement it | |
| `AMTree` | the B+ tree: `AM_InsertEntry` and `AM_DeleteEntry` with search, splits and the path stack, over the leaves of `AMLeaf` | `amfns.c`, `am.c`, `amsearch.c`, `amstack.c` |
| `AMTreeProps` | its properties and the refinement mapping | |
| `SequenceProofs` | lemmas on loops and on sequences, for the proofs of records and of the tree | |
| `AMLeafProofs` | the binary search, and what each operation on a leaf leaves of entries and room | |
| `AMLeafPageProofs` | the page's lists stay apart, and it implements `AMLeafSpec` | |
| `AMTreeProofs` | the tree stays a search tree of one height with its leaves chained in order, finds its entries and implements `AMIndex` | |
| `AMIndex` | the abstract specification: a set of (key, record id) pairs | `am.h:182-200` |
| `AMBulkLoad` | `AM_BulkLoad` on the pages of `AMTree`: leaves, levels, root | `am_bulkload.c` |
| `AMScan` | index scans over trees that are inserted into or bulk loaded, and deleted from between two calls | `amscan.c` |
| `AMScanProps` | the properties of both, with a history of what a scan still has to return | |
| `MCPFFile`, `MCPFReplacement`, `MCSPFile`, `MCAMLeaf`, `MCAMTree`, `MCAMScan` | values for TLC | |

**State.** `pool.used` and `pool.free` are the two linked lists, as sequences;
`pool.hash` is the function the hash table computes; `pool.frame` the `PFbpage`
structures. `ftab` is `PFftab`, where a `NULL` name is `Absent`; `disk` and
`header` are the contents of the files. A page is its link (`nextfree`) and a
value for its 4096 bytes. `Junk` is what nobody chose: memory from `malloc()`,
or the data of a page written in part.

**Steps.** A `PF_` call is one action, from its checks to its return, except
`PF_CloseFile` and `PF_GetNextPage`, which loop: `call` holds the loop's
position, one action is one iteration, and the next call starts when it has
returned. An outcome of a buffer operation is a record of error code, pool,
disk and frame; where a system call may fail there is an outcome for each
failure, with the state the code leaves. `exit(1)` on an internal error is the
state `Exited`. A call that fails its first checks (bad descriptor, page number
out of range) changes nothing and is not modelled.

**Clients.** They make the calls in any order, as the documentation allows
them to: a file is not opened twice if one of the two writes (`IMP.DOC:104`), a
page that was modified is unfixed as dirty (`IMP.DOC:238`), and who opened a
file only to read does not write. `Modes` and `AllocTouches` say which clients
there are; with `AllocTouches = TRUE` a client counts a page it has allocated
as one it has modified. Several properties hold of such clients only, for the
reason given in section 4 (`pf_alloc_clean`).

**Slotted pages.** Offsets and lengths are kept, bytes are not: a slot carries
the record found at its offset, which `PagesLaidOut` justifies. `SPFile` does not
build on `PFFile`, whose states would be multiplied, but on the facts `PFFile`
is checked for: a fixed page stays put, an unfixed one comes back as it was if
it was marked dirty (`Coherent`, `ImplementsPageStore`), and a get fails when all frames
are fixed. `Evict` may happen at any time, which is more often than in the
code; that can only add behaviours. `SPanalyzeDb` scans as `SPscanDb` does, so
one action stands for both. A text is the sequence of what `fgets()` returns, a
line over 1023 characters being several of them.

**B+ tree.** A leaf is its keys in order, each with its record ids, the number
of cells in its free list and the gap between keys and cells, which together
decide every branch of `AM_InsertintoLeaf`. `AMLeafPage` keeps the offsets and
the lists threaded through the cells, and `am_leaf` shows that it implements
the leaf: so `AMTree` needs no offsets. An internal node is its keys and
children; offset `i` of the code is child `i + 1`.

`call` holds what the locals of the code hold between two steps: key and record
id, the leaf the search has fixed (`at`), and the new page and separator on
their way to a parent (`up`, `sep`). A call is the step of its search, a step at
the leaf, and a step for each level that `AM_AddtoParent` goes up. Of the Paged
File layer the tree needs two errors: a page that is fixed cannot be got again,
and with no buffer left nothing can be got or allocated. That is where
`AM_SplitLeaf` and `AM_AddtoParent` stop half way. The client inserts no pair
twice, deletes pairs that are there or not, and ends after an error of the Paged
File layer, as `misc.c` does. `AM_Compact` of no keys reads a variable that has
no value. In the split of a leaf with one key its gap is any number in `AnyGaps`.
The other case, an insertion into a leaf that has no keys and whose free cells
leave no room for one, is in `AMLeafPage`, where `keyPtr` becomes any number in
`AnyKeyPtrs`. `KeyFits` says that it does not come up.

**Bulk loads.** The client loads a data file into an index that is as
`AM_CreateIndex` leaves it. A record that fits into the leaf is one step, as is
a leaf that is full, each level of nodes, and the root. The leaf being filled
and a page of the data file are fixed meanwhile, and share the buffers; that
page is got when the load begins and given back when all records are in leaves,
which is as many buffers as the code has in use whenever it asks for another
one. The page that becomes the root is copied to page 0 and disposed of. It is
the last one of the file and the first to be allocated again, so the model
removes it. `malloc()` and `realloc()` may fail, the latter whenever the list
of separators has grown to its size.

**Scans.** `scan` is one entry of `AM_scanTable`, field by field, except that a
saved offset into a list of record ids (`nextRecIdPtr`) is the entry found
there: `NullCell` at the end of a list and `WildCell` where the offset comes
from behind the last key. Each of the three calls is one step, a call of
`AM_FindNextEntry` with its loop over empty leaves included. The deletion of
the entry just returned (`amlayer/DOC:54`) runs through the steps of `AMTree`
between two of them. The check whether that entry's key has gone compares the
key at the saved index with a copy of it. Behind the last key, the page still
has the key that was moved from there, which is the one that is compared with.

Definitions whose name ends in `_Mutant...` are wrong versions of the one that
follows, each with the property it violates when it takes its place.

## 3. The runs

| Run | Instance | What it shows |
|---|---|---|
| `pf_pool` | 1 file, 3 pages, 2 frames, LRU, all failures, no data | lists, page table, free list, header and file agree through every eviction, error path, close and reopen; no fixed page moves; no internal error; the victim is the least recently used page of those not fixed |
| `pf_files` | 2 files with a page each, one data value, 2 descriptors, readers and writers, pools of 1 frame (MRU) and 2 (LRU), no failures | the frames of two files are kept apart over close and reuse of a descriptor; readers write nothing; used pages stay used until disposed of; the calls that loop return; the layer implements `PageStore` with data that clients change |
| `sp_file` | 2 lengths of record, texts of 1 to 3 pages, 2 buffers, I/O failures | pages are laid out well; convert keeps every line; find and delete take the first occurrence; evictions, scans and failed calls change nothing (of records that fit in a page); scans count right; no page is left fixed |
| `am_leaf` | one leaf with room for three keys, or one with four record ids; 4 keys, 2 record ids; the search compared on all leaves with keys in 1..7 | no cell is lost or in two lists; lists, their order and the room agree with `AMLeafSpec`; the binary search is a scan |
| `am_tree` | 7 keys, leaves of two, nodes of two keys, 1 to 3 buffers | all leaves are at one depth and chained in order from page 2; every key is where a search ends; the tree implements `AMIndex`; three buffers are enough |
| `am_scan` | leaves of three keys, nodes of two; loads of 0, 2, 4 and 10 records; insertions and deletions of 3 keys with 2 record ids; all 7 operators, 4 values; 1 to 3 buffers | a load is done or has no effect; scans return what they have to, in order, under deletions; two buffers are enough |
| `pf_alloc_clean` | finding: `pf_pool` with `AllocTouches = FALSE` | see section 4 |
| `sp_insert_full` | finding | |
| `sp_insert_too_long` | finding: a record that fits in no page | |
| `am_insert_lost` | finding | |
| `am_scan_less` | finding | |
| `am_bulk_left` | finding | |

**Bounds.** Three pages in two frames is the least where an eviction has a
choice of victims and a page is neither evicted nor resident by necessity; a
free list of three pages has a head, a middle and an end. Two files, with two
descriptors and one page each, are the least where frames of two files are next
to each other in the used list while one is closed, and where an entry of
`PFftab` is reused. With one frame every get of another page is an eviction, and
with a fixed page every get fails. `PF_Init` is called again, with the other
pool, when no file is open. One data value (and `Junk`) is enough to see a lost
write, since a page starts with other contents. The two runs divide what would be
too many states together: failures and three pages are in `pf_pool`, data and the
comparison with `PageStore` in `pf_files`; neither has a choice between victims
under MRU. The theorems on the layer (section 5) hold for all of it at once:
every number of files, pages and frames, both strategies, every set of failing
calls and of data. Both runs are of `PFReplacement`, which is `PFFile` with the
history `recent`: it adds no states, since the history is in the used list.

A page of 10 bytes, header and slots of 2, holds one record of length 3 and one
of length 1 with no byte to spare, two of length 1 with two to spare, and not two of length
3: the boundary of `SP_InsertRecord` is met from both sides.

A leaf of 10 bytes, keys of 1 and cells of 2, reaches every branch of
`AM_InsertintoLeaf`: a cell from the free list, one from the gap, and compaction of
some keys. It leaves at least one byte beside a key and its record ids (section
4 tells of the leaves of which it is not so).
In `am_tree` and `am_scan` no leaf can be emptied with so many cells in it.
In the tree a leaf of 9 bytes, keys and cells of 2, holds two entries, and a
node holds two keys, the least even number. Seven keys are then enough for a
root that splits twice, and an internal node below it that splits as well.
`MaxPages` ends insertions when there are 9 pages, and `MissPages` ends
deletions of pairs that are not there when there are more than 3: each of them
leaves a page fixed, and after that calls soon fail. One record id for each key
is enough in the tree, since a second one is in the same list, which `am_leaf`
covers; `am_insert_lost` has three record ids, so that one key fills a leaf.

In `am_scan` a leaf of 18 bytes, keys of 4 and cells of 2, holds three keys, the
least where a deletion moves a key that the scan has not come to. Ten
records then make four leaves, two nodes above them and the root; four make two
leaves, two one, and none an empty root. `MaxParentEntries = 2` makes the list
of separators grow when the fourth leaf is begun. `Values` are the first and the
last key of the first leaf, the first of the second and one in its middle; a value behind the last key of its
leaf comes up when that key has been deleted, and a value behind all keys in trees
with fewer. `TreeKeys` are the keys inserted and deleted, enough for a tree that
splits, and to empty a first leaf. `MissPages = 3` lets deletions that find
nothing leave leaves fixed in the way of scans. The path a scan leaves on the
stack makes every further one a new state: with `MaxStack` on it, no scan for a
value is opened. The two runs for findings have leaves of two keys, and so many buffers
that none is ever short.

**Deadlock** is not checked in `sp_file` and in the runs of `AMTree` and `AMScan`. In the first
the file may end up open with its descriptor lost (convert's `PF_CloseFile`
failed), and the one client has nothing left to call; in the others the client
ends after an error of the Paged File layer, or when a load has failed.

**Fairness.** Only `CallsReturn` needs it: weak fairness of the steps of a call
in progress (`pf_files`). The library has one thread and waits for nothing, so a call that
can take its next step takes it. Nothing is assumed of the client.

## 4. What the code does otherwise than it says

Each of these has a run that finds it:

- `pf_alloc_clean`: `PF_AllocPage` does not mark a page from the free list as
  dirty (`pf.c:449-458, 480`), unlike one at the end of the file (`pf.c:473`). A
  client that has not modified it unfixes it with `FALSE`, as `IMP.DOC:238` says; once
  evicted it is free on disk, in no free list, and no longer the client's, where
  `IMP.DOC:204` says "Allocate a new, empty page". For such a client `Coherent`,
  `OpenFreeListExact`, `ClosedFileIntact` and `ImplementsPageStore` do not hold either.
  `UsedUntilDisposed` does, for all other pages: those that are used on disk, or in
  a frame that will be written (`SafelyUsed`): `pf_files` checks it for clients with
  `AllocTouches`, and the theorem `AllocatedPagesStayUsed` is for every client.
- `sp_insert_full`: an insert into a full last page empties that page
  (`spinsert.c:52`) where `sp.h:137` promises a new one.
- `sp_insert_too_long`: if a record fits in no page, `SP_InsertRecordByContent`
  empties the last page in the buffer, fails again and unfixes it as not modified
  (`spinsert.c:52-60`). The insert is rejected, with `SPE_PAGE_FULL` and never with
  the `SPE_RECORD_TOO_BIG` of `spinsert.h:23`; the records of the page are gone as
  long as the frame is not reused, and back afterwards. `OnlyCallsChangeRecords`
  is about records that fit in an empty page.
- `am_insert_lost`: when one key fills a leaf with its record ids, the split
  moves it whole to the new page, and the new key that belongs there finds no
  room again. `AM_SplitLeaf` does not look at the result (`am.c:41, 47`), and
  `AM_InsertEntry` returns `AME_OK` without the entry, where `am.h:193` says
  "Inserts a value,recId pair into the tree." In `am_tree` no key fills a leaf.
- `am_scan_less`: a scan for `<` whose value is the first key of its leaf ends at
  once, with nothing returned, if the leaf that it starts at has the higher page
  number, as it has after the split of the root (`amscan.c:339`).
- `am_bulk_left`: scans take page 2 for the leftmost leaf (`amscan.c:476`), which
  after a bulk load is page 1: they never return the entries of the first
  leaf. The properties of scans that pass say so in `StartsRight`.

These follow from the model as it is, and have no run of their own:

- `AM_Compact` computes `keyPtr` from `offset2`, which has no value if there are
  no keys (`aminsert.c:168`). An insertion gets there when all keys of a leaf have
  been deleted and its free cells leave no more than the room of one key, as they
  do where one key filled the leaf to the last byte: attributes of 2, 8, 14, ...
  characters (4072 = 10 + 677 * 6), but not integers and floats (4066 is no
  multiple of 6). `am.h:243` promises "enough space in the middle"; what the later
  insertions take for it is then any number (`WholeCompacted`). The theorems on
  the page assume that it does not happen (`KeyFits`).

- `AM_DeleteEntry` empties the stack "so that it is set for next amlayer call"
  (`amfns.c:208`) if it finds the entry, and not otherwise (`amfns.c:148`); it
  does not unfix the leaf then either. `AM_OpenIndexScan` leaves the path of its
  search on the stack as well. Nothing checks the 50 entries of the stack.
- A scan for a value behind the last key of its leaf fails (`OpenPastLeaf`): the
  header of the next leaf is read over the one with that leaf's page number
  before the page is unfixed (`amscan.c:119-120`). Two pages remain fixed. The
  same happens to a scan for `#` whose value is the last key of its leaf
  (`FindAfterSkip`, `amscan.c:370-371`).
- A scan for `<=` whose value is the last key of the index does not end: the
  check for the last key sets `LAST` where the end of the chain has set `OVER`
  (`amscan.c:415, 443`), and the scan goes on with offset 0 for its next cell.
- A scan for `#` returns the value it has to leave out when it is not the first
  that the scan comes to: the key that is skipped is not copied to `nextvalue`
  (`amscan.c:352`), so the check for deletions steps back to it.

The last three, and the two runs for scans, were compared with the compiled
code on the same calls.

## 5. The proofs

TLC checks small instances; the theorems below hold for every value of the
constants: any number of files, descriptors, pages and frames, any mixture of
failing calls, any size of page, slot and record, of leaf, key, cell and node,
and a tree of any height.

| Module | Theorem | States | Needs |
|---|---|---|---|
| `PFFileProofs` | `InvIsInvariant` | `[]IInv` | |
| | `TypeCorrect` | `[]TypeOK` | |
| | `PoolStaysConsistent` | `[]PoolConsistent` | |
| | `NoFrameOfClosedFile` | `[]FramesOfOpenFiles` | |
| | `StoreInvIsInvariant` | `[](IInv /\ StoreInv)` | |
| | `NoExit` | `[]NoInternalError` | |
| | `NoFreePageFixed` | `[]FixedPagesAreUsed` | |
| | `FixedPagesStayPut` | `FixedPageStaysPut` | |
| | `ReadersAreHarmless` | `ReadersChangeNothing` | |
| | `NoChangeLost` | `[]Coherent` | `AllocTouches` |
| | `FreeListsExact` | `[]OpenFreeListExact` | `AllocTouches` |
| | `ClosedFilesIntact` | `[]ClosedFileIntact` | `AllocTouches` |
| | `AllocatedPagesStayUsed` | `UsedUntilDisposed` | |
| | `PagesAreStored` | `ImplementsPageStore` | `AllocTouches` |
| `PFReplacementProofs` | `HistoryIsTheList` | `[](IInv /\ OrderKnown)` | |
| | `VictimByStrategy` | `EvictsByStrategy` | |
| `SPFileProofs` | `RecordsInvIsInvariant` | `[]IInv` | |
| | `RecordsTypeCorrect` | `[]TypeOK` | |
| | `RecordsStayApart` | `[]PagesLaidOut` | |
| | `TwoBuffersAreEnough` | `[]TwoBuffersSuffice` | |
| | `RecordsAreKept` | `OnlyCallsChangeRecords` | `RecordsFit` |
| | `FirstIsFound` | `FindReturnsFirst` | `RecordsFit` |
| | `FirstIsDeleted` | `DeleteRemovesFirst` | `RecordsFit` |
| | `AllAreCounted` | `ScanCountsAll` | `RecordsFit` |
| | `LinesAreKept` | `ConvertKeepsText` | |
| `AMLeafProofs` | `SearchFindsPlaceOf`, `BinSearchFinds` | the two binary searches find key, place or child | keys in order |
| | `LeafInserted`, `LeafDeleted`, `LeafSplit` | a leaf after each operation | `ListsFit` |
| `AMLeafPageProofs` | `PageIsGood` | `[]GoodPage(page)` | `[]KeyFits` |
| | `PageFormsWell` | `[]PageWellFormed` | `[]KeyFits` |
| | `SearchFinds` | `[]SearchFindsPlace` | `[]KeyFits` |
| | `PageImplementsLeaf` | `ImplementsLeaf` | `[]KeyFits` |
| | `NoKeysNeverCompacted` | `[]KeyFits` | `(LeafSpace - KeySize) % CellSize # 0` |
| `AMTreeProofs` | `TreeInvariant` | `[]IInv` | `[]AllListsFit` |
| | `TreeTypes` | `[]TypeOK` | `[]AllListsFit` |
| | `SearchFindsEntries` | `[]EntriesFindable` | `[]AllListsFit` |
| | `TreeHasShape` | `[]TreeShape` | `[]AllListsFit` |
| | `LeavesInOrder` | `[]ChainInOrder` | `[]AllListsFit` |
| | `InsertionsTakeEffect` | `InsertTakesEffect` | `[]AllListsFit` |
| | `ThreeAreEnough` | `ThreeBuffersSuffice` | `[]AllListsFit` |
| | `TreeIsIndex` | `ImplementsIndex` | `[]AllListsFit` |
| | `FewRecordIds` | all of these, and `[]AllListsFit` | `FewRecIds` |

**Assumptions.** Those of the modules say that sizes are naturals, that there is
at least one descriptor and one page, that faults, modes and texts are of the
listed ones, and that `Absent`, `"free"` and `NoFile` are no pages, headers or
files. The last column names what single theorems assume in addition.
`AllocTouches` is the client that takes a page it allocates to be one it has
modified; without it `Coherent` is false, for the reason given in section 4.
`RecordsFit`
says that a record has room in an empty page, since an insert of one that has
not empties the last page and does not mark it (section 4).

`KeyFits` is about the states of a behaviour: a leaf without keys has more bytes
between keys and cells than a key takes, so that no insertion compacts no keys.
Where it fails, the next insertion may compact no keys: `keyPtr` is then any
number (section 4), and nothing is promised of the page after that.
`NoKeysNeverCompacted` gives the sizes for which it always holds; integers and
floats have them (4072, 6 and 6), and characters of any length but 2, 8, 14, ...
The theorems of `AMLeafProofs` on one operation and those on the tree do not
need it: they assume `ListsFit`, under which no key can fill a leaf.

`AllListsFit` is about the states of a behaviour, not about the constants: in no
leaf has a key so many record ids that a second key would not fit beside it
(`LeafSpace > Space(2, Len(ids) + 1)`). It is the complement of the finding
`am_insert_lost`: where it fails, `AM_SplitLeaf` may lose the entry, and
`InsertTakesEffect` and `ImplementsIndex` are false. So `InsertionsTakeEffect`
proves the property that run refutes, for clients that keep below that limit.
`FewRecIds` is a condition on the constants under which every client does: a
leaf has room for two keys, one of them with all record ids there are. It holds
in `am_tree.cfg`, and, with integer keys and pages of 4096 bytes, for up to 600
record ids.

TLC evaluates the
assumptions of the modules on every run.

**The pool** (`PFBufferProofs`, `PFFileProofs`). `IInv` is `TypeOK /\
PoolConsistent /\ FramesOfOpenFiles /\ WalkOK /\ ScanOK`. The last two make it
inductive: `FramesOfOpenFiles` is at stake when a close ends, and holds then
because the walk has seen every frame of the file. `WalkOK` says so in every
state of the walk: all frames of the file are at or behind its position, and
the position is on the list, even though the step before unlinked the frame it
stood on. `ScanOK` keeps the descriptor of a `PF_GetNextPage` in progress open.
`PFBufferProofs` states for each operation what every outcome has in common,
errors included (`GetOK`, `AllocOK`, `UnfixOK`, `UsedOK`, `ReleaseOK`); under
them are the lemmas on the two lists as sequences (`UnlinkAt`,
`MoveToHeadLists`, `FreeFrameLists`) and on the moment when a frame is in the
used list and not yet in the page table (`HasSpare`).

**The victim** (`PFReplacementProofs`). `recent` of `PFReplacement` is the order
of the pages' last uses, made from the calls alone; `EvictsByStrategy` compares
victims with it. The used list is not in that order: `PFbufGet` leaves a page
that it finds where it is (`pfbuf.c:228`), and only the unfix moves it. But such
a page is fixed in the meantime and cannot be evicted, and of those that can, the
one used later is ahead in the list. That is the invariant, `OrderKnown`. It
needs, of each operation of the buffer manager and of each way it fails, that the
pages it is not called for keep their order (`KeepsOrder`), that its own page
ends at the head or fixed (`AtHead`), and that the page whose frame it takes is
the one the list says (`TakesVictim`). The proof that the list is right is thus
one for both strategies, which only read it from different ends.

**What is stored** (`PFFileProofs`). None of the storage
properties is inductive. `StoreInv` adds what they rest on: `OneWriter` and
`OnlyWritersChange` (the client's side), `HeadersKept` (a header is on disk, or
in `PFftab` and marked changed), `PagesSettled` (a frame that is not dirty is as
the disk has it, and no page is missing from both), `OpenChains` (the free list
of an open file is a chain through links that are partly in frames and partly
on disk) and `FilesWhole` (what a close leaves). An action changes at most one
page, its target; all others are moved between frame and disk by evictions on
the way. The lemmas for the buffer operations say just that: pages are `Moved`
or `Carried` and read the same afterwards, and the target is in its frame. From
this each action preserves the chain. A chain is stated by an order function
(`FreeOrder`: the pages of the list, in the order of the links, each once)
rather than by following links, because nothing can be proved of a recursive
function by induction here; the lemmas that a chain is followed to its end
(`FreeChain`, `ChainExact`) argue with the least number for which they would
fail. `ChainExact` gives `FreeListExact`, in which the runs state it.

**The refinement** (`PFFileProofs`). The mapping shows a client's view of a
page: its frame if there is one, the disk otherwise (`View`), which is the same
for every descriptor of the file (`EveryoneSees`). A step that only replaces
frames leaves all views alone and is a stutter; any other is one step of
`PageStore`, on the target page. `NoInternalError` and
`FixedPagesAreUsed` exclude the outcomes that `PageStore` does not have.

**Records** (`SPFileProofs`). `IInv` of `SPFileProps` adds to the checked
properties: `CallOK` and `HeldFixed` (where a call in progress stands and which
pages it holds), `CleanAsOnDisk` and `DiskLaidOut` (eviction brings back a page
laid out as well), `NotBehind` (a find or delete has passed no occurrence) and
`CountedSoFar` (a scan has counted the records of the pages it has left). The
loops within a page, `SP_GetNextRecord` from slot to slot, visit the live slots
in order, each once (`VisitsLiveSlots`), again by the least number for which
they would not. For `ConvertKeepsText`, which needs no `RecordsFit`,
`ConvertedSoFar` says that a convert is at the last page, that no page it has left
differs from the disk unless it is marked, and that the file has the lines read
so far. Records and lines are concatenations, to which a step adds nothing or one
at the end (`LineOnLastPage`, `NoLineOnNewPage`, `LinesGrow`).

**The leaf** (`AMLeafProofs`). The loop of the search is the function of its
turns: each turn keeps the value in the range and makes the range smaller
(`TurnNarrows`), so that as many turns as there are keys leave one place or two
(`NarrowedAround`), next to which the value is or would be. The function exists
and is what the model's recursive definition chooses (`LoopInvariant` of
`SequenceProofs`, by the least number of turns for which no run of the loop would
exist). For the other
operations `GoodLeaf` is the account of the page: gap, keys and cells, in lists
or free, make up `LeafSpace`. The number of record ids is the length of a
concatenation, so the proofs need what `FlattenSeq` has when a list is put in
(`CountPutIn`) or the sequence is cut (`CountParted`). `LeafSplit` shows that
either half has room for the entry when no list is too long (`Roomy`), and that
the key passed up separates the halves.

**The page of a leaf** (`AMLeafPageProofs`). The cells lie from the end of the
page, so that they are numbered, whatever the size of the page; what has to be
shown is that the lists through them stay apart. `GoodPage` says that there is an
owner for every cell, a key or the free list (`Laid`), that the cells of one
owner are a row that ends with `AM_NULL` (`IsRow`), and that the keys are in order and
fit together with the cells. Following a row finds it and nothing else
(`WalkIs`, `RowIsList`). An insertion gives one cell, a new one or the
first free one, to a key; a deletion unlinks one and gives it to the free list;
`AM_Compact` copies row after row, which `PackedBy` describes by the number of
record ids that come before each key. So `PageInserted`, `PageDeleted` and
`PageHalved` give the page after each operation, and the same page read as
sequences is what `AMLeaf` has, which is the refinement (`StepIsLeafNext`).
`PageWellFormed` counts cells; it follows because owners are disjoint.
`BinSearchIsScan` is the search on any finite set of keys, in order.

**The tree** (`AMTreeProofs`). Nothing in the pages says that they are a tree.
`IInv` says that there are a height `h[pg]` and a range `r[pg]` for each page
(`GoodTree`): the root's range is all numbers, the children of a node are one
lower and have the parts into which its keys cut its range, leaves are at
height 0 with their keys in their range, and no two pages of one height share
a number. That is all a search needs: at each turn the key is in the range of
the page, so it ends at the one leaf that can have it (`PathLeads`,
`KeysAreFound`). While a split goes up, the pages are no tree, because the new
page is in no node. `IInv` then says that they will be one once the separator is
put into the parent on top of the stack (`Completed`), and that the stack
below leads to that parent (`Trail`). A leaf or node that is split, with the
separator added above, gives heights and ranges again (`TreeSplit`), and a new
root raises the others by one (`RootIsSplit`). After an error of the Paged File
layer, with pages half way, only the types are left; the client then ends. The
entries are the pairs held in leaves, found or not (`EntriesArePairs`), and each step
adds, removes or keeps them, which is the mapping to `AMIndex`: an insertion
takes effect there with the step that ends the call.

The leaves' links are part of `GoodTree` too (`LinksOf`): the next leaf has the
range that comes next, and the last has none. A split of a leaf puts one link
in between (`HalvesLinked`), and the rest of the chain is as it was.
`TreeShape` and `ChainInOrder` are stated, for TLC, by going down from the root
and along the links, and the proofs connect the two: what is at depth `n` is, by
the least depth for which it would not be, all pages of height `h[Root] - n`,
from left to right, each once (`LevelAt`); the chain comes to the leaf whose
range is next; and what is in order piece by piece is in order
(`FlattenOrder`). That the leftmost leaf keeps its number, 2 after the first
split, is what makes `GetLeftPageNum` right (`LeftOK`, `RootAlone`).

The inductive invariants of the Paged File and Slotted Page layers were checked by
TLC on the instances of their runs before they were proved. That of the tree
has heights and ranges of numbers that TLC cannot enumerate; on the instance
of `am_tree` it checks what follows from it.

**Only model-checked.** `CallsReturn` is a liveness property, which is out of the
prover's reach. So is what a recursive definition computes for every input, where
no order function or least number stands in for the induction. Not proved either
are the properties of scans and loads (`AMScanProps`: `ScanTypeOK`, `EOFOnlyAtEnd` and the action
properties): a scan needs the tree's invariant for a tree from which entries are deleted
between two calls, and for one that was loaded, which no theorem has yet.

## 6. Not modelled

Crashes (the header is written only at a close, and there is no recovery);
`PF_Init` with files open; a failing `close()`, `open()` or `lseek()`; a header
transferred in part; two writers of one file; the bucket chains of `pfhash.c`;
statistics and printing; the reading of text lines; a client that follows
`SP_FindRecord`'s pointer after the unfix; a second `PF_Init` with fewer buffers
(the frames of the first stay in use). Of the B+ tree: the checks of parameters,
failing I/O, `AM_DestroyIndex` and the file `AM_CreateIndex` makes, what a tree does after
`AM_Compact` of no keys in an insertion (a leaf alone has it in `AMLeafPage`), a
stack that overflows its 50 entries, calls on two indexes in turn (which share
`AM_LeftPageNum` and the stack).

Of scans: several at once, and a scan table that is full; a bad operator or
descriptor; insertions during a scan, which `amlayer/DOC` leaves out as well; the
scan for `#` whose value is not found, which goes on from where the entry of
the table was left by the scan before it; and, behind the last key of its leaf, the case
that the page unfixed by mistake is one that an earlier call has left fixed.
Of bulk loads: keys that come twice (a key on both sides of a page boundary is
found on one side only, and twice in a leaf it is two keys), data files that are
not sorted, data pages that no record is on, and a failing `read()` or `write()`.
The printing functions change nothing. `main.c` is a stub, and the test programs
make calls that the models make in every order.

## 7. Plan

1. Done: the Paged File layer, its abstract specification, its type and pool
   invariants proved; the Slotted Page layer.
2. Done: the leaf (`AMLeaf`, `AMLeafPage`) and the tree (`AMTree`) with `AMIndex`.
   Left of it: two indexes in turn, and a tree with a leaf whose `keyPtr` has no
   value.
3. Done: `AMBulkLoad` and `AMScan`, each on `AMTree`. Left of them: several scans
   at once, and duplicate keys in a load.
4. Done: the proofs of the Paged File layer, `PageStore` included, and of record
   files.
5. Done: the proofs of the leaf, as sequences (`AMLeaf`) and as a page
   (`AMLeafPage` over `AMLeafSpec`), and of the tree: `TypeOK`, `EntriesFindable`,
   `TreeShape`, `ChainInOrder`, `ThreeBuffersSuffice`, `ImplementsIndex`.
6. Done: the proof of the victim in `PFReplacement`. Proofs left, in this order:
   that a loaded tree is a `GoodTree`; scans, from `ChainInOrder`.
