# EQ-Data-Patcher in TLA+

EQ-Data-Patcher is a C program that downloads patch manifests, keeps a SQLite
database of them and reads and writes the game's PFS archives.  This directory
holds TLA+ modules translated from its source, the TLC configurations that
check them, and TLAPS proofs about them.

## 1. Inventory

| part | source | state it keeps | operations |
|---|---|---|---|
| ring buffer | `ringbuf.c`, `edp_atomic_*.c` | four cursors, two flags and a packet per block, all shared between threads | push, pop |
| background thread | `bg_thread.c`, `edp_semaphore_*.c` | two rings, a semaphore, the thread, database handle and eqpath | start, stop, send, recv; the thread's loop |
| hash table | `edp_hash_tbl.c`, `hash.c` | an array of entries, chains through it, a free index | set, get, remove, deinit |
| archives | `pfs.c`, `crc.c` | the raw file, its modification time, entries, names | open, get, put, put_compressed, save, deinit |
| manifest parser | `lex.c`, `parse.c` | position in the text, parse state, the value being accumulated, entries with a table of labels each | parse |
| patch manifests | `patch.c` | the array of entries, an index by name, one accumulator | download manifests, download a patch |
| database | `db.c`, the schema | a file, a connection | init, exec, prepare |
| blob writer | `bin.c` | headers, names and data in three arrays, two running offsets, the file | create |
| arrays | `edp_array.c` | data, count, capacity | push, pop, set, append, shift, clear, reserve, sort, take ownership |
| strings, buffers | `edp_string.c`, `edp_buffer.c`, `bit.c` | text, length, capacity | append, set, read a file, reserve, clear, subtract; make from a slice or a file |
| main program | `main.c` | none but what it calls | make a blob, or open the database, download, list |

How they interact.  The background thread and the thread that starts it share
nothing but two rings and a semaphore: a packet is pushed and the semaphore
posted; the background thread waits, drains the ring, waits again.  Manifests
are downloaded by `patch.c` through libcurl from the URLs in the database into a
string and parsed by `parse.c` into an array of entries, which is handed over to
the caller; `main.c` lists it.  Archives keep an
array of entries and a hash table from names to indices into it; they share
their file with other programs (the game, its own patcher).  In this commit
`main.c` has its calls of `bg_thread_start` and `bg_thread_stop` commented out.

What is hard, and what makes each part correct:

- *ring buffer*: lock-free, weak compare-and-exchange, wrap-around, hand-off of
  an unfinished advance to another thread.  Every packet is delivered once, in
  order, to one popper; no block is overwritten before it is read; nothing
  stays invisible.
- *background thread*: two-part signalling (ring, then semaphore), shutdown by a
  message in the queue, failing semaphore calls, restarts.  No lost wake-up, no
  resource freed under the running thread, every packet handled before the
  thread ends, stop returns.
- *hash table*: eviction, chains through one array, a free index that is moved by
  three operations, reallocation in place of a retry.  It is a map; chains
  partition the entries; the free index never names a used slot.
- *archives*: a file other programs write, a check before a truncating write, a
  crash during the write, data and lengths that must fit together, a directory
  whose order is sorted twice.  What is saved is what was put; a save destroys
  no change of another program; a save that is cut short leaves no archive with other
  contents, and what a failed put can cost is known.
- *manifest parser*: an automaton with flags over joined lines, skipped spaces and
  dropped backslashes, early returns that count as success.  A well-formed manifest is
  read as its writer meant it.
- *patch manifests*: one accumulator over several URLs, entries that change owners,
  error paths.  Every entry is freed once, what is listed is listed and found right.
- *database*: a start interrupted between creating the file and loading the schema.
  Success means a whole database.
- *blob writer*: offsets into a blob assembled later, files that are skipped.  What a
  header points to is what it names; a blob has a manifest.
- *arrays, strings*: growth, an in-place quicksort, counts that must follow data, reads
  that stop half way.

## 2. Plan

In the order of writing; all stages are done.

1. `RingBuf`, with its abstract specification `BoundedFifo`, its inductive
   invariant `RingBufSPSC` and the proofs `RingBufProofs`.
2. `BgThread`, which composes two threads with one instance of `RingBuf`.
3. `HashTbl`, with its abstract specification `KeyValueMap`.
4. `ArraySort` and `Arrays`: the arrays everything else is kept in, and their
   in-place sort.
5. `Pfs`, which uses `ArraySort`: an archive and the file it shares with other
   programs; the abstract specification `ArchiveStore` is a map from names to
   contents with a guarded save, and says what a failed put can cost.
6. `SimpleString` and `Strings`; `Parser` on `SimpleString`; `Documents`, which says
   what a text for `Parser` means; `PatchManifests` on both and an instance of `Arrays`
   for its two arrays.
7. `Db` and `BinBlob`.
8. `Program`: `main`, which composes `PatchManifests`, `Db` and `BinBlob` and is
   started again and again over the same files.
9. Proofs: the ring and its refinement, the background thread, the hash table and its
   refinement, strings, the parser's types, `Program`; then the sort, and on it the
   arrays, the archives and their refinement; then that the parser reads every document
   as it is meant, and with it `ListsFirst`.  What is left to TLC
   is at the end of section 5.

## 3. The modules

### RingBuf

An action is one atomic access of `ringbuf_push_impl`, `ringbuf_pop_impl` and
their callers, with the local code around it; `edp_atomic_posix.c` makes every
access sequentially consistent, so the interleavings of the actions are the
executions of the code.  `pc` is the place of a thread: `load`, `check` and
`claim` are the loop that reserves a block, `copy` the memcpy, `flag` the raised
flag, `advLoad`, `advTest`, `advMove` the loop that advances over finished
blocks.  `ClaimFails` is both the real and the spurious failure of the weak
compare-and-exchange.  `index` and `block` are the local variables.  A packet is
the number of the claim that reserved its block, which is what order, loss and
duplication can be told by; `nSent`, `nTaken` and `ticket` count claims and are
read by no guard except the bound `MaxPackets`.

`BoundedFifo` is what a ring promises: a queue of at most N - 1 packets that
receives the packets in the order of their numbers and gives each to one taker.
A packet enters it when `writeStart` passes its block and leaves when a pop
claims the block (`ImplementsFifo`).

### BgThread

`Input` is an instance of `RingBuf` with one pusher (`main`) and one popper
(`bg`); `MainPush` and `BgPop` are one atomic access of it each, together with
what the caller does when the call returns.  The output ring gets at most one
packet per start and is a sequence.  `alive` says which of the rings and the
semaphore exist.  `Start`, `Send`, `Stop`, `Recv`, `Join` are the caller's side;
`InitDB`, `SemWait`, `BgPop` the thread.  `bg_thread_init_db` is one step with its
outcomes, a failing step behind the row that set eqpath among them.  Faults are `PostFails`, `SemWaitFails` and `StartFails`; the
properties that a failing semaphore call really breaks say so (`Faulty`).

### HashTbl

The table is a record of capacity, free index and array; `Put` is the placing of
an entry, which `tbl_set_impl` and `tbl_realloc` both contain, in its three cases.
The hash function is a variable that never changes: the initial states hold all
of them.  A key is a name, of an integer (`IntKeys`) or of a string.  `Terminated` says whether the caller's key ends with a
NUL: `tbl_set_impl` compares with `strcmp` and `tbl_get_impl` with `strncmp`, so a
slice of a text is never found by the first.  `tbl_remove_impl` is
`RemoveAbsent`, `RemoveFound` and `RemoveHangs` (its `continue` repeats a test
that does not change).  `args` is what the last call that returned was given, and `result`
what it returned.  `KeyValueMap` is the map the table promises: a call returns what the map
says of the key it was given, and a set stores the value it was given and no other.

### ArraySort and Arrays

`ArraySort` is `array_sort` swap by swap: the sort is not stable, and where equal keys
end up matters to `Pfs`.  `array_sort_recurse` is a recursive function of its calls, an
arrangement of the elements with the two ends (`Calls`); over that set it can be proved
to exist, and to sort.  `Arrays` has one action
per operation of `edp_array.c` on a record of elements and capacity.  The
bytes behind the last element are not kept, so `array_append_array`, which copies
elements there and does not move the count, is an action that only makes room.
`realloc` may give any block: nothing in `Arrays` bounds the room of an array, and a
refused call changes nothing.  `MCContainers` stops the growth at its `MaxCapacity` for TLC;
in `PatchManifests` an array grows as far as the page needs.

### Pfs

One session and one file.  The file is `body`, its bytes, and `mtime`, in
seconds; `holds` is what `pfs_open` would make of the bytes, and `since` who has
written since the session read the file: nobody, another program, or last the session.  Bytes
are counted in compressed blocks: a content of size k is k blocks, the list of
names is one, an offset is a number of blocks.  `Layout` is the order in which
`pfs_save` puts files, names and directory together, `Walked`, `ListOf`, `Named`
and `IndexOf` are how `pfs_open` takes them apart again, both with `Sorted` of
`ArraySort`.

| action | code |
|---|---|
| `ReadFile`, `Parse`, `ParseFails` | `pfs_open`: the read, then the time and everything made of what was read |
| `Put`, `PutFails`, `PutCompressedFails` | `pfs_put`, `pfs_put_compressed`, and the places where `malloc` or `compress2` fails |
| `SaveBegins`, `SaveAgain`, `SaveAborts`, `SaveBuilt`, `Truncate`, `TruncateFails`, `Finish`, `FinishFails` | `pfs_save`, cut at the two checks, `fopen` and `fclose` |
| `Close` | `pfs_deinit`, or the end of the program at any place |
| `OtherWrites`, `Tick` | other programs, the clock |

`ArchiveStore` is what a caller may expect: the session has a copy of the map, a
put changes one name of it, a save begins only on a file no other program has
changed and ends with the copy in the file, if no put has failed, or with no archive at
all, if it was cut short.  The refinement maps `holds` to its file, `MapOf(pfs)` to its copy,
and `since` to what it knows of writers.

A put that fails leaves the new inflated length beside the old deflated one
(`pfs.c:398`), and `pfs_save` then takes as many blocks as the second says and writes the
first into the directory (537-548).  In the session only the one name is wrong, and a later
put repairs it.  Saved, it is worse, and `pfs_save` reports success all the same:

- The name had a content (`Damaged`): the file may be one `pfs_open` refuses, because the
  entry reaches behind the end or the list of names is not found, and every name is lost.
  If it opens, every other name is as it was.
- The name is new, so its deflated length is 0 (`Hollow`): its entry has the offset
  of the file behind it, and besides being refused the archive may open with names at
  entries that are not theirs.  Nothing is promised of any name.

`Commit` says exactly this: with no hollow name (`Filled`) either every undamaged name
is saved as it was, or there is a damaged name and the file is `Torn`.  No text of the
repository promises more, so this is a property and not a finding.

Files of no bytes are left out (`PfsAssumption`), because with them the promise does
not hold: such a file has the offset of the file behind it, the sort of `pfs_open`
may exchange the two, and after a save and an open each has the other's content.
With the assumption weakened and a content of size 0, `ImplementsStore` fails within
eight steps.  The rest of `PfsAssumption` says that there is a name, and finitely many of
them, and that a content is not one of the strings by which the modules mark a name
without a content, a damaged one, or a file that is no archive.

### SimpleString and Strings

A SimpleString is a length and cells, a String a length and a block of capacity cells;
a cell that was allocated and not written is `Raw`.  So a text without terminator, a
read behind the end of a text and an unwritten byte that becomes part of a text
can be told from the right ones.  `sstr_from_file` leaves the last cell unwritten, as
the code does.  In `Strings` one action is one call; `str_set` and `str_set_from_file`
are `str_clear` and the append, and when the append is refused only `StrClear` has
happened.  `Chars` are the bytes a text can hold; `Fits` says that `realloc` gives the
block, none larger than `MaxStrCapacity`.  `Pow2GreaterThan` stands for the shifts of `bit.c` below 2^31.

### Parser

A token is a word or one character, and counts as one cell.  The loops of `parse_file`,
`parse_skip_until`, `parse_tag`, `parse_label`, `parse_equals` and `parse_value` each
call `lex_adv` and look at one token, so together they are an automaton: `state` is
`p->state` with `Tag` for the inside of `parse_tag` and `Done` for `ERR_Done`, the
other fields are the struct and the local variables of the loops.  `parse_file` is
the automaton after the whole text.  The cases of `parse_value` exclude one another,
as the branches of the `switch` and the tests in them do.  `ParserAssumption` says that a
word is none of the characters `parse.c` compares a token with, which is what `lex_read`
makes of letters and digits.

### Documents

The reference the parser is compared with, and no translation of it: what somebody who
types a manifest means.  A document is text without a bracket and a list of entries, an
entry a name, fields and what stands behind them, a field a label and a value as it is
typed.  `DocumentText` lays it out as text, `Meant` is the list it is to be read as.  A
typed value is described by its positions and not by a scan: `IsOneLine` says that its
lines but the last end behind a backslash with no word in between, `IsMeant` that the value
is what is left of it without backslashes, ends of lines and leading spaces, in order.
The tokens of two pages in `accum` stay apart here, where the lexer would join a word that
ends one with a word that begins the next; an entry ends with its gap or a line, so between
documents that happens only in text that is skipped.

### PatchManifests

`patch_download_manifests` is cut where its state can be told apart: `stepping` over
the rows, `performing` a download, `parsed` with the entries in the parser, `kept` with
the entries in `patches`, `returned`.

| action | code |
|---|---|
| `Call`, `CurlFails`, `NoStatement` | the beginning, with `error_no_stmt` and its uninitialised string |
| `StepRow`, `StepNull`, `StepFails` | `sqlite3_step`: a url, NULL, an error that is returned as success |
| `Perform`, `PerformFails` | download and parse, or any of the calls in between failing |
| `Keep`, `KeepFails`, `Discard` | `array_take_ownership` or `array_append_array`, then `parse_deinit` |
| `SetByNames` | `SQLITE_DONE` and `patch_set_by_names`, which may run out of memory half way |
| `DownloadPatch` | `patch_download_and_apply` with `patch_download` |

`patches` and the content of the parser are two arrays of `Arrays`, whose
`TakeOwnership` and `AppendArray` are used as they are; `RoomPushed` is the room that
the pushes of `parse_tag` have made, one entry after another.  `live` is the set of entries
that are allocated: each is named by the row and place it was parsed at.

### Db

`file` is what is durable, `conn` the connection with what is not committed.  Each
`CREATE` of the schema commits on its own; `BEGIN`, `INSERT` and `COMMIT` end it.
`StatementFails` may happen at each of them, and `ProcessEnds` between any two.  `cut`
records that a start which was creating the tables did not get to the end of the schema,
and no later one did.  The schema is executed also when the first open reports
`SQLITE_CANTOPEN` for a file that is there: in an empty one it creates everything
(`CreateFile`), in one with tables its first statement fails (`OpenAgain`).

### BinBlob

One action per argument, then one for each of: no manifest, the correction of the
offsets, `fopen`, the writes with `fclose`.  Names and contents are sequences of
distinct bytes, so a slice at a wrong offset is never right by chance.

### Program

`phase` is the place of `main`.  `OpenDb`, `Download` and `CreateBlob` are the steps of
`Db`, `PatchManifests` and `BinBlob`; between `Db` and `PatchManifests` goes only the
connection: whether a statement can be prepared on it, and the rows it finds.  The
result of `db_init` is not looked at.  `served`, the page
behind each url, is the same in every start; any sequence of tokens can be one, and one
that is said to be well formed is the text of its document (`IsPage`).
`Crash` ends the process anywhere and takes its
memory with it; the database and the blob stay for the next start.

## 4. The runs

| run | question | bounds |
|---|---|---|
| `ring_spsc` | is the ring right in the program's use of it, and is `IInv` inductive-looking? | 4 blocks, 10 packets: more than two laps |
| `ring_mpmc` | and with several threads on each side? | 4 blocks, 3 packets, 2 + 2 threads |
| `ring_lap` | is a cleared flag always somebody's advance? (no) | 3 blocks, 4 packets, 3 pushers |
| `bg` | wake-ups, shutdown, restart, also when `sem_wait` and `sem_post` fail | 3 blocks, 4 packets and 1 failing post per start, 2 starts |
| `hash_set` | set, grow, get | 5 keys, 2 values, capacities 2, 4, 8, hashes {0, 1, 4, 8} |
| `hash_remove` | set and remove in one array | 4 keys, one an integer, 2 values, capacity 4, hashes 0..4 |
| `hash_slices` | does `tbl_set_str` refuse a key it has? (not a slice) | 3 keys |
| `containers` | do elements and text always fit, does the sort sort, is a string what was appended? | 3 kinds of elements with 2 keys, blocks of 6 and 1; strings of up to 7 bytes, inputs of 0 to 3 |
| `pfs` | put, save, open against another program, with crashes, failing writes and puts | 2 names, contents of 1 and 3 blocks, 2 seconds, 1 failing put |
| `pfs_race` | is another program's change always noticed? (no) | as `pfs`, no failing put, two of `Windows` open |
| `program` | over any number of starts: is the database whole, the right manifest listed, every entry freed once, the right patch downloaded, the blob readable? | 2 URLs and 3 lists of them, 8 kinds of fields, entries of up to 2, pages of up to 2 entries, 6 broken pages; 2 tables; up to 3 arguments out of 3 files |
| `blob_names` | are the names where the headers say? (no) | as `program` |

Why they are enough.  A ring of N blocks holds N - 1 packets, so three or four
blocks have an empty, a partly filled, a full and a wrapped state; ten packets
visit each block more than twice, so a flag or packet of an earlier lap would be
seen.  `ring_mpmc` stays within one lap on purpose: with as many packets as blocks
a thread can sleep in a call while the cursor comes round to the index it has
loaded, its compare-and-exchange then succeeds on a check that no longer holds.
`ring_lap` shows one consequence of that and `findings` describes it.  Five keys
force two reallocations and every mixture of the three ways of placing an entry;
the hashes meet at capacity 2, 4 and 8 or part there.  A `VIEW` leaves `args` and
`result` out of the state: no later call depends on them, and every call is compared with
the map from every state of the table.
Five elements, the most a block of six can sort, give the quicksort nested
partitions on both sides, ties and empty parts; capacities pass through doubling
(3, 6) and every exact size, to where `malloc` refuses.  Two names lie on
either side of the list of names in the directory by crc, and other programs
write them in both orders, so directory order and offset order differ; contents
of different sizes make a wrong offset or length visible, and three blocks are enough for
a damaged name to reach behind the end of the file; two seconds are an
earlier and a later write.  Text of up to seven bytes passes the capacities 2, 4 and
8, and a refusal; the array and the string share nothing, so `containers` runs
one at a time.  In `program` the first URL serves every well-formed page with one entry
of up to two fields or two entries of up to one, in all combinations of a short and a
long name, labels in two cases, and values that are empty, begin with space, span
lines, hold a backslash or the characters of the syntax.  The page is made from what
its writer means, which is the reference the parser is compared with.  The second
URL serves short and broken pages: an open bracket, no name, a name that begins late,
a label without value, a value without end.  Lists of URLs have one, two, and three
rows with NULL and a page after another, so a manifest follows an empty one and another
manifest.  Two tables leave a database with none, some and all of them.  The
program is started any number of times; nothing counts the starts.

`Windows` names the times at which another program may write although `pfs.c`
cannot notice: `open`, between the reading and the time; `second`, within the
second of the recorded time; `save`, between the last check and the end of the
write.  `pfs` keeps all three closed: what it shows is that at every
other time a change is noticed.  `pfs_race` opens the first two, which the code
could close; the third cannot be closed without a lock.

`CHECK_DEADLOCK FALSE` is set where the system may stop: the background thread run
reaches the bound of starts, a table whose call hangs takes no other call.
In the ring runs some thread can always look again, an array can always be emptied,
an archive always be opened or closed.

Fairness.  In `RingBuf` a call that has claimed a block goes on (`PushFinish`,
`PopFinish`): the scheduler runs a runnable thread and no step of it waits.  Nobody
is forced to call push or pop, so `EventuallyVisible` and `EventuallyReleased` hold
without help from later calls.  In `BgThread` the steps of calls in progress are
weakly fair, the claims strongly: a weak compare-and-exchange does not fail for
ever.  `Start`, `Send`, `Stop`, `Recv` are never forced.
The other modules state no liveness: their operations are sequential and return.

Findings.  `ring_lap`, `hash_slices`, `pfs_race` and `blob_names` end in a violation:
each shows that a comment of the source does not hold of the code, as `PROJECT.json`
describes.  The first two are not reached by the program as it is: each ring has one
pusher, and a repeated label in a manifest is needed for the second.  `pfs_race`
needs a second program at the wrong moment.  `blob_names` needs a blob of two files.

Two more things the comments say do not hold of the code, and have no run of their own.
"If we reach here, there are no free spaces left in the hash table"
(`edp_hash_tbl.c:321`) is `NoFreeSpacesLeft`, which `hash_set` checks; with
removals it fails.  "If the underlying file has been modified by an external program,
abort" (`pfs.c:493`) is true of the session's own earlier save as well;
`RefusedAfterWriteOnly` is what holds.  And some behaviour nothing in the repository
speaks of is modelled as it is: of several manifests only the first with entries is
listed, the others are freed by the parser; an error of SQLite between two rows is
reported as success; a manifest is read up to its first error without a word; a
database whose creation was cut short is taken for complete; a save behind a failed put
reports success for a file that may not open.  `ListsFirst`, `SuccessIsWhole` and
`ImplementsStore` say what the program does in their presence.

## 5. The proofs

Each theorem is of the specification the runs use, for every value of the constants.
The assumptions on constants are the named `ASSUME`s of the modules, which TLC
evaluates in every run; some theorems have a hypothesis of their own, stated in them:
`OneOfEach` (one pusher and one popper, which is how `bg_thread.c` uses a ring),
`NoWindow` and `SafeUse` (below).  Every property is reached in the same way: it is not inductive,
so a stronger invariant is shown to hold at first and to be kept by each action,
and the property follows from it.

| module | proves | from the invariant |
|---|---|---|
| `RingBufProofs` | `TypeOK`; `Delivered`, `CursorsOrdered`, `HandOff`, `ImplementsFifo` | `TypeOK`; `IInv` |
| `BgThreadProofs` | `TypeOK`, `RunsOnLiveResources`, `NoLostWakeUp`, `StopsAfterCommands` | `BgInv` |
| `HashTblProofs` | `TypeOK`, `FreeIndexIsFree`; `NoFreeSpacesLeft`, `WellLinked`, `KeysUnique`, `ImplementsMap` | `TableInv`; `MapInv` |
| `SortProofs` | `Sorted` puts any elements in order and is a rearrangement of them | none: it is about an operator |
| `ContainerProofs` | `StrTypeOK`, `HoldsText`, `Terminated`; `TypeOK` and `SortOrders` of `Arrays` | `StrInv`; `ArrInv` |
| `PfsProofs` | `RefusedAfterWriteOnly`; `TypeOK`, `IndexAgrees`, `PutStores`; with no window open `NoLostUpdate` and `ImplementsStore` | `TimeInv`; `FiledInv`, `PlaceInv`; `WriteInv`, `StoreInv` |
| `ProgramProofs` | the types of what `parse_file` makes of any text; `SuccessIsWhole`; `OwnedOnce`; `DownloadsNamedPatch`; `ListsFirst`; `BlobDataFound`, `BlobHasManifest`; `TypeOK` | `Parsing`; `DbInv`; `EntriesInv`; `ListInv`; `FirstListed`; `BlobInv`; all of them |
| `LeastNumber` | induction and recursion up to n, and `FlattenSeq` one sequence at a time, for the others to cite | none |

*The ring.*  That a pop reads the packet of its own claim needs to know what lies in
every block between the cursors (`Contents`); that needs to know that a pusher writes
only at `writeStart`, which depends on where the pusher is and on the flags
(`PushInv`), and that the popper does not free the block early (`PopInv`).  `IInv` is
their conjunction.  The arithmetic of the circle is done once: `DistanceGrows`,
`DistanceShrinks`, `DistanceAdds`, `AtNext` say how `Distance` and `At` change when a
cursor moves to the next block.  `PushStep` and `PopStep` have one case per action;
the frames (`PushFrame`, `PopFrame`) say what an action of one thread leaves alone in
the other's invariant.

*The ring is a queue.*  Under `IInv` the blocks between `readEnd` and `writeStart` hold
packets of consecutive numbers, so the abstract queue is a run of numbers (`Mapping`).
An advance of `writeStart` makes it longer at the back, a claim of a pop shorter at
the front, and every other action is a stutter (`Unseen`).

*The background thread.*  Its ring is another instance of `RingBuf`, for which `IInv`
holds because the steps of the two instances are the same formulas (`InputSteps`).
`BgInv` adds where the two threads can be together (`Places`), that the semaphore
never counts more than was pushed (`Counts`), that what was popped was handled
(`Handles`), and `Wakes`: with the semaphore at 0, packets in the ring and no failed post,
the packet is one that is being pushed and will be posted.

*The hash table.*  `TableInv` (links are slots or none, the free index names an empty slot)
holds for every use of the table.  The rest needs to know that chains are chains.
`Forest` says it of three functions on the taken slots, with no mention of records: the
link, the main position, and a rank, how far a slot is from the head of its chain.  A rank
is 0 exactly at a slot that is its own main position, one more behind each link, and
every other slot has one slot before it.  `ForestHead`, `ForestLast`, `ForestEvict`,
`ForestCut` and `ForestDrop` are the five things the code does to a chain.  Since as many
slots come before one as its rank says (`RankBound`), a walk of as many steps as there are
slots comes to the end (`ChainEnds`) and meets every entry of the main position
(`OnItsChain`, `ChainHolds`).  `Sound` adds that no key is twice and that entries are filed
under their hash; then `tbl_get` finds what the table holds (`LookupIs`).  `PutSound` says
that each of the three ways of placing an entry adds it and nothing else, `RemoveFoundSound`
the same of the three ways of removing one, `ReallocSound`, by induction over the old array,
that the larger array holds the same.  The first free index that is none then means a full
array (`NoGap`), and the array is doubled only then.

`SafeUse` is what the last four theorems assume, and both `hash_set` and `hash_remove`
satisfy it: keys are whole (with slices the table keeps one twice, `hash_slices`), and a
table from which keys are removed does not grow.  The second half is needed: once a removal
leaves the free index behind a free slot, `tbl_realloc` may be called for a table with empty
slots, and places those too.  Neither is about sizes: keys, hash function, capacities and
the number of calls are any, up to `NEXT_INVALID` slots (`HashTblAssumption`).

*The sort.*  `SortedSorts` is about the swaps themselves.  `Partition` ends with the pivot
between what is less and what is not, and touches nothing outside its ends; by induction
over the length of the part, each call leaves its part in order and the whole a
rearrangement.  `SortOrders` follows, and, since sorting changes no length, `TypeOK`.

*The archive: times.*  `RefusedAfterWriteOnly` needs that the time of the file is never behind
the one the session has unless somebody wrote (`Untouched`).  `NoLostUpdate` is false of
the code (`pfs_race`), so it is proved with `Windows = {}`, which says when another
program does not write: exactly the three times at which the code cannot notice.  Then
a write is always later than the session's time (`Noticed`).

*The archive: bytes.*  `FiledInv` is of the file and the session, whatever windows are open
and whatever has failed.  The bytes in the file are laid out as `pfs_save` does or are no
archive; the list of names is one shorter than the directory (`AllNamed`), so no entry
of a session is without a name; and the index leads to each entry from its name and to no
other (`Filed`).  Each half needs the other: the entries written give the layout
(`ImageTyped`), and the layout gives the entries read (`OpenedFiled`).

*The archive is a map.*  A save and an open are a round trip through two sorts: the
directory is written by crc, where equal crcs may end up anywhere, and read by offset.
Files are not empty, so the offsets of a layout strictly ascend (`OffsetsAscend`); a
rearrangement that puts strictly ascending keys in order is the identity
(`AscendingIsIdentity`), so the entries are the files in the order they were written, the last is the
list of names (`WrittenOrder`, `LastIsNames`), and each name gets the blocks of its file
(`FilesLie`).  All this needs only that every file has
bytes (`Apart`), as it has in a copy with no hollow name because no entry is of length 0
(`NoEntryEmpty`), and not that the lengths in the directory are right: if the file opens, the list of names is
found (`ApartLists`) and every file whose own length is right reads back (`ApartReads`); if
all are right it opens (`WholeOpens`).  So a copy with no hollow name is saved as `Commit`
says (`FilledSaves`).  A name is hollow only if it was absent or hollow before (`PutsHollow`).
`PutsGive` and `OthersStay` say what a put does to the copy.  `StoreInv` ties the bytes to
what they hold and to the session that is reading them; `StoreStep` maps each action to
one of `ArchiveStore` or to a stutter.  `NoWindow` is needed here also: a write between the
last check and `fopen` is lost, as `pfs_race` shows, and a write between the read of the
file and that of its time goes unnoticed.  That the promise needs files with bytes is
`OffsetsAscend`, where the sizes of `PfsAssumption` are used.

*The strings.*  `Holding(s, t)` says that a string has the text t in a block with a cell
to spare, `Ended` that the terminator lies behind it.  That a block always has the
cell to spare is `RoomGranted`, about `Pow2GreaterThan`; the lemmas `GrownCells` and
`OverlaidCells` say what `realloc` and `memcpy` leave alone.  A read that stops half way
overwrites the terminator it found: `ReadShortHolds`.

*The parser.*  `LeastNumber` has what a proof about a recursive function needs and the
installed provers cannot take from the library: induction up to n over a set instead of
a predicate, and that a function defined by recursion over 0..n exists
(`RecursionUpTo`).  With them `Parsing` (the text has its length, the names listed are
C strings, indices are in the text) is kept by the automaton through any text,
including those that are no manifest.

*The parser reads what is meant.*  `ReadTo(f, text, k)` is the parser behind the k-th token,
the tokens behind it still as they were typed (labels are made lower case in place, so
that is not clear by itself).  A piece of a document that lies there (`Lies`) moves it by
its length: `ReadsName`, `ReadsValue`, `ReadsField` and `ReadsEntry` say to which state, and
`ReadsFields` and `ReadsEntries` repeat that by induction over a list.  The value is where
the work is.  While it is read the two flags are what `Continues` and `Shown` say of
the tokens so far (`ContinuesNext`, `ShownNext`): a line goes on exactly where the flag is
up, and what was accumulated is what is shown so far.  `ReadsDocument` puts it together: a
document behind any text without a bracket is read as `Meant`, and if it means nothing
there is still no bracket.

*The program.*  `DbInv` follows the database through creation and crashes.  `EntriesInv`
numbers an entry by the row it was parsed for: `OwnedOnce` needs that the ones kept are of
earlier rows than the one being downloaded, or the same entry could be allocated twice.
`ListInv` says that names of entries are C strings, that the index was made of a prefix of
the array, and that it is of the whole array when the call reported success;
`RoomIsEnough` is that arrays have grown as far as the pushes of the parser need.
`FirstListed` is why one accumulator that is never cleared does no harm: as long as
nothing is kept there is no bracket in it, so the page that is appended is read as if it
stood alone (`DocPerform`); from then on what is parsed again is not kept (`DocKeep`), and
what is kept stays what the first of the rows meant (`FirstMeantNext`).  `BlobInv`
says where the data of every file lies: at offsets counted from the first file while the
arguments are read, from the beginning of the blob once they are corrected.  The theorems
hold over any number of starts, each of them killed anywhere.

`BlobAssumption` says that paths and contents are sequences, `ProgramAssumption` that the
program first starts with no database or with one of all tables and a url,
`StringsAssumption` that no byte of a text is the terminator.

Model-checked only:

- liveness (`EventuallyVisible`, `EventuallyReleased`, `StopReturns`,
  `EveryCommandHandled`): the prover does not treat fairness;
- the ring with several pushers or poppers: `IInv` is of one of each, and with more than
  one lap the code breaks it (`ring_lap`);
- what is listed when a page before it is no document: `ListsFirst` does not speak of it,
  there is no reference;
- the archive with a window open (`pfs_race`), where `NoLostUpdate` and so
  `ImplementsStore` do not hold.

Neither checked nor proved: the hash table when keys are removed and it grows as well.  There
`tbl_realloc` moves empty entries into chains, as the hazard at `edp_hash_tbl.c:468` says.

## 6. What is left out

Left out of the modules above: Windows variants of the atomics and semaphores, which
make the same promises; the failing copy of a string key in the hash table; the work
a background command does (the switch of `bg_thread_proc` has no command but
Terminate); what `pfs_get` returns, a removed archive and a `stat` that fails (a time
of -1), bytes of two writers mixed in one read, archives no program would write; `array_for_each`.  In the manifests:
characters that are not ASCII, bytes 0, tables of labels as hash tables (a label set
twice has two values, either of which may be found), names leaked when the array of
entries cannot grow.  In the database: page size, `ANALYZE`, a file that goes away.
In the blob: the magic number, exit codes and messages.
Not to be modelled: `err_code.c` (a table of texts), `sqlite3.h` (a third-party
interface, 10371 of the 14460 lines of the repository's C files).
