--------------------------------- MODULE Pfs ---------------------------------
(***************************************************************************)
(* An archive of src/src/pfs.c: the file, which other programs also write, *)
(* and one session of this program that opens it, puts files into it and   *)
(* saves it.                                                               *)
(*                                                                         *)
(* The unit of length is the compressed block.  A content of size k is k   *)
(* blocks, compressed or not; the area of an archive is the blocks behind  *)
(* its header, the last of them the list of names.                         *)
(***************************************************************************)
EXTENDS ArraySort, SequencesExt

CONSTANTS
  Names, Contents,
  Size,        \* the number of blocks of each content; files of no bytes are left out
  OtherContent, \* bound: what other programs store under each name
  Crc,         \* crc_calc of each name
  NamesCrc,    \* the crc of the list of names, 0x61580ac9
  Windows,     \* when other programs may write: see OtherMayWrite
  MaxClock,    \* bound: seconds that pass
  MaxFailures  \* bound: puts that fail

NoName == "no name"

\* What a map says of a name that has no content.
Absent == "absent"
Damaged == "damaged"
Hollow == "hollow"

\* Bytes that are no archive: an empty file, or the beginning of one.
Torn == [area |-> <<>>, dir |-> <<>>]

ASSUME PfsAssumption ==
  /\ IsFiniteSet(Names) /\ Names # {} /\ NoName \notin Names
  /\ Contents \cap {Absent, Damaged, Hollow, "torn", "closed"} = {}
  /\ Size \in [Contents -> Nat \ {0}]
  /\ OtherContent \in [Names -> Contents]
  /\ Crc \in [Names -> Nat] /\ NamesCrc \in Nat
  /\ Windows \subseteq {"open", "second", "save"}
  /\ {MaxClock, MaxFailures} \subseteq Nat

VARIABLES
  body, mtime,  \* the file: its bytes and its modification time, in seconds
  holds,        \* history: what pfs_open would find in those bytes
  now,          \* the clock
  at,           \* where the session is
  pfs,          \* struct Pfs: raw, modTime, entries, byName
  since,        \* history: who has last written the file since the session read it,
                \* "saved" when it was a save that has written all its bytes
  failures      \* the puts that have failed

file == <<body, mtime, holds>>
vars == <<file, now, at, pfs, since, failures>>

(***************************************************************************)
(* Archives as bytes                                                       *)
(***************************************************************************)
BlocksOf(c) == [i \in 1 .. Size[c] |-> [of |-> c, part |-> i]]
NamesBlock(names) == [of |-> names, part |-> 0]
Junk == [of |-> <<>>, part |-> 1]

\* len blocks from offset on, whatever lies there.
Slice(area, offset, len) ==
  [i \in 1 .. len |-> IF offset + i <= Len(area) THEN area[offset + i] ELSE Junk]

ByCrc(dir) == Sorted(dir, 1, Len(dir), [e \in Range(dir) |-> e.crc])
ByOffset(entries) == Sorted(entries, 1, Len(entries), [e \in Range(entries) |-> e.offset])

\* Where the blocks of the i-th file begin.
OffsetOf(files, i) == Len(FlattenSeq([j \in 1 .. i - 1 |-> files[j].data]))

\* The bytes pfs_save writes: the files, the list of names, the directory by crc.
Layout(files) ==
  LET n     == Len(files)
      dir   == [i \in 1 .. n |-> [crc |-> files[i].crc, offset |-> OffsetOf(files, i),
                                  ilen |-> files[i].ilen]]
      names == [crc |-> NamesCrc, offset |-> OffsetOf(files, n + 1), ilen |-> 1]
  IN  [area |-> Append(FlattenSeq([i \in 1 .. n |-> files[i].data]),
                       NamesBlock([i \in 1 .. n |-> files[i].name])),
       dir  |-> ByCrc(Append(dir, names))]

\* What the replacement or the old block of an entry gives for its length.
SavedData(p, e) ==
  IF e.replacement = <<>> THEN Slice(p.raw.area, e.offset, e.dlen)
  ELSE Slice(e.replacement, 0, e.dlen)

\* A mutant: an entry is written from its old blocks unless it is a new one.
Image_OldBlocks(p) ==
  Layout([i \in DOMAIN p.entries |->
            [crc |-> p.entries[i].crc, ilen |-> p.entries[i].ilen,
             name |-> p.entries[i].name,
             data |-> IF p.entries[i].offset = 0 THEN SavedData(p, p.entries[i])
                      ELSE Slice(p.raw.area, p.entries[i].offset, p.entries[i].dlen)]])

\* The image pfs_save builds in memory.
Image(p) ==
  Layout([i \in DOMAIN p.entries |->
            [crc |-> p.entries[i].crc, ilen |-> p.entries[i].ilen,
             name |-> p.entries[i].name, data |-> SavedData(p, p.entries[i])]])

\* The directory walk of pfs_open: every entry with the length of its blocks.
Walked(b) ==
  [i \in DOMAIN b.dir |->
     [crc |-> b.dir[i].crc, offset |-> b.dir[i].offset, ilen |-> b.dir[i].ilen,
      dlen |-> b.dir[i].ilen, name |-> NoName, replacement |-> <<>>]]

\* The list of names is the entry with the greatest offset.
ListOf(b) ==
  LET last == ByOffset(Walked(b))[Len(b.dir)]
      list == Slice(b.area, last.offset, last.ilen)
  IN  IF last.ilen = 1 /\ list[1].part = 0 THEN list[1].of ELSE <<NoName>>

NoDuplicates(s) == \A i, j \in DOMAIN s : s[i] = s[j] => i = j

\* Whether pfs_open accepts the bytes.  No prefix of an archive is accepted:
\* the header points behind its end, or the directory ends early.
Opens(b) ==
  /\ b.dir # <<>>
  /\ \A i \in DOMAIN b.dir : b.dir[i].offset + b.dir[i].ilen <= Len(b.area)
  /\ Range(ListOf(b)) \subseteq Names
  /\ Len(ListOf(b)) < Len(b.dir)
  /\ NoDuplicates(ListOf(b))

\* A mutant: the names are matched to the entries in the order of the directory.
Named_ByDirectory(b) ==
  LET files == SelectSeq(Walked(b), LAMBDA e : e.crc # NamesCrc)
  IN  [i \in DOMAIN files |->
         IF i <= Len(ListOf(b)) THEN [files[i] EXCEPT !.name = ListOf(b)[i]] ELSE files[i]]

\* A mutant: the list of names stays among the entries.
Named_Unpopped(b) ==
  LET files == ByOffset(Walked(b))
  IN  [i \in DOMAIN files |->
         IF i <= Len(ListOf(b)) THEN [files[i] EXCEPT !.name = ListOf(b)[i]] ELSE files[i]]

\* The entries by offset without the list of names, each with its name.
Named(b) ==
  LET files == Front(ByOffset(Walked(b)))
  IN  [i \in DOMAIN files |->
         IF i <= Len(ListOf(b)) THEN [files[i] EXCEPT !.name = ListOf(b)[i]] ELSE files[i]]

IndexOf(names) ==
  [n \in Names |-> IF n \in Range(names) THEN CHOOSE i \in DOMAIN names : names[i] = n ELSE 0]

Opened(b) == [raw |-> b, entries |-> Named(b), byName |-> IndexOf(ListOf(b))]

(***************************************************************************)
(* Archives as maps                                                        *)
(***************************************************************************)
Closed == [n \in Names |-> "closed"]
NoArchive == [n \in Names |-> "torn"]

ContentOf(blocks) ==
  IF \E c \in Contents : blocks = BlocksOf(c) THEN CHOOSE c \in Contents : blocks = BlocksOf(c)
  ELSE Damaged

\* What pfs_save would write for each name.
MapOf(p) ==
  [n \in Names |->
     IF p.byName[n] = 0 THEN Absent
     ELSE LET e == p.entries[p.byName[n]] IN
          IF e.ilen = e.dlen THEN ContentOf(SavedData(p, e))
          ELSE IF e.dlen = 0 THEN Hollow ELSE Damaged]

\* What pfs_open would find.
MapIn(b) == IF Opens(b) THEN MapOf(Opened(b)) ELSE NoArchive

(***************************************************************************)
(* The session                                                             *)
(***************************************************************************)
NoPfs == [raw |-> Torn, modTime |-> 0, entries |-> <<>>, byName |-> [n \in Names |-> 0]]

\* The archives other programs write: any files, in any order.
OtherArchives ==
  {Layout([i \in DOMAIN names |->
             [crc |-> Crc[names[i]], ilen |-> Size[OtherContent[names[i]]],
              name |-> names[i], data |-> BlocksOf(OtherContent[names[i]])]]) :
     names \in {s \in BoundedSeq(Names, Cardinality(Names)) : NoDuplicates(s)}}

Init ==
  /\ body \in OtherArchives /\ mtime = 0 /\ now = 0 /\ holds = MapIn(body)
  /\ at = "closed" /\ pfs = NoPfs
  /\ since = "nobody" /\ failures = 0

\* The bytes of the file change.
Written(b) == body' = b /\ mtime' = now /\ holds' = MapIn(b)

Goto(from, to) == at = from /\ at' = to

\* pfs_open begins: the file is read.
ReadFile ==
  /\ Goto("closed", "read")
  /\ pfs' = [NoPfs EXCEPT !.raw = body]
  /\ since' = "nobody"
  /\ UNCHANGED <<file, now, failures>>

\* A mutant: the modification time is not taken.
Parse_NoTime ==
  /\ Goto("read", "opened")
  /\ Opens(pfs.raw)
  /\ pfs' = [raw |-> pfs.raw, modTime |-> 0,
             entries |-> Opened(pfs.raw).entries, byName |-> Opened(pfs.raw).byName]
  /\ UNCHANGED <<file, now, since, failures>>

\* Then its modification time is taken, and what was read is parsed.
Parse ==
  /\ Goto("read", "opened")
  /\ Opens(pfs.raw)
  /\ pfs' = [raw |-> pfs.raw, modTime |-> mtime,
             entries |-> Opened(pfs.raw).entries, byName |-> Opened(pfs.raw).byName]
  /\ UNCHANGED <<file, now, since, failures>>

\* The bytes are no archive, or malloc fails: the caller calls pfs_deinit.
ParseFails ==
  /\ Goto("read", "closed")
  /\ pfs' = NoPfs
  /\ UNCHANGED <<file, now, since, failures>>

\* pfs_deinit by the caller, or a crash of the program at any place.
Close ==
  /\ at # "closed" /\ at' = "closed"
  /\ pfs' = NoPfs
  /\ UNCHANGED <<file, now, since, failures>>

NewEntry(n) ==
  [crc |-> Crc[n], offset |-> 0, ilen |-> 0, dlen |-> 0, name |-> n, replacement |-> <<>>]

\* A mutant: the index is that of the entry before.
WithEntry_PrevIndex(n) ==
  IF pfs.byName[n] # 0 THEN pfs
  ELSE [pfs EXCEPT !.entries = Append(@, NewEntry(n)), !.byName[n] = Len(pfs.entries)]

\* pfs_get_or_append_entry.
WithEntry(n) ==
  IF pfs.byName[n] # 0 THEN pfs
  ELSE [pfs EXCEPT !.entries = Append(@, NewEntry(n)), !.byName[n] = Len(pfs.entries) + 1]

\* A mutant: the deflated length of the entry stays that of its old blocks.
Filled_OldLength(p, n, c) ==
  [p EXCEPT !.entries[p.byName[n]].ilen = Size[c],
            !.entries[p.byName[n]].replacement = BlocksOf(c)]

Filled(p, n, c) ==
  [p EXCEPT !.entries[p.byName[n]].ilen = Size[c],
            !.entries[p.byName[n]].dlen = Size[c],
            !.entries[p.byName[n]].replacement = BlocksOf(c)]

\* pfs_put and pfs_put_compressed.
Put(n, c) ==
  /\ at = "opened"
  /\ pfs' = Filled(WithEntry(n), n, c)
  /\ UNCHANGED <<file, now, at, since, failures>>

Fails == failures < MaxFailures /\ failures' = failures + 1

\* A mutant: the deflated length is reset before the blocks are made.
PutFails_Reset(n, c, k) ==
  /\ at = "opened"
  /\ Fails
  /\ LET p == WithEntry(n) IN
     pfs' = [p EXCEPT !.entries[p.byName[n]].ilen = Size[c],
                      !.entries[p.byName[n]].dlen = 0,
                      !.entries[p.byName[n]].replacement = SubSeq(BlocksOf(c), 1, k)]
  /\ UNCHANGED <<file, now, at, since>>

\* compress2 or malloc fails after k blocks: the new inflated length stands
\* beside the old deflated one.
PutFails(n, c, k) ==
  /\ at = "opened"
  /\ Fails
  /\ LET p == WithEntry(n) IN
     pfs' = [p EXCEPT !.entries[p.byName[n]].ilen = Size[c],
                      !.entries[p.byName[n]].replacement = SubSeq(BlocksOf(c), 1, k)]
  /\ UNCHANGED <<file, now, at, since>>

\* malloc fails in pfs_put_compressed: both lengths are new, the blocks are not.
PutCompressedFails(n, c) ==
  /\ at = "opened"
  /\ Fails
  /\ LET p == WithEntry(n) IN
     pfs' = [p EXCEPT !.entries[p.byName[n]].ilen = Size[c],
                      !.entries[p.byName[n]].dlen = Size[c],
                      !.entries[p.byName[n]].replacement = <<>>]
  /\ UNCHANGED <<file, now, at, since>>

(***************************************************************************)
(* pfs_save                                                                *)
(***************************************************************************)
\* pfs_check_modified.  The file is there and stat works: a time of -1, which
\* would make every later write noticed, or none, is left out.
Modified == mtime > pfs.modTime

SaveReturns == at' = "opened" /\ UNCHANGED <<file, now, pfs, since, failures>>

SaveBegins ==
  /\ ~Modified
  /\ Goto("opened", "saving")
  /\ UNCHANGED <<file, now, pfs, since, failures>>

\* Either check finds a later time.
SaveAgain == at \in {"opened", "saving"} /\ Modified /\ SaveReturns

\* An entry has no name, or malloc fails: nothing has been written.
SaveAborts == at = "saving" /\ SaveReturns

\* A mutant: the time is not looked at again after the image has been built.
SaveBuilt_Unchecked ==
  /\ \A i \in DOMAIN pfs.entries : pfs.entries[i].name # NoName
  /\ Goto("saving", "built")
  /\ UNCHANGED <<file, now, pfs, since, failures>>

\* The image is built in memory and the time checked again.
SaveBuilt ==
  /\ \A i \in DOMAIN pfs.entries : pfs.entries[i].name # NoName
  /\ ~Modified
  /\ Goto("saving", "built")
  /\ UNCHANGED <<file, now, pfs, since, failures>>

\* The session has written, and not ended what another program began.
SessionWrote == since' = IF since = "other" THEN "other" ELSE "session"

\* fopen with "wb+" empties the file.
Truncate ==
  /\ Goto("built", "writing")
  /\ Written(Torn)
  /\ SessionWrote
  /\ UNCHANGED <<now, pfs, failures>>

TruncateFails == at = "built" /\ SaveReturns

\* The image is written and the file closed.  If another program wrote the file
\* meanwhile, its bytes and these may be mixed.
Finish ==
  /\ Goto("writing", "opened")
  /\ Written(Image(pfs)) \/ (body # Torn /\ Written(Torn))
  /\ since' = "saved"
  /\ UNCHANGED <<now, pfs, failures>>

\* fwrite fails and is reported; or fclose fails and is not.
FinishFails ==
  /\ Goto("writing", "opened")
  /\ Written(Torn)
  /\ SessionWrote
  /\ UNCHANGED <<now, pfs, failures>>

(***************************************************************************)
(* The environment                                                         *)
(***************************************************************************)
Tick == now < MaxClock /\ now' = now + 1 /\ UNCHANGED <<file, at, pfs, since, failures>>

\* Another program may write the file at any time, but for the windows in which
\* pfs.c cannot notice it: between the reading of the file and of its time, in
\* the second of that time, and after the last check of a save.
OtherMayWrite ==
  /\ at = "read" => "open" \in Windows
  /\ at \in {"opened", "saving"} /\ now <= pfs.modTime => "second" \in Windows
  /\ at \in {"built", "writing"} => "save" \in Windows

OtherWrites ==
  /\ OtherMayWrite
  /\ \E b \in OtherArchives : Written(b)
  /\ since' = "other"
  /\ UNCHANGED <<now, at, pfs, failures>>

Next ==
  \/ ReadFile \/ Parse \/ ParseFails \/ Close
  \/ \E n \in Names, c \in Contents : Put(n, c) \/ PutCompressedFails(n, c)
  \/ \E n \in Names, c \in Contents : \E k \in 0 .. Size[c] - 1 : PutFails(n, c, k)
  \/ SaveBegins \/ SaveAgain \/ SaveAborts \/ SaveBuilt
  \/ Truncate \/ TruncateFails \/ Finish \/ FinishFails
  \/ Tick \/ OtherWrites

Spec == Init /\ [][Next]_vars

(***************************************************************************)
(* Properties                                                              *)
(***************************************************************************)
TypeOK ==
  /\ at \in {"closed", "read", "opened", "saving", "built", "writing"}
  /\ {mtime, pfs.modTime} \subseteq 0 .. now /\ now \in 0 .. MaxClock
  /\ Len(pfs.entries) <= Cardinality(Names)
  /\ \A i \in DOMAIN pfs.entries : pfs.entries[i].name \in Names
  /\ pfs.byName \in [Names -> 0 .. Len(pfs.entries)]

\* The index and the entries agree, through appends and whatever order the file
\* was written in: a name leads to its entry, and every entry has a name that
\* leads to it.
IndexAgrees ==
  /\ \A n \in Names : pfs.byName[n] # 0 => pfs.entries[pfs.byName[n]].name = n
  /\ \A i \in DOMAIN pfs.entries : pfs.byName[pfs.entries[i].name] = i

\* "Before we open the file for writing, check if it has been modified by an
\* external program while we were working, and abort if so" (pfs_save): no save
\* overwrites what another program wrote since the session read the file.
NoLostUpdate == [][Truncate => since # "other"]_vars

\* A save is refused only when the file has been written since the session read
\* it, never for the file as it was read.  The writer may be the session itself:
\* "Early check: if the underlying file has been modified by an external program,
\* abort" (pfs_save) also takes an earlier save in a later second for such a program.
RefusedAfterWriteOnly == at \in {"opened", "saving"} /\ Modified => since # "nobody"

\* A put is a put: the name has the content that was given, and no other name
\* has another content than before.
PutStores ==
  [][\A n \in Names, c \in Contents : Put(n, c) => MapOf(pfs)' = [MapOf(pfs) EXCEPT ![n] = c]]_vars

Store == INSTANCE ArchiveStore WITH
  file <- holds,
  unseen <- (since = "other"),
  saved <- (since = "saved"),
  view <- IF at \in {"closed", "read"} THEN Closed ELSE MapOf(pfs)

\* The session and the file behave like a map and its copy: what is saved is
\* what was put over what was read, and a save never starts on a file another
\* program has changed.  A put that fails is not so harmless.  It changes no
\* other name of the copy; but when the copy is saved the file may be no archive
\* and every name be lost, though pfs_save reports success.  Where the name had
\* a content before, the other names are then either all lost or all as they
\* were; where it had none (deflatedLen 0), they may be mixed up.
ImplementsStore == Store!Spec

==============================================================================
