------------------------------- MODULE BinBlob --------------------------------
(***************************************************************************)
(* bin_create of src/src/bin.c: the files named by the arguments of the    *)
(* program are put together in one file, edp_patch.edp.  A byte is the     *)
(* file or name it comes from and its place in it.                         *)
(***************************************************************************)
EXTENDS Integers, SequencesExt

CONSTANTS
  Bytes,          \* what each file holds, by path; a path is a sequence of characters
  ManifestDot,    \* stands for the nine characters "manifest."
  HeaderSize, SubHeaderSize

ASSUME BlobAssumption ==
  /\ {HeaderSize, SubHeaderSize} \subseteq Nat
  /\ \A p \in DOMAIN Bytes : p \in Seq(Range(p)) /\ Bytes[p] \in Seq(Range(Bytes[p]))

VARIABLES
  argv,    \* the paths the program is given; none if it is to download
  arg,     \* the arguments that have been looked at
  step,    \* where bin_create is
  subHeaders, names, files,   \* the arrays
  noff, doff, hadManifest,
  blob     \* edp_patch.edp

blobVars == <<arg, step, subHeaders, names, files, noff, doff, hadManifest, blob>>

Separators == {"/", "\\"}

\* bin_filename: what follows the last separator.
bin_filename(path) ==
  LET cuts == {i \in DOMAIN path : path[i] \in Separators}
  IN  SubSeq(path, Max(cuts \cup {0}) + 1, Len(path))

\* No file, or one that is not whole.
NoBlob == [whole |-> FALSE, subHeaders |-> <<>>, names |-> <<>>, files |-> <<>>]

BlobInit ==
  /\ argv \in Seq(DOMAIN Bytes)
  /\ arg = 0 /\ step = "ready" /\ subHeaders = <<>> /\ names = <<>> /\ files = <<>>
  /\ noff = 0 /\ doff = 0 /\ hadManifest = FALSE
  /\ blob = NoBlob

Arg == argv[arg + 1]
Moves(from, to) == step = from /\ step' = to

BeginBlob ==
  /\ Moves("ready", "reading")
  /\ UNCHANGED <<arg, subHeaders, names, files, noff, doff, hadManifest, blob>>

IsManifest(name) == name # <<>> /\ name[1] = ManifestDot

\* A mutant: the name is looked at before the file is.
SkipFile_Counted ==
  /\ step = "reading" /\ arg < Len(argv)
  /\ arg' = arg + 1
  /\ hadManifest' = (hadManifest \/ IsManifest(bin_filename(Arg)))
  /\ UNCHANGED <<step, subHeaders, names, files, noff, doff, blob>>

\* A file that cannot be read, or has no bytes, is skipped with a warning.
SkipFile ==
  /\ step = "reading" /\ arg < Len(argv)
  /\ arg' = arg + 1
  /\ UNCHANGED <<step, subHeaders, names, files, noff, doff, hadManifest, blob>>

\* The name is stored without the terminator that noff counts.
TakeFile ==
  LET name == bin_filename(Arg) IN
  /\ step = "reading" /\ arg < Len(argv)
  /\ Bytes[Arg] # <<>>
  /\ arg' = arg + 1
  /\ hadManifest' = (hadManifest \/ IsManifest(name))
  /\ subHeaders' = Append(subHeaders, [path |-> Arg,
                                       nameLength |-> Len(name), nameOffset |-> noff,
                                       dataLength |-> Len(Bytes[Arg]), dataOffset |-> doff])
  /\ noff' = noff + Len(name) + 1
  /\ doff' = doff + Len(Bytes[Arg])
  /\ names' = names \o name
  /\ files' = files \o Bytes[Arg]
  /\ UNCHANGED <<step, blob>>

BlobEnds == step' = "done" /\ UNCHANGED <<arg, subHeaders, names, files, noff, doff, hadManifest>>

OutOfMemory == step = "reading" /\ arg < Len(argv) /\ BlobEnds /\ UNCHANGED blob

NoManifest ==
  /\ step = "reading" /\ arg = Len(argv)
  /\ ~hadManifest
  /\ BlobEnds /\ UNCHANGED blob

\* A mutant: the data is taken to begin where the names do.
Correct_NamesForgotten ==
  LET base == HeaderSize + SubHeaderSize * Len(subHeaders) IN
  /\ arg = Len(argv) /\ hadManifest
  /\ Moves("reading", "opening")
  /\ noff' = base /\ doff' = base
  /\ subHeaders' = [i \in DOMAIN subHeaders |->
                      [subHeaders[i] EXCEPT !.nameOffset = @ + noff', !.dataOffset = @ + doff']]
  /\ UNCHANGED <<arg, names, files, hadManifest, blob>>

\* "Correct offsets to be relative to the start of the whole blob".
Correct ==
  LET base == HeaderSize + SubHeaderSize * Len(subHeaders) IN
  /\ arg = Len(argv) /\ hadManifest
  /\ Moves("reading", "opening")
  /\ noff' = base /\ doff' = base + Len(names)
  /\ subHeaders' = [i \in DOMAIN subHeaders |->
                      [subHeaders[i] EXCEPT !.nameOffset = @ + noff', !.dataOffset = @ + doff']]
  /\ UNCHANGED <<arg, names, files, hadManifest, blob>>

\* fopen empties the file of an earlier run.
OpenBlob ==
  /\ Moves("opening", "writing")
  /\ blob' = NoBlob
  /\ UNCHANGED <<arg, subHeaders, names, files, noff, doff, hadManifest>>

\* Without a file fclose is given a null pointer: the program ends there.
OpenBlobFails == step = "opening" /\ BlobEnds /\ UNCHANGED blob

WriteBlob ==
  /\ step = "writing" /\ BlobEnds
  /\ blob' = [whole |-> TRUE, subHeaders |-> subHeaders, names |-> names, files |-> files]

\* fwrite fails, or fclose, whose result is not looked at.
WriteBlobFails == step = "writing" /\ BlobEnds /\ UNCHANGED blob

BlobNext ==
  \/ BeginBlob \/ SkipFile \/ TakeFile \/ OutOfMemory \/ NoManifest \/ Correct
  \/ OpenBlob \/ OpenBlobFails \/ WriteBlob \/ WriteBlobFails

\* The process ends; the file stays.
BlobReset ==
  /\ arg' = 0 /\ step' = "ready" /\ subHeaders' = <<>> /\ names' = <<>> /\ files' = <<>>
  /\ noff' = 0 /\ doff' = 0 /\ hadManifest' = FALSE
  /\ UNCHANGED blob

(***************************************************************************)
(* Properties                                                              *)
(***************************************************************************)
\* The len bytes of the blob from offset on, the first of them right behind the
\* headers.
InBlob(offset, len) ==
  LET first == offset - HeaderSize - SubHeaderSize * Len(blob.subHeaders)
  IN  SubSeq(blob.names \o blob.files, first + 1, first + len)

\* Every file of a written blob is found at the offset and length its header
\* gives, whichever files were skipped and however long the names are.
BlobDataFound ==
  \A i \in DOMAIN blob.subHeaders :
    LET h == blob.subHeaders[i] IN InBlob(h.dataOffset, h.dataLength) = Bytes[h.path]

\* "Correct offsets to be relative to the start of the whole blob" (bin_create):
\* the same of the names.
BlobNamesFound ==
  \A i \in DOMAIN blob.subHeaders :
    LET h == blob.subHeaders[i] IN InBlob(h.nameOffset, h.nameLength) = bin_filename(h.path)

\* "patches must contain a file called "manifest"" (bin_create): one whose bytes
\* are in the blob, not one that was named and could not be read.
BlobHasManifest ==
  blob.whole => \E i \in DOMAIN blob.subHeaders : IsManifest(bin_filename(blob.subHeaders[i].path))

==============================================================================
