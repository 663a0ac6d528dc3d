---------------------------- MODULE PatchManifests ----------------------------
(***************************************************************************)
(* src/src/patch.c: the manifests of all URLs in the database are          *)
(* downloaded and parsed, and what they list is kept in one array with an  *)
(* index by name; then the patches it lists can be downloaded.             *)
(***************************************************************************)
EXTENDS Documents

CONSTANTS NullUrl    \* NULL as the url of a row

VARIABLES
  served,    \* the page behind each URL: its text, and the document it was typed for
  at, rc,    \* where patch_download_manifests is, and what it returned
  row,       \* the rows sqlite3_step has returned
  accum,     \* the String the downloads are appended to
  arr,       \* the arrays of entries: patches, and the content of the parser
  byName,    \* the index: from names to positions in patches
  live,      \* history: the entries that are allocated
  sqlError,  \* history: sqlite3_step failed
  reply      \* what patch_download_and_apply did last

patchVars == <<at, rc, row, accum, arr, byName, live, sqlError, reply>>

\* Nobody has initialised accum: its fields are whatever was on the stack.
Garbage == <<"garbage">>

NoReply == [name |-> <<>>, answer |-> "none", url |-> <<>>]

\* The arrays of manifest entries; nothing here sorts or sets them.  They may grow
\* to any size: that malloc refuses a block is KeepFails and PerformFails.
Array == INSTANCE Arrays WITH
  Arrs <- {"patches", "content"}, Elems <- {}, key <- <<>>,
  MinCapacity <- 8, MaxReserve <- 0, MaxAppend <- 0

patches == arr["patches"].items
content == arr["content"].items

PatchInit ==
  /\ at = "idle" /\ rc = "None" /\ row = 0 /\ accum = <<>>
  /\ Array!Init /\ byName = <<>> /\ live = {}
  /\ sqlError = FALSE /\ reply = NoReply

(***************************************************************************)
(* patch_download_manifests                                                *)
(***************************************************************************)
GoesTo(from, to) == at = from /\ at' = to /\ UNCHANGED <<rc, reply>>
Returns(code) == at' = "returned" /\ rc' = code /\ UNCHANGED reply

\* The statement is prepared and curl set up; every return frees both and accum.
Call == GoesTo("idle", "stepping") /\ UNCHANGED <<row, accum, arr, byName, live, sqlError>>

CurlFails ==
  /\ at = "idle"
  /\ Returns("CouldNotInit")
  /\ UNCHANGED <<row, accum, arr, byName, live, sqlError>>

\* No statement: error_no_stmt frees the accum nobody has initialised.  What is
\* on the stack may be a null pointer, or the program ends here.
NoStatement ==
  /\ at = "idle"
  /\ accum' = Garbage
  /\ Returns("SQL") \/ (at' = "crashed" /\ UNCHANGED <<rc, reply>>)
  /\ UNCHANGED <<row, arr, byName, live, sqlError>>

\* SQLITE_ROW, and a url in it.  SQLITE_BUSY and SQLITE_LOCKED try again.
StepRow(rows) ==
  /\ row < Len(rows) /\ rows[row + 1] # NullUrl
  /\ GoesTo("stepping", "performing")
  /\ row' = row + 1
  /\ UNCHANGED <<accum, arr, byName, live, sqlError>>

StepNull(rows) ==
  /\ row < Len(rows) /\ rows[row + 1] = NullUrl
  /\ GoesTo("stepping", "stepping")
  /\ row' = row + 1
  /\ UNCHANGED <<accum, arr, byName, live, sqlError>>

\* Any other result: the code returned is that of the last call that succeeded.
StepFails ==
  /\ at = "stepping"
  /\ Returns("None")
  /\ sqlError' = TRUE
  /\ UNCHANGED <<row, accum, arr, byName, live>>

\* The capacity of an array after n calls of array_push_back.
RoomPushed(n) ==
  LET room[i \in 0 .. n] ==
        IF i = 0 THEN 0
        ELSE IF i - 1 >= room[i - 1] THEN Array!Doubled(room[i - 1]) ELSE room[i - 1]
  IN  room[n]

\* Where a page is served, curl_easy_perform has patch_write_manifest append it
\* to accum, behind the pages before it, and all of accum is parsed.
Perform(rows) ==
  LET p == parse_file(accum \o served[rows[row]].text)
      entries == [i \in DOMAIN p.content |->
                    [id |-> <<row, i>>, name |-> p.content[i].name, fields |-> p.content[i].fields]]
  IN  /\ GoesTo("performing", "parsed")
      /\ rows[row] \in DOMAIN served
      /\ accum' = p.text
      /\ arr' = [arr EXCEPT !["content"] =
                   [items |-> entries, capacity |-> RoomPushed(Len(entries))]]
      /\ live' = live \cup {entries[i].id : i \in DOMAIN entries}
      /\ UNCHANGED <<row, byName, sqlError>>

\* A URL curl does not take, a download that fails or that str_append cannot
\* hold, a parser that runs out of memory and frees its entries.
PerformFails ==
  /\ at = "performing"
  /\ \E code \in {"CouldNotInit", "Generic", "OutOfMemory"} : Returns(code)
  /\ UNCHANGED <<row, accum, arr, byName, live, sqlError>>

\* The first manifest with entries is taken; of a later one the entries are
\* copied behind the count of patches, which does not move.
Keep ==
  /\ GoesTo("parsed", "kept")
  /\ IF patches = <<>> THEN Array!TakeOwnership("patches", "content")
     ELSE Array!AppendArray("patches", "content")
  /\ UNCHANGED <<row, accum, byName, live, sqlError>>

IdsOf(entries) == {entries[i].id : i \in DOMAIN entries}

\* parse_deinit frees the entries the parser still has.
parse_deinit == live' = live \ IdsOf(content) /\ Array!Deinit("content")

\* array_append_array gets no memory.
KeepFails ==
  /\ at = "parsed" /\ patches # <<>>
  /\ parse_deinit
  /\ Returns("OutOfMemory")
  /\ UNCHANGED <<row, accum, byName, sqlError>>

Discard ==
  /\ GoesTo("kept", "stepping")
  /\ parse_deinit
  /\ UNCHANGED <<row, accum, byName, sqlError>>

NameOf(i) == sstr_text(patches[i].name)

\* A mutant: the position is counted before the name is set.
Index_CountsFirst(n) ==
  [name \in {NameOf(i) : i \in 1 .. n} |-> Min({i \in 1 .. n : NameOf(i) = name}) + 1]

\* patch_set_by_names up to the n-th entry: a name that is there already stays.
Index(n) == [name \in {NameOf(i) : i \in 1 .. n} |-> Min({i \in 1 .. n : NameOf(i) = name})]

\* SQLITE_DONE.
SetByNames(rows) ==
  /\ at = "stepping" /\ row = Len(rows)
  /\ \/ byName' = Index(Len(patches)) /\ Returns("None")
     \/ \E n \in 0 .. Len(patches) - 1 : byName' = Index(n) /\ Returns("OutOfMemory")
  /\ UNCHANGED <<row, accum, arr, live, sqlError>>

DownloadManifests(rows) ==
  \/ Call \/ CurlFails \/ NoStatement
  \/ StepRow(rows) \/ StepNull(rows) \/ StepFails
  \/ Perform(rows) \/ PerformFails \/ Keep \/ KeepFails \/ Discard
  \/ SetByNames(rows)

(***************************************************************************)
(* patch_download and patch_download_and_apply                             *)
(***************************************************************************)
\* The values of the label: a label set twice has two, and the table may find
\* either.
ValuesOf(entry, label) ==
  {entry.fields[i].value : i \in {j \in DOMAIN entry.fields : entry.fields[j].label = label}}

\* A failure is pushed to the output ring; nothing is done yet with a patch that
\* was downloaded.
Answer(name, code, url) == reply' = [name |-> name, answer |-> code, url |-> url]

DownloadPatch(name) ==
  /\ at = "returned" /\ rc = "None"
  /\ IF name \notin DOMAIN byName THEN Answer(name, "Invalid", <<>>)
     ELSE IF byName[name] > Len(patches) THEN Answer(name, "OutOfBounds", <<>>)
     ELSE LET urls == ValuesOf(patches[byName[name]], "url") IN
          IF urls = {} THEN Answer(name, "BadUrl", <<>>)
          ELSE Answer(name, "Generic", <<>>) \/ \E url \in urls : Answer(name, "None", url)
  /\ UNCHANGED <<at, rc, row, accum, arr, byName, live, sqlError>>

Forget ==
  /\ at' = "idle" /\ rc' = "None" /\ row' = 0 /\ accum' = <<>>
  /\ arr' = [a \in DOMAIN arr |-> Array!NoData]
  /\ byName' = <<>> /\ sqlError' = FALSE /\ reply' = NoReply

\* array_deinit of patches and tbl_deinit of byName by the caller.
Release == live' = live \ IdsOf(patches) /\ Forget

\* The process ends, and its memory with it.
Killed == live' = {} /\ Forget

(***************************************************************************)
(* Properties                                                              *)
(***************************************************************************)
PatchTypeOK ==
  /\ at \in {"idle", "stepping", "performing", "parsed", "kept", "returned", "crashed"}
  /\ \A a \in DOMAIN arr : Len(arr[a].items) <= arr[a].capacity
  /\ \A i \in DOMAIN patches : IsCString(patches[i].name)
  /\ \A name \in DOMAIN byName : byName[name] \in DOMAIN patches

\* Every entry that is allocated belongs to one of the two arrays and to no
\* more than one: parse_deinit and main free each entry once, and none of those
\* they have freed is listed, although array_append_array copies entries the
\* parser then frees.
OwnedOnce ==
  /\ live = IdsOf(patches) \cup IdsOf(content)
  /\ IdsOf(patches) \cap IdsOf(content) = {}

\* The entries of an array as a document means them.
EntriesOf(listed) ==
  [i \in DOMAIN listed |-> [name |-> sstr_text(listed[i].name), fields |-> listed[i].fields]]

\* A page that is well formed is the text of a document.
IsPage(page) ==
  IsSequence(page.text) /\ (page.wellFormed => IsDocument(page.doc) /\ page.text = DocumentText(page.doc))

\* What the first of these rows whose page lists anything was meant to list.
FirstMeant(rows, reached) ==
  LET listing == {i \in reached : Meant(served[rows[i]].doc) # <<>>}
  IN  IF listing = {} THEN <<>> ELSE Meant(served[rows[Min(listing)]].doc)

\* When the call succeeds over pages that are well formed, what it lists is the
\* document of the first page that lists anything, name by name and value by
\* value: pages that ran together in accum, and pages parsed again and freed,
\* neither add to it nor take from it.  No row is left out, unless SQLite failed.
ListsFirstManifest(rows) ==
  LET reached == {i \in 1 .. IF sqlError THEN row ELSE Len(rows) : rows[i] # NullUrl}
  IN  at = "returned" /\ rc = "None" /\ (\A i \in reached : served[rows[i]].wellFormed)
        => EntriesOf(patches) = FirstMeant(rows, reached)

\* The patch that is downloaded is the first one listed under the name that was
\* asked for, from a url of its own; a name that is listed is found.
DownloadsNamedPatch ==
  LET named == {i \in DOMAIN patches : NameOf(i) = reply.name} IN
  /\ reply.answer = "None" => named # {} /\ reply.url \in ValuesOf(patches[Min(named)], "url")
  /\ reply.answer \in {"Invalid", "OutOfBounds"} => named = {} \/ sqlError

==============================================================================
