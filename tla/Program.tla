------------------------------- MODULE Program --------------------------------
(***************************************************************************)
(* main of src/src/main.c: with arguments it makes a blob of them, without *)
(* it opens the database and downloads and lists the manifests.  It is run *)
(* again and again over the same files, and may be killed at any time.     *)
(***************************************************************************)
EXTENDS PatchManifests, Db, BinBlob

CONSTANTS
  Databases,   \* database files there may be before the first run
  PatchNames   \* names of patches that are asked for

\* A database from before the first run is whole.
ASSUME ProgramAssumption ==
  \A f \in Databases : f = NoFile \/ (f = WithRows(f.rows) /\ f.rows # <<>>)

VARIABLES phase    \* what main is doing

vars == <<phase, argv, served, patchVars, dbVars, blobVars>>

Init ==
  /\ phase = "ended"
  /\ \A url \in DOMAIN served : IsPage(served[url])
  /\ PatchInit /\ DbInit(Databases) /\ BlobInit

KeepAll == UNCHANGED <<argv, served>>

StartBlob ==
  /\ phase = "ended" /\ argv # <<>>
  /\ phase' = "blob"
  /\ BeginBlob
  /\ KeepAll /\ UNCHANGED <<patchVars, dbVars>>

CreateBlob == phase = "blob" /\ BlobNext /\ KeepAll /\ UNCHANGED <<phase, patchVars, dbVars>>

\* curl_global_init works; otherwise the program ends at once.
StartDownload ==
  /\ phase = "ended" /\ argv = <<>>
  /\ phase' = "db"
  /\ KeepAll /\ UNCHANGED <<patchVars, dbVars, blobVars>>

OpenDb == phase = "db" /\ DbNext /\ KeepAll /\ UNCHANGED <<phase, patchVars, blobVars>>

\* What db_init returned is not looked at.
DbOpened ==
  /\ phase = "db" /\ conn.at = "open"
  /\ phase' = "download"
  /\ KeepAll /\ UNCHANGED <<patchVars, dbVars, blobVars>>

\* A statement can be prepared only on a usable connection to a database that
\* has the table of urls.
Download ==
  /\ phase = "download"
  /\ IF at = "idle" /\ ~HasUrlTable THEN CurlFails \/ NoStatement
     ELSE DownloadManifests(UrlRows)
  /\ KeepAll /\ UNCHANGED <<phase, dbVars, blobVars>>

\* "download worked!" or "download failed".
Report ==
  /\ phase = "download" /\ at = "returned"
  /\ phase' = "reported"
  /\ KeepAll /\ UNCHANGED <<patchVars, dbVars, blobVars>>

\* Nothing in this commit calls patch_download_and_apply: it is asked for any
\* patch here, where the arrays it takes are ready.
AskForPatch ==
  /\ phase = "reported"
  /\ \E name \in PatchNames : DownloadPatch(name)
  /\ KeepAll /\ UNCHANGED <<phase, dbVars, blobVars>>

\* main returns.
End ==
  /\ phase = "reported" \/ step = "done"
  /\ phase' = "ended"
  /\ Release /\ ProcessEnds /\ BlobReset
  /\ KeepAll

\* The process ends at any other place.  A transaction that was open is rolled
\* back.
Crash ==
  /\ phase # "ended"
  /\ phase' = "ended"
  /\ Killed /\ ProcessEnds /\ BlobReset
  /\ KeepAll

Next ==
  \/ StartBlob \/ CreateBlob
  \/ StartDownload \/ OpenDb \/ DbOpened \/ Download \/ Report \/ AskForPatch
  \/ End \/ Crash

Spec == Init /\ [][Next]_vars

(***************************************************************************)
(* Properties                                                              *)
(***************************************************************************)
TypeOK ==
  /\ phase \in {"ended", "blob", "db", "download", "reported"}
  /\ PatchTypeOK /\ DbTypeOK
  /\ (phase \in {"ended", "blob", "db"} => at = "idle") /\ (phase # "blob" => step = "ready")

\* What is listed at the end is the first manifest of the urls the database has.
ListsFirst == ListsFirstManifest(UrlRows)

==============================================================================
