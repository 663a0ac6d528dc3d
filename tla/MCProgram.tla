------------------------------ MODULE MCProgram ------------------------------
(* Program with two urls.  A page is a document as its writer means it and the *)
(* text that was typed for it, or a text that is no document.  The pages and   *)
(* the arguments are chosen together: a program that only makes blobs          *)
(* downloads no pages.                                                         *)
EXTENDS Program

CONSTANTS
  Documents,    \* the typed documents behind the first url
  OtherPages,   \* the pages behind the second
  Arguments     \* what the program may be given

SomeWords == {"a", "b", "URL", "url"}
LowerCase == [w \in SomeWords |-> IF w = "URL" THEN "url" ELSE w]

(* Typed values: white space before, a continued line, a backslash that joins  *)
(* nothing, characters of the syntax, no value at all.                         *)
Values == {
  [typed |-> <<"sp", "a", "sp", ".">>,       means |-> <<"a", "sp", ".">>],
  [typed |-> <<"a", "\\", "nl", "b">>,       means |-> <<"a", "b">>],
  [typed |-> <<"sp", "\\", "sp", "nl", "sp", "a", "sp">>, means |-> <<"a", "sp">>],
  [typed |-> <<"\\", "[", "a", "]", "=">>,   means |-> <<"[", "a", "]", "=">>],
  [typed |-> <<"sp">>,                       means |-> <<>>] }

Fields ==
  {[gap |-> <<"nl", "sp">>, label |-> label, spaces |-> <<"sp">>, typed |-> v.typed, value |-> v.means] :
     label \in {"URL", "b"}, v \in Values}

SomeNames == {<<"a">>, <<"b", ".", "sp", "a">>}

Page(entries) ==
  LET d == [skipped |-> <<".", "a", "nl">>, entries |-> entries]
  IN  [text |-> DocumentText(d), wellFormed |-> TRUE, doc |-> d]
NoDocument(text) ==
  [text |-> text, wellFormed |-> FALSE, doc |-> [skipped |-> <<>>, entries |-> <<>>]]

EntriesUpTo(n) == [name : SomeNames, fields : BoundedSeq(Fields, n), gap : {<<"cr", "nl">>}]

OneEntryPages == BoundedSeq(EntriesUpTo(2), 1)
TwoEntryPages == BoundedSeq({e \in EntriesUpTo(1) : e.fields = <<>> \/ e.fields[1].label = "URL"}, 2)

(* No page ends with a word, which the next page could begin with.             *)
Broken == {
  <<"[">>, <<"[", "a">> \o <<"sp">>, <<"[", "]", "nl">>,
  <<"[", "sp", "a", "]", "nl">>,
  <<"[", "a", "]", "b", "sp", "b", "=", "a", "nl">>,
  <<"[", "a", "]", "b", "=", "a", "sp">> }

AllDocuments == OneEntryPages \cup TwoEntryPages
Few == {<<>>, <<[name |-> <<"a">>, fields |-> <<>>, gap |-> <<>>]>>}
SecondPages == {Page(d) : d \in Few} \cup {NoDocument(t) : t \in Broken}

UrlLists == {<<"u1">>, <<"u1", "u2">>, <<"u2", "null", "u1">>}
FirstUrl == <<"u1">>
NoFiles == {NoFile}
AllFiles == {NoFile} \cup {WithRows(rows) : rows \in UrlLists}
AskedNames == SomeNames

(* Three files: a manifest in a directory, another, and one without bytes.     *)
ManifestPath == <<"d", "/", "manifest.", "t">>
OtherPath == <<"q", "r">>
EmptyPath == <<"d", "\\", "e">>
BytesOf == [p \in {ManifestPath, OtherPath, EmptyPath} |->
              CASE p = ManifestPath -> <<"m1", "m2">> [] p = OtherPath -> <<"o1">> [] OTHER -> <<>>]
UpToThreePaths == BoundedSeq({ManifestPath, OtherPath, EmptyPath}, 3)
NoPages == {}

MCInit ==
  /\ \/ /\ argv = <<>>
        /\ \E d \in Documents, other \in OtherPages :
             served = [u \in {"u1", "u2"} |-> IF u = "u1" THEN Page(d) ELSE other]
        /\ file \in Databases
     \/ /\ argv \in Arguments \ {<<>>} /\ file = NoFile
        /\ served = [u \in {"u1", "u2"} |-> NoDocument(<<>>)]
  /\ Init

MCSpec == MCInit /\ [][Next]_vars

==============================================================================
