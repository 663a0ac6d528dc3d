------------------------------ MODULE Documents ------------------------------
(***************************************************************************)
(* Manifests as their writers mean them: what is typed for a list of       *)
(* entries, and what the list is to be read as.  Nothing here says how     *)
(* parse.c reads a text; it is what the reading is compared with.          *)
(*                                                                         *)
(* A document is what stands before the first entry, and the entries; an   *)
(* entry has a name, fields and what stands behind them; a field has what  *)
(* stands before it, its label, the spaces before the equals sign, its     *)
(* value as it is typed and as it is meant.                                *)
(***************************************************************************)
EXTENDS Parser, SequencesExt

IsFreeOf(s, tokens) == IsSequence(s) /\ Range(s) \cap tokens = {}

\* Between fields and entries stands anything but a label and a bracket.
IsGap(s) == IsFreeOf(s, Words \cup {"["})

(***************************************************************************)
(* Values                                                                  *)
(***************************************************************************)
\* Whether a line that ended at i would go on: a backslash, and behind it neither
\* a word nor another line.
Continues(typed, i) ==
  \E j \in 1 .. i - 1 :
    /\ typed[j] = "\\"
    /\ \A k \in j + 1 .. i - 1 : typed[k] \notin Words \cup {NewLine}

\* A value ends where its line does not go on.
IsOneLine(typed) ==
  /\ \A i \in DOMAIN typed : typed[i] = NewLine => Continues(typed, i)
  /\ ~Continues(typed, Len(typed) + 1)

\* The tokens that belong to the value: no backslash, no line, no space in front.
Shown(typed) ==
  {i \in DOMAIN typed :
     /\ typed[i] \notin {"\\", NewLine}
     /\ \E j \in 1 .. i : typed[j] \notin Spaces \cup {"\\"}}

ShownUpTo(typed, n) == {i \in Shown(typed) : i <= n}

\* The value is what is shown, in the order it is typed in.
IsMeant(typed, value) ==
  /\ IsSequence(value) /\ Len(value) = Cardinality(Shown(typed))
  /\ \A i \in Shown(typed) : value[Cardinality(ShownUpTo(typed, i))] = typed[i]

(***************************************************************************)
(* Documents                                                               *)
(***************************************************************************)
IsField(f) ==
  /\ IsGap(f.gap) /\ f.label \in Words
  /\ IsSequence(f.spaces) /\ Range(f.spaces) \subseteq Spaces
  /\ IsSequence(f.typed) /\ IsOneLine(f.typed) /\ IsMeant(f.typed, f.value)

IsEntry(e) ==
  /\ IsFreeOf(e.name, {"]"}) /\ e.name # <<>> /\ e.name[1] \in Words
  /\ IsSequence(e.fields) /\ \A i \in DOMAIN e.fields : IsField(e.fields[i])
  /\ IsGap(e.gap)

IsDocument(d) ==
  /\ IsFreeOf(d.skipped, {"["})
  /\ IsSequence(d.entries) /\ \A i \in DOMAIN d.entries : IsEntry(d.entries[i])

FieldText(f) == f.gap \o <<f.label>> \o f.spaces \o <<"=">> \o f.typed \o <<NewLine>>

EntryText(e) ==
  <<"[">> \o e.name \o <<"]">> \o FlattenSeq([i \in DOMAIN e.fields |-> FieldText(e.fields[i])]) \o e.gap

DocumentText(d) == d.skipped \o FlattenSeq([i \in DOMAIN d.entries |-> EntryText(d.entries[i])])

\* Labels are meant in whatever case they are typed.
MeantField(f) == [label |-> Lower[f.label], value |-> f.value]
MeantEntry(e) == [name |-> e.name, fields |-> [i \in DOMAIN e.fields |-> MeantField(e.fields[i])]]
Meant(d) == [i \in DOMAIN d.entries |-> MeantEntry(d.entries[i])]

==============================================================================
