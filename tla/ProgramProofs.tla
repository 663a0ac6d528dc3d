---------------------------- MODULE ProgramProofs ----------------------------
(***************************************************************************)
(* Theorems about the manifest parser of Parser.tla, whatever the text: a  *)
(* list of entries whose names are C strings, a text of the length it was  *)
(* given, and for every document of Documents.tla the entries its writer   *)
(* meant; and about the whole program of Program.tla, run again and again  *)
(* and killed anywhere: what the database, the blob and the arrays of      *)
(* manifest entries are worth then, and which manifest is listed.          *)
(***************************************************************************)
EXTENDS Program, FiniteSetTheorems, LeastNumber

(***************************************************************************)
(* The types of the parser                                                 *)
(***************************************************************************)
Tokens(text) == Range(text) \cup {Lower[w] : w \in Words} \cup {"no key", Nul, Raw}

CStringsOf(T) == {ss \in [length : Nat, data : Seq(T)] : IsCString(ss)}

EntriesOver(T) == [name : CStringsOf(T), fields : Seq([label : T, value : Seq(T)])]

\* Labels and values belong to the entry that was added last.
InEntry(p) == p.state \in {"Label", "Equals", "Value"} => p.content # <<>>

\* The parser somewhere in a text of n tokens.
Parsing(p, T, n) ==
  /\ DOMAIN p = {"state", "text", "str", "len", "key", "accum", "skipNewline", "readString", "content"}
  /\ p.state \in {"Start", "Tag", "Label", "Equals", "Value", "Done"}
  /\ p.text \in Seq(T) /\ Len(p.text) = n
  /\ p.str \in Nat /\ p.len \in Nat
  /\ p.key \in T /\ p.accum \in Seq(T)
  /\ p.content \in Seq(EntriesOver(T)) /\ InEntry(p)

\* A sequence over any set is a sequence over its own elements.
LEMMA IsASequence ==
  ASSUME NEW S, NEW s \in Seq(S)
  PROVE  IsSequence(s)
<1>1. s = [i \in 1 .. Len(s) |-> s[i]] /\ Len(s) \in Nat
  OBVIOUS
<1>2. \A i \in 1 .. Len(s) : s[i] \in Range(s)
  BY DEF Range
<1> QED
  BY <1>1, <1>2 DEF IsSequence

LEMMA SeqOfMore ==
  ASSUME NEW S, NEW T, S \subseteq T, NEW s \in Seq(S)
  PROVE  s \in Seq(T) /\ Len(s) \in Nat
OBVIOUS

\* sstr_create of a slice makes a C string.
LEMMA SliceIsCString ==
  ASSUME NEW T, {Nul, Raw} \subseteq T, NEW text \in Seq(T), NEW i \in Nat \ {0}, NEW len \in Nat
  PROVE  sstr_create(text, i, len) \in CStringsOf(T)
<1> DEFINE cells == CellsOf(text, i, len)
<1>1. cells \in Seq(T) /\ Len(cells) = len
  <2>1. \A j \in 1 .. len : i + j - 1 <= Len(text) => i + j - 1 \in DOMAIN text
    OBVIOUS
  <2>2. cells \in [1 .. len -> T]
    BY <2>1 DEF CellsOf
  <2> QED
    BY <2>2
<1> HIDE DEF cells
<1>2. cells \o <<Nul>> \in Seq(T) /\ Len(cells \o <<Nul>>) = len + 1 /\ (cells \o <<Nul>>)[len + 1] = Nul
  BY <1>1
<1> QED
  BY <1>2 DEF sstr_create, buf_create, CStringsOf, IsCString, cells

LEMMA InitParsing ==
  ASSUME NEW text, IsSequence(text)
  PROVE  Parsing(parse_init(text), Tokens(text), Len(text))
<1>1. text \in Seq(Range(text)) /\ Range(text) \subseteq Tokens(text) /\ "no key" \in Tokens(text)
  BY DEF IsSequence, Tokens
<1> HIDE DEF Tokens
<1>2. text \in Seq(Tokens(text)) /\ Len(text) \in Nat
  BY <1>1, SeqOfMore
<1> DEFINE p == parse_init(text)
<1>3. DOMAIN p = {"state", "text", "str", "len", "key", "accum", "skipNewline", "readString", "content"}
  BY DEF parse_init
<1>4. /\ p.state = "Start" /\ p.text = text /\ p.str = 0 /\ p.len = 0
      /\ p.key = "no key" /\ p.accum = <<>> /\ p.content = <<>>
  BY DEF parse_init
<1> HIDE DEF p
<1>5. <<>> \in Seq(Tokens(text)) /\ <<>> \in Seq(EntriesOver(Tokens(text)))
  OBVIOUS
<1>6. p.key \in Tokens(text)
  BY <1>1, <1>4
<1>7. p.state \in {"Start", "Tag", "Label", "Equals", "Value", "Done"} /\ InEntry(p)
  BY <1>4 DEF InEntry
<1>8. p.text \in Seq(Tokens(text)) /\ p.accum \in Seq(Tokens(text)) /\ p.content \in Seq(EntriesOver(Tokens(text)))
  BY <1>2, <1>4, <1>5
<1>9. p.str \in Nat /\ p.len \in Nat
  BY DEF p, parse_init
<1>10. Len(p.text) = Len(text)
  BY <1>4, Zenon
<1>11. Parsing(p, Tokens(text), Len(text))
  BY <1>3, <1>6, <1>7, <1>8, <1>9, <1>10, Zenon DEF Parsing
<1> QED
  BY <1>11 DEF p

LEMMA AppendToValueParsing ==
  ASSUME NEW T, NEW n \in Nat, NEW p, Parsing(p, T, n), NEW tk \in T
  PROVE  Parsing(AppendToValue(p, tk), T, n)
BY DEF Parsing, InEntry, AppendToValue

LEMMA TagParsing ==
  ASSUME NEW T, {Nul, Raw} \subseteq T, NEW n \in Nat, NEW p, Parsing(p, T, n), p.str # 0
  PROVE  Parsing(FinishTag(p), T, n)
<1> DEFINE e == [name |-> sstr_create(p.text, p.str, p.len), fields |-> <<>>]
<1>1. p.str \in Nat \ {0} /\ p.len \in Nat /\ p.text \in Seq(T)
  BY DEF Parsing
<1>2. sstr_create(p.text, p.str, p.len) \in CStringsOf(T)
  BY <1>1, SliceIsCString
<1>3. e \in EntriesOver(T)
  BY <1>2 DEF EntriesOver
<1> HIDE DEF e
<1>4. Append(p.content, e) \in Seq(EntriesOver(T)) /\ Append(p.content, e) # <<>>
  BY <1>1, <1>3 DEF Parsing
<1>5. FinishTag(p) = [p EXCEPT !.content = Append(@, e), !.state = "Label"]
  BY DEF FinishTag, e
<1> HIDE DEF EntriesOver
<1> QED
  BY <1>1, <1>4, <1>5 DEF Parsing, InEntry

LEMMA ValueParsing ==
  ASSUME NEW T, NEW n \in Nat, NEW p, Parsing(p, T, n), p.state = "Value"
  PROVE  Parsing(FinishValue(p), T, n)
<1> DEFINE last == Len(p.content)
           field == [label |-> p.key, value |-> p.accum]
           e == [p.content[last] EXCEPT !.fields = Append(@, field)]
<1>1. p.content # <<>> /\ p.content \in Seq(EntriesOver(T))
  BY DEF Parsing, InEntry
<1>2. last \in DOMAIN p.content /\ p.content[last] \in EntriesOver(T)
  BY <1>1
<1>3. field \in [label : T, value : Seq(T)]
  BY <1>1 DEF Parsing
<1> HIDE DEF field
<1>4. e \in EntriesOver(T)
  <2> DEFINE r == p.content[last]
             fields == Append(r.fields, field)
  <2>1. r \in EntriesOver(T)
    BY <1>2
  <2> HIDE DEF r
  <2>2. /\ r.name \in CStringsOf(T) /\ r.fields \in Seq([label : T, value : Seq(T)])
        /\ r = [name |-> r.name, fields |-> r.fields]
    BY <2>1 DEF EntriesOver
  <2>3. fields \in Seq([label : T, value : Seq(T)])
    BY <1>3, <2>2
  <2> HIDE DEF fields
  <2>4. [r EXCEPT !.fields = fields] = [name |-> r.name, fields |-> fields]
    BY <2>2
  <2> QED
    BY <2>2, <2>3, <2>4 DEF EntriesOver, r, fields
<1>5. [p.content EXCEPT ![last] = e] \in Seq(EntriesOver(T)) /\ [p.content EXCEPT ![last] = e] # <<>>
  BY <1>1, <1>2, <1>4
<1>6. FinishValue(p) = [p EXCEPT !.content = [p.content EXCEPT ![last] = e], !.state = "Label"]
  BY DEF FinishValue, field
<1> HIDE DEF last, e, EntriesOver
<1> QED
  BY <1>1, <1>5, <1>6 DEF Parsing, InEntry

\* One lex_adv.
LEMMA AdvanceParsing ==
  ASSUME NEW T, {Nul, Raw} \subseteq T, {Lower[w] : w \in Words} \subseteq T,
         NEW n \in Nat, NEW p, Parsing(p, T, n), NEW i \in 1 .. n
  PROVE  Parsing(Advance(p, i), T, n)
<1> DEFINE tk == p.text[i]
<1>1. p.text \in Seq(T) /\ i \in DOMAIN p.text
  BY DEF Parsing
<1>2. tk \in T
  BY <1>1
<1>3. tk \in Words => Lower[tk] \in T
  OBVIOUS
<1>4. Advance(p, i) = CASE p.state = "Start"  -> parse_skip_until(p, tk)
                        [] p.state = "Tag"    -> parse_tag(p, i, tk)
                        [] p.state = "Label"  -> parse_label(p, i, tk)
                        [] p.state = "Equals" -> parse_equals(p, tk)
                        [] p.state = "Value"  -> parse_value(p, tk)
                        [] p.state = "Done"   -> p
  BY DEF Advance
<1>5. Parsing(EnterTag(p), T, n) /\ Parsing(Stop(p), T, n)
  BY DEF Parsing, InEntry, EnterTag, Stop
<1> HIDE DEF tk
<1>6. CASE p.state = "Start"
  BY <1>4, <1>5, <1>6 DEF parse_skip_until
<1>7. CASE p.state = "Tag"
  <2>1. Parsing([p EXCEPT !.str = IF @ = 0 THEN i ELSE @, !.len = @ + 1], T, n)
        /\ Parsing([p EXCEPT !.len = @ + 1], T, n)
    BY DEF Parsing, InEntry
  <2>2. p.str # 0 => Parsing(FinishTag(p), T, n)
    BY TagParsing
  <2> QED
    BY <1>4, <1>5, <1>7, <2>1, <2>2 DEF parse_tag
<1>8. CASE p.state = "Label"
  <2>1. tk \in Words =>
          Parsing([p EXCEPT !.text[i] = Lower[tk], !.key = Lower[tk], !.state = "Equals"], T, n)
    <3> SUFFICES ASSUME tk \in Words
                 PROVE  Parsing([p EXCEPT !.text[i] = Lower[tk], !.key = Lower[tk], !.state = "Equals"], T, n)
      OBVIOUS
    <3> DEFINE text == [p.text EXCEPT ![i] = Lower[tk]]
    <3>1. text \in Seq(T) /\ Len(text) = n
      BY <1>1, <1>3 DEF Parsing
    <3> HIDE DEF text
    <3>2. Parsing([p EXCEPT !.text = text, !.key = Lower[tk], !.state = "Equals"], T, n)
      BY <1>1, <1>3, <1>8, <3>1 DEF Parsing, InEntry
    <3> QED
      BY <3>2 DEF text
  <2> QED
    BY <1>4, <1>5, <1>8, <2>1 DEF parse_label
<1>9. CASE p.state = "Equals"
  <2>1. Parsing([p EXCEPT !.state = "Value", !.accum = <<>>,
                          !.skipNewline = FALSE, !.readString = FALSE], T, n)
    BY <1>9 DEF Parsing, InEntry
  <2> QED
    BY <1>4, <1>5, <1>9, <2>1 DEF parse_equals
<1>10. CASE p.state = "Value"
  <2>1. \A b \in BOOLEAN : Parsing([p EXCEPT !.skipNewline = b], T, n)
    BY DEF Parsing, InEntry
  <2>2. Parsing(AppendToValue(p, tk), T, n)
    BY <1>2, AppendToValueParsing
  <2>3. Parsing([AppendToValue(p, tk) EXCEPT !.skipNewline = FALSE], T, n)
    BY <2>2 DEF Parsing, InEntry
  <2>4. Parsing(FinishValue(p), T, n)
    BY <1>10, ValueParsing
  <2> QED
    BY <1>4, <1>10, <2>1, <2>2, <2>3, <2>4 DEF parse_value
<1>11. CASE p.state = "Done"
  BY <1>4, <1>11
<1> QED
  BY <1>6, <1>7, <1>8, <1>9, <1>10, <1>11 DEF Parsing

\* The recursive function of parse_file, up to n tokens.
LEMMA AfterExists ==
  ASSUME NEW text, NEW n \in Nat
  PROVE  \E f : f = [i \in 0 .. n |-> IF i = 0 THEN parse_init(text) ELSE Advance(f[i - 1], i)]
<1> DEFINE Defined(k) == \E f : f = [i \in 0 .. k |-> IF i = 0 THEN parse_init(text)
                                                      ELSE Advance(f[i - 1], i)]
           T == {k \in 0 .. n : Defined(k)}
<1>1. 0 \in T
  <2> DEFINE f == [i \in 0 .. 0 |-> parse_init(text)]
  <2>1. f = [i \in 0 .. 0 |-> IF i = 0 THEN parse_init(text) ELSE Advance(f[i - 1], i)]
    OBVIOUS
  <2> HIDE DEF f
  <2> QED
    BY <2>1
<1>2. ASSUME NEW k \in 0 .. n - 1, k \in T
      PROVE  k + 1 \in T
  <2>1. PICK f : f = [i \in 0 .. k |-> IF i = 0 THEN parse_init(text) ELSE Advance(f[i - 1], i)]
    BY <1>2
  <2> DEFINE g == [i \in 0 .. k + 1 |-> IF i = k + 1 THEN Advance(f[k], k + 1) ELSE f[i]]
  <2>2. ASSUME NEW i \in 0 .. k + 1
        PROVE  g[i] = IF i = 0 THEN parse_init(text) ELSE Advance(g[i - 1], i)
    <3>1. CASE i = k + 1
      BY <3>1
    <3>2. CASE i \in 0 .. k
      <4>1. g[i] = f[i] /\ (i # 0 => i - 1 \in 0 .. k /\ g[i - 1] = f[i - 1])
        BY <3>2
      <4>2. f[i] = IF i = 0 THEN parse_init(text) ELSE Advance(f[i - 1], i)
        BY <2>1, <3>2
      <4> HIDE DEF g
      <4> QED
        BY <4>1, <4>2
    <3> QED
      BY <3>1, <3>2
  <2>3. g = [i \in 0 .. k + 1 |-> g[i]]
    OBVIOUS
  <2> HIDE DEF g
  <2>4. g = [i \in 0 .. k + 1 |-> IF i = 0 THEN parse_init(text) ELSE Advance(g[i - 1], i)]
    BY <2>2, <2>3
  <2> QED
    BY <2>4
<1> HIDE DEF T
<1>3. 0 .. n \subseteq T
  BY <1>1, <1>2, InductionUpTo
<1> QED
  BY <1>3 DEF T

\* The parser before the text and behind each of its tokens.
Parses(f, text) ==
  f = [i \in 0 .. Len(text) |-> IF i = 0 THEN parse_init(text) ELSE Advance(f[i - 1], i)]

LEMMA ParsedBy ==
  ASSUME NEW text, IsSequence(text)
  PROVE  \E f : /\ Parses(f, text) /\ parse_file(text) = f[Len(text)]
               /\ \A i \in 0 .. Len(text) : Parsing(f[i], Tokens(text), Len(text))
<1> DEFINE n == Len(text)
           T == Tokens(text)
           after == CHOOSE f : f = [i \in 0 .. n |-> IF i = 0 THEN parse_init(text)
                                                     ELSE Advance(f[i - 1], i)]
<1>1. n \in Nat
  BY DEF IsSequence
<1>2. parse_file(text) = after[n]
  BY DEF parse_file
<1>3. {Nul, Raw} \subseteq T /\ {Lower[w] : w \in Words} \subseteq T
  BY DEF Tokens
<1>4. Parsing(parse_init(text), T, n)
  BY InitParsing
<1> HIDE DEF n, T
<1>5. after = [i \in 0 .. n |-> IF i = 0 THEN parse_init(text) ELSE Advance(after[i - 1], i)]
  BY <1>1, AfterExists
<1> HIDE DEF after
<1> DEFINE Good == {i \in 0 .. n : Parsing(after[i], T, n)}
<1>6. 0 \in Good
  BY <1>1, <1>4, <1>5
<1>7. ASSUME NEW k \in 0 .. n - 1, k \in Good
      PROVE  k + 1 \in Good
  <2>1. after[k + 1] = Advance(after[k], k + 1)
    BY <1>1, <1>5
  <2>2. Parsing(after[k], T, n) /\ k + 1 \in 1 .. n
    BY <1>1, <1>7
  <2>3. Parsing(Advance(after[k], k + 1), T, n)
    BY <1>1, <1>3, <2>2, AdvanceParsing
  <2> QED
    BY <1>1, <2>1, <2>3
<1> HIDE DEF Good
<1>8. 0 .. n \subseteq Good
  BY <1>1, <1>6, <1>7, InductionUpTo
<1>9. \A i \in 0 .. n : Parsing(after[i], T, n)
  BY <1>8 DEF Good
<1> QED
  BY <1>2, <1>5, <1>9 DEF Parses, n, T

\* The parser keeps the number of tokens of a text, and what it lists are
\* entries with C strings for names, whatever the text: an early end of the
\* text, a bracket without a name, a label without a value.
THEOREM ParsesAnyText ==
  ASSUME NEW text, IsSequence(text)
  PROVE  Parsing(parse_file(text), Tokens(text), Len(text))
<1>1. Len(text) \in Nat
  BY DEF IsSequence
<1> QED
  BY <1>1, ParsedBy

(***************************************************************************)
(* What a document is read as                                              *)
(***************************************************************************)
LEMMA Concatenated ==
  ASSUME NEW a, IsSequence(a), NEW b, IsSequence(b)
  PROVE  /\ IsSequence(a \o b) /\ Len(a \o b) = Len(a) + Len(b) /\ Len(a) \in Nat /\ Len(b) \in Nat
         /\ \A i \in 1 .. Len(a) : (a \o b)[i] = a[i]
         /\ \A i \in 1 .. Len(b) : (a \o b)[Len(a) + i] = b[i]
         /\ \A S : a \in Seq(S) /\ b \in Seq(S) => a \o b \in Seq(S)
<1> DEFINE S == Range(a) \cup Range(b)
<1>1. Range(a) \subseteq S /\ Range(b) \subseteq S
  OBVIOUS
<1> HIDE DEF S
<1>2. a \in Seq(S) /\ b \in Seq(S)
  BY <1>1, SeqOfMore DEF IsSequence
<1>3. a \o b \in Seq(S)
  BY <1>2
<1>4. IsSequence(a \o b)
  BY <1>3, IsASequence
<1> QED
  BY <1>2, <1>4

LEMMA OneToken ==
  ASSUME NEW tk
  PROVE  IsSequence(<<tk>>) /\ Len(<<tk>>) = 1 /\ <<tk>>[1] = tk
<1>1. <<tk>> \in Seq({tk})
  OBVIOUS
<1> QED
  BY <1>1, IsASequence

\* The tokens of s are those of the text behind the k-th.
Lies(text, k, s) ==
  /\ IsSequence(s) /\ k + Len(s) <= Len(text)
  /\ \A i \in 1 .. Len(s) : text[k + i] = s[i]

LEMMA LiesInParts ==
  ASSUME NEW text, NEW k \in Nat, NEW a, IsSequence(a), NEW b, IsSequence(b),
         IsSequence(text), Lies(text, k, a \o b)
  PROVE  Lies(text, k, a) /\ Lies(text, k + Len(a), b) /\ Len(a \o b) = Len(a) + Len(b)
         /\ k + Len(a) \in Nat
<1>1. Len(a) \in Nat /\ Len(b) \in Nat /\ Len(text) \in Nat /\ Len(a \o b) = Len(a) + Len(b)
  BY Concatenated DEF IsSequence
<1>2. k + Len(a) + Len(b) <= Len(text)
  BY <1>1 DEF Lies
<1>3. ASSUME NEW i \in 1 .. Len(a)
      PROVE  text[k + i] = a[i]
  <2>1. i \in 1 .. Len(a \o b) /\ (a \o b)[i] = a[i]
    BY <1>1, Concatenated
  <2> QED
    BY <2>1 DEF Lies
<1>4. ASSUME NEW i \in 1 .. Len(b)
      PROVE  text[k + Len(a) + i] = b[i]
  <2>1. Len(a) + i \in 1 .. Len(a \o b) /\ k + (Len(a) + i) = k + Len(a) + i
    BY <1>1
  <2>2. text[k + (Len(a) + i)] = (a \o b)[Len(a) + i]
    BY <2>1 DEF Lies
  <2> QED
    BY <2>1, <2>2, Concatenated
<1> QED
  BY <1>1, <1>2, <1>3, <1>4 DEF Lies

LEMMA OneMore ==
  ASSUME NEW a, IsSequence(a), NEW tk
  PROVE  IsSequence(a \o <<tk>>) /\ Len(a \o <<tk>>) = Len(a) + 1 /\ Len(a) \in Nat
<1>1. IsSequence(<<tk>>) /\ Len(<<tk>>) = 1
  BY OneToken
<1> DEFINE b == <<tk>>
<1> HIDE DEF b
<1>2. IsSequence(a \o b) /\ Len(a \o b) = Len(a) + Len(b) /\ Len(a) \in Nat
  BY <1>1, Concatenated DEF b
<1> QED
  BY <1>1, <1>2 DEF b

\* The i-th token of the text.
At(text, i, tk) == i \in 1 .. Len(text) /\ text[i] = tk

LEMMA LiesAndOne ==
  ASSUME NEW text, NEW k \in Nat, NEW a, IsSequence(a), NEW tk,
         IsSequence(text), Lies(text, k, a \o <<tk>>)
  PROVE  /\ Lies(text, k, a) /\ k + Len(a) \in Nat
         /\ At(text, k + Len(a) + 1, tk)
<1>1. IsSequence(<<tk>>) /\ Len(<<tk>>) = 1 /\ <<tk>>[1] = tk
  BY OneToken
<1> DEFINE b == <<tk>>
<1>2. IsSequence(b) /\ Lies(text, k, a \o b) /\ Len(b) = 1 /\ b[1] = tk
  BY <1>1
<1> HIDE DEF b
<1>3. Lies(text, k, a) /\ Lies(text, k + Len(a), b) /\ k + Len(a) \in Nat
  BY <1>2, LiesInParts
<1>4. Len(text) \in Nat
  BY DEF IsSequence
<1> QED
  BY <1>2, <1>3, <1>4 DEF Lies, At

\* The parser is behind the k-th token, and what follows is as it was typed.
ReadTo(f, text, k) ==
  /\ IsSequence(text) /\ Parses(f, text)
  /\ \A i \in 0 .. Len(text) : Parsing(f[i], Tokens(text), Len(text))
  /\ k \in 0 .. Len(text)
  /\ \A j \in k + 1 .. Len(text) : f[k].text[j] = text[j]

LEMMA ParsesNext ==
  ASSUME NEW f, NEW text, Parses(f, text), NEW i \in 1 .. Len(text)
  PROVE  f[i] = Advance(f[i - 1], i)
BY DEF Parses

\* One token on, where a token changes no other one.
LEMMA OneOn ==
  ASSUME NEW f, NEW text, NEW k, ReadTo(f, text, k), k + 1 \in 1 .. Len(text),
         \A j \in k + 2 .. Len(text) : f[k + 1].text[j] = f[k].text[j]
  PROVE  ReadTo(f, text, k + 1)
<1>1. k \in Nat /\ Len(text) \in Nat /\ k + 1 \in 0 .. Len(text)
  BY DEF ReadTo, IsSequence
<1>2. \A j \in k + 2 .. Len(text) : f[k + 1].text[j] = text[j]
  BY <1>1 DEF ReadTo
<1> QED
  BY <1>1, <1>2 DEF ReadTo

\* Tokens that change nothing.
LEMMA PassesOver ==
  ASSUME NEW f, NEW text, NEW k, ReadTo(f, text, k), NEW s, Lies(text, k, s),
         \A i \in 1 .. Len(text) : f[k].text[i] \in Range(s) => Advance(f[k], i) = f[k]
  PROVE  f[k + Len(s)] = f[k] /\ ReadTo(f, text, k + Len(s))
<1> DEFINE n == Len(s)
           T == {i \in 0 .. n : f[k + i] = f[k]}
<1>1. n \in Nat /\ Len(text) \in Nat /\ k \in Nat /\ k + n <= Len(text)
  BY DEF ReadTo, Lies, IsSequence
<1>2. 0 \in T
  BY <1>1
<1>3. ASSUME NEW i \in 0 .. n - 1, i \in T
      PROVE  i + 1 \in T
  <2>1. i \in Nat /\ i + 1 \in 1 .. n /\ k + i + 1 \in 1 .. Len(text) /\ f[k + i] = f[k]
    BY <1>1, <1>3
  <2>2. f[k + i + 1] = Advance(f[k + i], k + i + 1)
    BY <1>1, <2>1 DEF ReadTo, Parses
  <2>3. f[k].text[k + (i + 1)] = s[i + 1] /\ s[i + 1] \in Range(s)
    BY <1>1, <2>1 DEF ReadTo, Lies, Range
  <2>4. f[k].text[k + i + 1] = s[i + 1] /\ k + (i + 1) = k + i + 1
    BY <1>1, <2>1, <2>3
  <2>5. f[k + i + 1] = f[k]
    BY <2>1, <2>2, <2>3, <2>4
  <2> QED
    BY <2>1, <2>4, <2>5
<1> HIDE DEF T
<1> HIDE DEF n
<1>4. 0 .. n \subseteq T
  BY <1>1, <1>2, <1>3, InductionUpTo
<1>5. f[k + n] = f[k]
  BY <1>1, <1>4 DEF T
<1> QED
  BY <1>1, <1>5 DEF ReadTo, n

\* The fields of the parser that parse_value leaves alone.
SameEntry(p, q) == q.state = p.state /\ q.text = p.text /\ q.key = p.key /\ q.content = p.content

NameToken(p, i) ==
  [p EXCEPT !.str = IF p.text[i] \in Words /\ p.str = 0 THEN i ELSE p.str, !.len = p.len + 1]

LEMMA ReadsNameToken ==
  ASSUME NEW p, NEW T, NEW n \in Nat, Parsing(p, T, n), p.state = "Tag", NEW i \in 1 .. n, p.text[i] # "]"
  PROVE  Advance(p, i) = NameToken(p, i)
<1>1. Advance(p, i) = parse_tag(p, i, p.text[i])
  BY DEF Advance
<1>2. DOMAIN p = {"state", "text", "str", "len", "key", "accum", "skipNewline", "readString", "content"}
  BY DEF Parsing
<1>3. CASE p.text[i] \in Words
  BY <1>1, <1>2, <1>3 DEF parse_tag, NameToken
<1>4. CASE p.text[i] \notin Words
  BY <1>1, <1>2, <1>4 DEF parse_tag, NameToken
<1> QED
  BY <1>3, <1>4

\* A name begins with its first word and has as many cells as were read.
LEMMA ReadsName ==
  ASSUME NEW f, NEW text, NEW k, ReadTo(f, text, k), NEW s, Lies(text, k, s),
         f[k].state = "Tag", f[k].str = 0, f[k].len = 0,
         s # <<>>, s[1] \in Words, "]" \notin Range(s)
  PROVE  /\ ReadTo(f, text, k + Len(s))
         /\ SameEntry(f[k], f[k + Len(s)])
         /\ f[k + Len(s)].str = k + 1 /\ f[k + Len(s)].len = Len(s)
<1> DEFINE n == Len(s)
           p == f[k]
           Fits(q, i) == SameEntry(p, q) /\ q.len = i /\ q.str = IF i = 0 THEN 0 ELSE k + 1
           T == {i \in 0 .. n : Fits(f[k + i], i)}
<1>1. n \in Nat /\ Len(text) \in Nat /\ k \in Nat /\ k + n <= Len(text) /\ n # 0
  BY DEF ReadTo, Lies, IsSequence
<1>2. 0 \in T
  BY <1>1 DEF SameEntry
<1>3. ASSUME NEW i \in 0 .. n - 1, i \in T
      PROVE  i + 1 \in T
  <2> DEFINE q == f[k + i]
             r == f[k + (i + 1)]
  <2>1. i \in Nat /\ i + 1 \in 1 .. n /\ k + (i + 1) \in 1 .. Len(text) /\ k + i \in 0 .. Len(text)
        /\ k + (i + 1) - 1 = k + i
    <3> HIDE DEF n, T
    <3> QED
      BY <1>1
  <2>2. r = Advance(q, k + (i + 1))
    BY <2>1, ParsesNext DEF ReadTo
  <2>3. Fits(q, i) /\ Parsing(q, Tokens(text), Len(text))
    BY <1>3, <2>1 DEF ReadTo
  <2>4. q.text[k + (i + 1)] = s[i + 1]
    BY <1>1, <2>1, <2>3 DEF ReadTo, Lies, SameEntry
  <2>5. s[i + 1] \in Range(s)
    BY <2>1 DEF Range
  <2>6. r = NameToken(q, k + (i + 1))
    BY <1>1, <2>1, <2>2, <2>3, <2>4, <2>5, ReadsNameToken DEF SameEntry
  <2> HIDE DEF q, r, p, n
  <2>7. DOMAIN q = {"state", "text", "str", "len", "key", "accum", "skipNewline", "readString", "content"}
    BY <2>3 DEF Parsing
  <2>8. SameEntry(q, r) /\ r.len = i + 1
    BY <2>3, <2>6, <2>7 DEF NameToken, SameEntry
  <2>9. r.str = k + 1
    <3>1. CASE i = 0
      BY <1>1, <2>1, <2>3, <2>4, <2>6, <2>7, <3>1 DEF NameToken
    <3>2. CASE i # 0
      BY <1>1, <2>1, <2>3, <2>6, <2>7, <3>2 DEF NameToken
    <3> QED
      BY <3>1, <3>2
  <2>10. Fits(r, i + 1)
    BY <2>1, <2>3, <2>8, <2>9 DEF SameEntry
  <2> QED
    BY <2>1, <2>10 DEF r
<1> HIDE DEF n, T
<1>4. 0 .. n \subseteq T
  BY <1>1, <1>2, <1>3, InductionUpTo
<1>5. Fits(f[k + n], n)
  BY <1>1, <1>4 DEF T
<1> QED
  BY <1>1, <1>5 DEF ReadTo, SameEntry, n

(***************************************************************************)
(* What a value is read as                                                 *)
(***************************************************************************)
LEMMA ShownCounts ==
  ASSUME NEW typed, IsSequence(typed), NEW n \in 0 .. Len(typed)
  PROVE  /\ IsFiniteSet(ShownUpTo(typed, n)) /\ Cardinality(ShownUpTo(typed, n)) \in Nat
         /\ Cardinality(ShownUpTo(typed, n)) <= Cardinality(Shown(typed))
<1>1. Len(typed) \in Nat /\ DOMAIN typed = 1 .. Len(typed)
  BY DEF IsSequence
<1>2. IsFiniteSet(1 .. Len(typed))
  BY <1>1, FS_Interval
<1>3. Shown(typed) \subseteq 1 .. Len(typed) /\ ShownUpTo(typed, n) \subseteq Shown(typed)
  BY <1>1 DEF Shown, ShownUpTo
<1>4. IsFiniteSet(Shown(typed))
  BY <1>2, <1>3, FS_Subset
<1> QED
  BY <1>3, <1>4, FS_Subset, FS_CardinalityType

LEMMA ShownNone ==
  ASSUME NEW typed, IsSequence(typed)
  PROVE  Cardinality(ShownUpTo(typed, 0)) = 0 /\ ShownUpTo(typed, Len(typed)) = Shown(typed)
<1>1. Len(typed) \in Nat /\ DOMAIN typed = 1 .. Len(typed)
  BY DEF IsSequence
<1>2. ShownUpTo(typed, 0) = {} /\ ShownUpTo(typed, Len(typed)) = Shown(typed)
  BY <1>1 DEF Shown, ShownUpTo
<1> QED
  BY <1>2, FS_EmptySet

\* One token more is shown, or none.
LEMMA ShownNext ==
  ASSUME NEW typed, IsSequence(typed), NEW n \in 0 .. Len(typed) - 1
  PROVE  /\ n + 1 \in Shown(typed) =>
              Cardinality(ShownUpTo(typed, n + 1)) = Cardinality(ShownUpTo(typed, n)) + 1
         /\ n + 1 \notin Shown(typed) => ShownUpTo(typed, n + 1) = ShownUpTo(typed, n)
<1>1. Len(typed) \in Nat /\ DOMAIN typed = 1 .. Len(typed) /\ n \in 0 .. Len(typed)
  BY DEF IsSequence
<1>2. Shown(typed) \subseteq 1 .. Len(typed)
  BY <1>1 DEF Shown
<1>3. CASE n + 1 \in Shown(typed)
  <2>1. ShownUpTo(typed, n + 1) = ShownUpTo(typed, n) \cup {n + 1} /\ n + 1 \notin ShownUpTo(typed, n)
    BY <1>1, <1>2, <1>3 DEF ShownUpTo
  <2>2. IsFiniteSet(ShownUpTo(typed, n))
    BY <1>1, ShownCounts
  <2> QED
    BY <1>3, <2>1, <2>2, FS_AddElement
<1>4. CASE n + 1 \notin Shown(typed)
  BY <1>1, <1>2, <1>4 DEF ShownUpTo
<1> QED
  BY <1>3, <1>4

\* A space is shown if something is shown before it.
LEMMA ShownWhere ==
  ASSUME NEW typed, IsSequence(typed), NEW n \in 0 .. Len(typed) - 1
  PROVE  n + 1 \in Shown(typed) <=>
           /\ typed[n + 1] \notin {"\\", NewLine}
           /\ typed[n + 1] \notin Spaces \/ Cardinality(ShownUpTo(typed, n)) # 0
<1>1. Len(typed) \in Nat /\ DOMAIN typed = 1 .. Len(typed) /\ n \in 0 .. Len(typed) /\ n + 1 \in DOMAIN typed
  BY DEF IsSequence
<1>2. Cardinality(ShownUpTo(typed, n)) # 0 <=> \E j \in 1 .. n : typed[j] \notin Spaces \cup {"\\"}
  <2>1. IsFiniteSet(ShownUpTo(typed, n))
    BY <1>1, ShownCounts
  <2>2. Cardinality(ShownUpTo(typed, n)) # 0 <=> ShownUpTo(typed, n) # {}
    BY <2>1, FS_EmptySet
  <2>3. ASSUME NEW j \in 1 .. n, typed[j] \notin Spaces \cup {"\\"}
        PROVE  j \in ShownUpTo(typed, n)
    <3>1. j \in DOMAIN typed /\ j <= n /\ j \in 1 .. j
      BY <1>1
    <3> QED
      BY <2>3, <3>1 DEF ShownUpTo, Shown, Spaces
  <2>4. ASSUME NEW i \in ShownUpTo(typed, n)
        PROVE  \E j \in 1 .. n : typed[j] \notin Spaces \cup {"\\"}
    <3>1. i \in 1 .. Len(typed) /\ i <= n
      BY <1>1 DEF ShownUpTo, Shown
    <3>2. PICK j \in 1 .. i : typed[j] \notin Spaces \cup {"\\"}
      BY DEF ShownUpTo, Shown
    <3>3. j \in 1 .. n
      BY <1>1, <3>1
    <3> QED
      BY <3>2, <3>3
  <2> QED
    BY <2>2, <2>3, <2>4
<1>3. n + 1 \in Shown(typed) <=>
        /\ typed[n + 1] \notin {"\\", NewLine}
        /\ \E j \in 1 .. n + 1 : typed[j] \notin Spaces \cup {"\\"}
  BY <1>1 DEF Shown
<1>4. (\E j \in 1 .. n + 1 : typed[j] \notin Spaces \cup {"\\"})
        <=> typed[n + 1] \notin Spaces \cup {"\\"} \/ \E j \in 1 .. n : typed[j] \notin Spaces \cup {"\\"}
  <2>1. \A j : j \in 1 .. n + 1 <=> j = n + 1 \/ j \in 1 .. n
    BY <1>1
  <2> QED
    BY <2>1
<1> QED
  BY <1>2, <1>3, <1>4

LEMMA ContinuesNext ==
  ASSUME NEW typed, IsSequence(typed), NEW n \in 0 .. Len(typed) - 1
  PROVE  /\ ~Continues(typed, 1)
         /\ Continues(typed, n + 2) <=>
              typed[n + 1] = "\\" \/ (typed[n + 1] \notin Words \cup {NewLine} /\ Continues(typed, n + 1))
<1>1. n \in Nat /\ n + 2 - 1 = n + 1 /\ n + 1 - 1 = n
  BY DEF IsSequence
<1>2. ~Continues(typed, 1)
  BY DEF Continues
<1> DEFINE Goes(j, m) == typed[j] = "\\" /\ \A k \in j + 1 .. m : typed[k] \notin Words \cup {NewLine}
<1>3. /\ Continues(typed, n + 2) <=> \E j \in 1 .. n + 1 : Goes(j, n + 1)
      /\ Continues(typed, n + 1) <=> \E j \in 1 .. n : Goes(j, n)
  BY <1>1 DEF Continues
<1>4. Goes(n + 1, n + 1) <=> typed[n + 1] = "\\"
  BY <1>1
<1>5. ASSUME NEW j \in 1 .. n
      PROVE  Goes(j, n + 1) <=> typed[n + 1] \notin Words \cup {NewLine} /\ Goes(j, n)
  <2>1. \A k : k \in j + 1 .. n + 1 <=> k = n + 1 \/ k \in j + 1 .. n
    BY <1>1
  <2> QED
    BY <2>1
<1> HIDE DEF Goes
<1>6. \A j : j \in 1 .. n + 1 <=> j = n + 1 \/ j \in 1 .. n
  BY <1>1
<1> QED
  BY <1>2, <1>3, <1>4, <1>5, <1>6

\* What one token does to the value.
ValueToken(p, tk, r) ==
  LET shows == tk \notin {"\\", NewLine} /\ (tk \notin Spaces \/ p.readString) IN
  /\ SameEntry(p, r)
  /\ r.accum = IF shows THEN Append(p.accum, tk) ELSE p.accum
  /\ r.skipNewline <=> tk = "\\" \/ (tk \notin Words \cup {NewLine} /\ p.skipNewline)
  /\ r.readString <=> p.readString \/ shows

LEMMA ReadsValueToken ==
  ASSUME NEW p, NEW T, NEW n \in Nat, Parsing(p, T, n), p.state = "Value", NEW i \in 1 .. n,
         p.text[i] = NewLine => p.skipNewline
  PROVE  ValueToken(p, p.text[i], Advance(p, i))
<1> DEFINE tk == p.text[i]
           r == Advance(p, i)
<1>1. r = parse_value(p, tk)
  BY DEF Advance
<1>2. DOMAIN p = {"state", "text", "str", "len", "key", "accum", "skipNewline", "readString", "content"}
  BY DEF Parsing
<1>3. Words \cap (Spaces \cup {"\\"}) = {} /\ NewLine \in Spaces /\ "\\" \notin Spaces
  BY ParserAssumption DEF Spaces, NewLine
<1>4. tk = NewLine => p.skipNewline
  OBVIOUS
<1> SUFFICES ValueToken(p, tk, r)
  OBVIOUS
<1> HIDE DEF tk, r
<1>6. CASE tk \in Words
  <2>1. tk \notin Spaces /\ tk # "\\" /\ tk # NewLine
    BY <1>3, <1>6
  <2>2. r = [AppendToValue(p, tk) EXCEPT !.skipNewline = FALSE]
    BY <1>1, <1>6, <2>1 DEF parse_value
  <2>3. SameEntry(p, r) /\ r.accum = Append(p.accum, tk) /\ r.skipNewline = FALSE /\ r.readString = TRUE
    BY <1>2, <2>2 DEF AppendToValue, SameEntry
  <2> QED
    BY <1>6, <2>1, <2>3 DEF ValueToken
<1>7. CASE tk = NewLine
  <2>1. tk \notin Words /\ p.skipNewline /\ tk # "\\"
    BY <1>3, <1>4, <1>7
  <2>2. r = [p EXCEPT !.skipNewline = FALSE]
    BY <1>1, <1>7, <2>1 DEF parse_value
  <2>3. SameEntry(p, r) /\ r.accum = p.accum /\ r.skipNewline = FALSE /\ r.readString = p.readString
    BY <1>2, <2>2 DEF SameEntry
  <2> QED
    BY <1>7, <2>1, <2>3 DEF ValueToken
<1>8. CASE tk = "\\"
  <2>1. tk \notin Words /\ tk # NewLine /\ tk \notin Spaces
    BY <1>3, <1>8
  <2>2. r = [p EXCEPT !.skipNewline = TRUE]
    BY <1>1, <1>8, <2>1 DEF parse_value
  <2>3. SameEntry(p, r) /\ r.accum = p.accum /\ r.skipNewline = TRUE /\ r.readString = p.readString
    BY <1>2, <2>2 DEF SameEntry
  <2> QED
    BY <1>8, <2>3 DEF ValueToken
<1>9. CASE tk \notin Words \cup {NewLine, "\\"} /\ tk \in Spaces /\ ~p.readString
  <2>1. r = p
    BY <1>1, <1>9 DEF parse_value
  <2> QED
    BY <1>9, <2>1 DEF ValueToken, SameEntry
<1>10. CASE tk \notin Words \cup {NewLine, "\\"} /\ ~(tk \in Spaces /\ ~p.readString)
  <2>1. r = AppendToValue(p, tk)
    BY <1>1, <1>10 DEF parse_value
  <2>2. /\ SameEntry(p, r) /\ r.accum = Append(p.accum, tk)
        /\ r.skipNewline = p.skipNewline /\ r.readString = TRUE
    BY <1>2, <2>1 DEF AppendToValue, SameEntry
  <2> QED
    BY <1>10, <2>2 DEF ValueToken
<1> QED
  BY <1>6, <1>7, <1>8, <1>9, <1>10

\* The first tokens of a sequence, and one more.
LEMMA FirstAndNext ==
  ASSUME NEW v, IsSequence(v), NEW c \in Nat, c + 1 <= Len(v)
  PROVE  SubSeq(v, 1, c + 1) = Append(SubSeq(v, 1, c), v[c + 1])
<1>1. v \in Seq(Range(v)) /\ Len(v) \in Nat
  BY DEF IsSequence
<1> QED
  BY <1>1

LEMMA AllOfIt ==
  ASSUME NEW v, IsSequence(v)
  PROVE  SubSeq(v, 1, 0) = <<>> /\ SubSeq(v, 1, Len(v)) = v
BY DEF IsSequence

\* parse_value makes what is meant of what was typed, over joined lines, skipped
\* spaces and dropped backslashes.
LEMMA ReadsValue ==
  ASSUME NEW f, NEW text, NEW k, ReadTo(f, text, k), NEW s, Lies(text, k, s),
         NEW value, IsMeant(s, value), IsOneLine(s),
         f[k].state = "Value", f[k].accum = <<>>, ~f[k].skipNewline, ~f[k].readString
  PROVE  /\ ReadTo(f, text, k + Len(s))
         /\ SameEntry(f[k], f[k + Len(s)])
         /\ f[k + Len(s)].accum = value /\ ~f[k + Len(s)].skipNewline
<1> DEFINE n == Len(s)
           c(i) == Cardinality(ShownUpTo(s, i))
           Fits(q, i) ==
             /\ SameEntry(f[k], q) /\ q.accum = SubSeq(value, 1, c(i))
             /\ q.skipNewline <=> Continues(s, i + 1)
             /\ q.readString <=> c(i) # 0
           T == {i \in 0 .. n : Fits(f[k + i], i)}
<1>1. n \in Nat /\ Len(text) \in Nat /\ k \in Nat /\ k + n <= Len(text)
  BY DEF ReadTo, Lies, IsSequence
<1>2. IsSequence(s) /\ IsSequence(value) /\ Len(value) = Cardinality(Shown(s))
  BY DEF Lies, IsMeant
<1>3. 0 \in T
  <2>1. c(0) = 0
    BY <1>2, ShownNone
  <2>2. ~Continues(s, 1)
    BY DEF Continues
  <2>3. SubSeq(value, 1, c(0)) = <<>>
    BY <1>2, <2>1, AllOfIt
  <2> HIDE DEF c
  <2>4. Fits(f[k], 0) /\ k + 0 = k
    BY <1>1, <2>1, <2>2, <2>3 DEF SameEntry
  <2> HIDE DEF Fits
  <2> QED
    BY <1>1, <2>4
<1>4. ASSUME NEW i \in 0 .. n - 1, i \in T
      PROVE  i + 1 \in T
  <2> DEFINE q == f[k + i]
             r == f[k + (i + 1)]
             tk == s[i + 1]
  <2> HIDE DEF c
  <2>1. i \in Nat /\ i + 1 \in 1 .. n /\ k + (i + 1) \in 1 .. Len(text) /\ k + i \in 0 .. Len(text)
        /\ k + (i + 1) - 1 = k + i
    <3> HIDE DEF n, T
    <3> QED
      BY <1>1
  <2>2. r = Advance(q, k + (i + 1))
    BY <2>1, ParsesNext DEF ReadTo
  <2>3. Fits(q, i) /\ Parsing(q, Tokens(text), Len(text))
    BY <1>4, <2>1 DEF ReadTo
  <2>4. q.text[k + (i + 1)] = tk
    BY <1>1, <2>1, <2>3 DEF ReadTo, Lies, SameEntry
  <2>5. tk = NewLine => q.skipNewline
    <3>1. tk = NewLine => Continues(s, i + 1)
      <4>1. i + 1 \in DOMAIN s
        BY <1>2, <2>1 DEF IsSequence
      <4> QED
        BY <4>1 DEF IsOneLine
    <3> QED
      BY <2>3, <3>1
  <2>6. q.state = "Value"
    BY <2>3 DEF SameEntry
  <2> HIDE DEF q, r, T, Fits
  <2>7. ValueToken(q, tk, r)
    BY <1>1, <2>1, <2>2, <2>3, <2>4, <2>5, <2>6, ReadsValueToken
  <2>8. /\ i + 1 \in Shown(s) => c(i + 1) = c(i) + 1
        /\ i + 1 \notin Shown(s) => c(i + 1) = c(i)
        /\ i + 1 \in Shown(s) <=> tk \notin {"\\", NewLine} /\ (tk \notin Spaces \/ c(i) # 0)
        /\ Continues(s, i + 2) <=>
             tk = "\\" \/ (tk \notin Words \cup {NewLine} /\ Continues(s, i + 1))
    <3>1. i \in 0 .. Len(s) - 1
      BY DEF n
    <3> QED
      BY <1>2, <3>1, ShownNext, ShownWhere, ContinuesNext DEF c
  <2>9. c(i) \in Nat /\ c(i + 1) <= Len(value)
    <3>1. i \in 0 .. Len(s) /\ i + 1 \in 0 .. Len(s)
      BY <1>1, <2>1 DEF n
    <3> QED
      BY <1>2, <3>1, ShownCounts DEF c
  <2>10. i + 1 \in Shown(s) => value[c(i + 1)] = tk
    BY DEF IsMeant, c
  <2>11. q.readString <=> c(i) # 0
    BY <2>3 DEF Fits
  <2>12. r.accum = SubSeq(value, 1, c(i + 1)) /\ (r.readString <=> c(i + 1) # 0)
    <3>1. q.accum = SubSeq(value, 1, c(i))
      BY <2>3 DEF Fits
    <3>2. CASE i + 1 \in Shown(s)
      <4>1. SubSeq(value, 1, c(i) + 1) = Append(SubSeq(value, 1, c(i)), value[c(i) + 1])
        BY <1>2, <2>8, <2>9, <3>2, FirstAndNext
      <4>2. r.accum = Append(q.accum, tk) /\ r.readString
        BY <2>7, <2>8, <2>11, <3>2 DEF ValueToken
      <4> QED
        BY <2>8, <2>9, <2>10, <3>1, <3>2, <4>1, <4>2
    <3>3. CASE i + 1 \notin Shown(s)
      <4>1. r.accum = q.accum /\ (r.readString <=> q.readString)
        BY <2>7, <2>8, <2>11, <3>3 DEF ValueToken
      <4> QED
        BY <2>8, <2>11, <3>1, <3>3, <4>1
    <3> QED
      BY <3>2, <3>3
  <2>13. r.skipNewline <=> Continues(s, i + 1 + 1)
    <3>1. i + 1 + 1 = i + 2
      BY <2>1
    <3>2. q.skipNewline <=> Continues(s, i + 1)
      BY <2>3 DEF Fits
    <3> QED
      BY <2>7, <2>8, <3>1, <3>2 DEF ValueToken
  <2>14. SameEntry(f[k], r)
    BY <2>3, <2>7 DEF Fits, ValueToken, SameEntry
  <2>15. Fits(r, i + 1)
    BY <2>12, <2>13, <2>14 DEF Fits
  <2> QED
    BY <2>1, <2>15 DEF T, r
<1> HIDE DEF n, T, Fits, c
<1>5. 0 .. n \subseteq T
  BY <1>1, <1>3, <1>4, InductionUpTo
<1>6. Fits(f[k + n], n)
  BY <1>1, <1>5 DEF T
<1>7. SubSeq(value, 1, c(n)) = value
  BY <1>2, ShownNone, AllOfIt DEF c, n
<1>8. f[k + n].accum = value /\ ~f[k + n].skipNewline /\ SameEntry(f[k], f[k + n])
  BY <1>6, <1>7 DEF Fits, IsOneLine, n
<1> QED
  BY <1>1, <1>8 DEF ReadTo, SameEntry, n

(***************************************************************************)
(* What an entry is read as                                                *)
(***************************************************************************)
\* The sequences of d up to the j-th, one behind the other.
Texts(d, j) == FlattenSeq(FirstOf(d, j))

LEMMA TextsNext ==
  ASSUME NEW d, IsSequence(d), \A i \in DOMAIN d : IsSequence(d[i])
  PROVE  /\ Len(d) \in Nat
         /\ Texts(d, 0) = <<>> /\ Texts(d, Len(d)) = FlattenSeq(d)
         /\ \A j \in 0 .. Len(d) : IsSequence(Texts(d, j))
         /\ \A j \in 0 .. Len(d) - 1 : Texts(d, j + 1) = Texts(d, j) \o d[j + 1]
<1> DEFINE n == Len(d)
           T == {j \in 0 .. n : IsSequence(Texts(d, j))}
<1>1. n \in Nat /\ DOMAIN d = 1 .. n /\ d \in Seq(Range(d))
  BY DEF IsSequence
<1>2. Texts(d, 0) = <<>>
  BY FlattenNext DEF Texts
<1>3. Texts(d, n) = FlattenSeq(d)
  <2>1. FirstOf(d, n) = d
    BY <1>1 DEF FirstOf
  <2> QED
    BY <2>1 DEF Texts
<1>4. ASSUME NEW j \in 0 .. n - 1
      PROVE  Texts(d, j + 1) = Texts(d, j) \o d[j + 1]
  <2>1. j \in Nat /\ j + 1 \in DOMAIN d
    BY <1>1
  <2>2. CASE j = 0
    <3>1. Texts(d, 1) = d[1] /\ IsSequence(d[1])
      BY <2>1, <2>2, FlattenNext DEF Texts
    <3>2. <<>> \o d[1] = d[1]
      BY <3>1 DEF IsSequence
    <3>3. j + 1 = 1
      BY <2>2
    <3>4. Texts(d, j + 1) = Texts(d, 1) /\ d[j + 1] = d[1] /\ Texts(d, j) = <<>>
      BY <1>2, <2>2, <3>3, Zenon
    <3> QED
      BY <3>1, <3>2, <3>4, Zenon
  <2>3. CASE j # 0
    <3>1. FlattenSeq(FirstOf(d, j + 1)) = FlattenSeq(FirstOf(d, j)) \o d[j + 1]
      BY <2>1, <2>3, FlattenNext, Zenon
    <3> QED
      <4>1. /\ Texts(d, j + 1) = FlattenSeq(FirstOf(d, j + 1))
            /\ Texts(d, j) = FlattenSeq(FirstOf(d, j))
        BY Zenon DEF Texts
      <4> QED
        BY <3>1, <4>1, Zenon
  <2> QED
    BY <2>2, <2>3
<1>5. IsSequence(<<>>)
  BY <<>> \in Seq({}), IsASequence
<1> HIDE DEF n
<1>6. 0 \in T
  BY <1>1, <1>2, <1>5
<1>7. ASSUME NEW j \in 0 .. n - 1, j \in T
      PROVE  j + 1 \in T
  <2>1. j + 1 \in DOMAIN d /\ j + 1 \in 0 .. n
    BY <1>1
  <2>2. IsSequence(Texts(d, j)) /\ IsSequence(d[j + 1])
    BY <1>7, <2>1
  <2>3. IsSequence(Texts(d, j) \o d[j + 1])
    BY <2>2, Concatenated, Zenon
  <2> QED
    BY <1>4, <2>1, <2>3
<1> HIDE DEF T
<1>8. 0 .. n \subseteq T
  BY <1>1, <1>6, <1>7, InductionUpTo
<1> QED
  BY <1>1, <1>2, <1>3, <1>4, <1>8 DEF T, n

\* Each of them lies behind those before it.
LEMMA TextsLie ==
  ASSUME NEW d, IsSequence(d), \A i \in DOMAIN d : IsSequence(d[i]),
         NEW text, IsSequence(text), NEW k \in Nat, Lies(text, k, FlattenSeq(d))
  PROVE  \A j \in 0 .. Len(d) - 1 :
           /\ Lies(text, k + Len(Texts(d, j)), d[j + 1])
           /\ Len(Texts(d, j + 1)) = Len(Texts(d, j)) + Len(d[j + 1])
<1> DEFINE n == Len(d)
           T == {i \in 0 .. n : Lies(text, k, Texts(d, n - i))}
<1>1. n \in Nat /\ DOMAIN d = 1 .. n
  BY DEF IsSequence
<1>2. ASSUME NEW j \in 0 .. n - 1, Lies(text, k, Texts(d, j + 1))
      PROVE  /\ Lies(text, k, Texts(d, j)) /\ Lies(text, k + Len(Texts(d, j)), d[j + 1])
             /\ Len(Texts(d, j + 1)) = Len(Texts(d, j)) + Len(d[j + 1])
  <2>1. j \in 0 .. n /\ j + 1 \in DOMAIN d
    BY <1>1
  <2>2. IsSequence(Texts(d, j)) /\ IsSequence(d[j + 1]) /\ Texts(d, j + 1) = Texts(d, j) \o d[j + 1]
    BY <2>1, TextsNext
  <2>3. Lies(text, k, Texts(d, j) \o d[j + 1])
    BY <1>2, <2>2, Zenon
  <2>4. /\ Lies(text, k, Texts(d, j)) /\ Lies(text, k + Len(Texts(d, j)), d[j + 1])
        /\ Len(Texts(d, j) \o d[j + 1]) = Len(Texts(d, j)) + Len(d[j + 1])
    <3>1. PICK a, b : a = Texts(d, j) /\ b = d[j + 1]
      OBVIOUS
    <3>2. IsSequence(a) /\ IsSequence(b) /\ Lies(text, k, a \o b)
      BY <2>2, <2>3, <3>1
    <3>3. Lies(text, k, a) /\ Lies(text, k + Len(a), b) /\ Len(a \o b) = Len(a) + Len(b)
      BY <3>2, LiesInParts
    <3> QED
      BY <3>1, <3>3
  <2> QED
    BY <2>2, <2>4, Zenon
<1> HIDE DEF n
<1>3. 0 \in T
  <2>1. Lies(text, k, Texts(d, n)) /\ n - 0 = n
    BY <1>1, TextsNext DEF n
  <2> QED
    BY <1>1, <2>1
<1>4. ASSUME NEW i \in 0 .. n - 1, i \in T
      PROVE  i + 1 \in T
  <2> DEFINE j == n - (i + 1)
  <2>1. j \in 0 .. n - 1 /\ n - i = j + 1 /\ i + 1 \in 0 .. n
    BY <1>1
  <2>2. Lies(text, k, Texts(d, j + 1))
    BY <1>4, <2>1
  <2> HIDE DEF j
  <2>3. Lies(text, k, Texts(d, j))
    BY <1>2, <2>1, <2>2
  <2> QED
    BY <2>1, <2>3 DEF j
<1> HIDE DEF T
<1>5. 0 .. n \subseteq T
  BY <1>1, <1>3, <1>4, InductionUpTo
<1>6. ASSUME NEW j \in 0 .. n - 1
      PROVE  Lies(text, k, Texts(d, j + 1))
  <2>1. n - (j + 1) \in 0 .. n /\ n - (n - (j + 1)) = j + 1
    BY <1>1
  <2>2. n - (j + 1) \in T
    BY <1>5, <2>1
  <2> QED
    BY <2>1, <2>2 DEF T
<1> QED
  BY <1>2, <1>6 DEF n

\* One token, and where the text behind it stays what it was.
LEMMA ReadsToken ==
  ASSUME NEW f, NEW text, NEW k, ReadTo(f, text, k), NEW tk, At(text, k + 1, tk)
  PROVE  /\ f[k + 1] = Advance(f[k], k + 1)
         /\ Parsing(f[k], Tokens(text), Len(text)) /\ f[k].text[k + 1] = tk
         /\ Len(text) \in Nat /\ k \in Nat
         /\ (\A j \in k + 2 .. Len(text) : f[k + 1].text[j] = f[k].text[j]) => ReadTo(f, text, k + 1)
<1>1. k \in 0 .. Len(text) /\ IsSequence(text)
  BY DEF ReadTo
<1>2. k \in Nat /\ Len(text) \in Nat /\ k + 1 - 1 = k
  BY <1>1 DEF IsSequence
<1>3. Parsing(f[k], Tokens(text), Len(text))
  BY <1>1 DEF ReadTo
<1>4. f[k + 1] = Advance(f[k + 1 - 1], k + 1)
  BY ParsesNext DEF ReadTo, At
<1>5. f[k].text[k + 1] = tk
  BY <1>2 DEF ReadTo, At
<1>6. (\A j \in k + 2 .. Len(text) : f[k + 1].text[j] = f[k].text[j]) => ReadTo(f, text, k + 1)
  BY OneOn DEF At
<1> QED
  BY <1>2, <1>3, <1>4, <1>5, <1>6

LEMMA Further ==
  ASSUME NEW k \in Nat, NEW a \in Nat, NEW b \in Nat, NEW c, c = a + b
  PROVE  k + c = k + a + b
OBVIOUS

\* Where the parts of a field, and of an entry, end.
LEMMA Sums ==
  ASSUME NEW k \in Nat, NEW g \in Nat, NEW s \in Nat, NEW t \in Nat,
         NEW n1, n1 = g + 1, NEW n2, n2 = n1 + s, NEW n3, n3 = n2 + 1,
         NEW n4, n4 = n3 + t, NEW n5, n5 = n4 + 1
  PROVE  /\ k + n1 = k + g + 1 /\ k + n2 = k + g + 1 + s /\ k + n3 = k + g + 1 + s + 1
         /\ k + n4 = k + g + 1 + s + 1 + t /\ k + n5 = k + g + 1 + s + 1 + t + 1
         /\ k + g \in Nat /\ k + g + 1 + s \in Nat /\ k + g + 1 + s + 1 + t \in Nat
OBVIOUS

LEMMA EntrySums ==
  ASSUME NEW k \in Nat, NEW m \in Nat, NEW t \in Nat, NEW g \in Nat,
         NEW n1, n1 = 1 + m, NEW n2, n2 = n1 + 1, NEW n3, n3 = n2 + t, NEW n4, n4 = n3 + g
  PROVE  /\ k + n1 = k + 1 + m /\ k + n2 = k + 1 + m + 1 /\ k + n3 = k + 1 + m + 1 + t
         /\ k + n4 = k + 1 + m + 1 + t + g
OBVIOUS

\* The parts of a field lie one behind the other.
LEMMA FieldLies ==
  ASSUME NEW text, IsSequence(text), NEW k \in Nat, NEW fd, IsField(fd), Lies(text, k, FieldText(fd))
  PROVE  LET k1 == k + Len(fd.gap)
             k2 == k1 + 1 + Len(fd.spaces)
             k3 == k2 + 1 + Len(fd.typed)
         IN  /\ k1 \in Nat /\ k2 \in Nat /\ k3 \in Nat
             /\ Lies(text, k, fd.gap) /\ Lies(text, k1 + 1, fd.spaces) /\ Lies(text, k2 + 1, fd.typed)
             /\ At(text, k1 + 1, fd.label) /\ At(text, k2 + 1, "=") /\ At(text, k3 + 1, NewLine)
             /\ k + Len(FieldText(fd)) = k3 + 1
             /\ IsSequence(FieldText(fd))
<1> DEFINE a1 == fd.gap \o <<fd.label>>
           a2 == a1 \o fd.spaces
           a3 == a2 \o <<"=">>
           a4 == a3 \o fd.typed
           a5 == a4 \o <<NewLine>>
<1>1. IsSequence(fd.gap) /\ IsSequence(fd.spaces) /\ IsSequence(fd.typed)
  BY DEF IsField, IsGap, IsFreeOf
<1>2. a5 = FieldText(fd)
  BY DEF FieldText
<1>3. IsSequence(a1) /\ Len(a1) = Len(fd.gap) + 1 /\ Len(fd.gap) \in Nat
  BY <1>1, OneMore
<1>4. IsSequence(a2) /\ Len(a2) = Len(a1) + Len(fd.spaces) /\ Len(fd.spaces) \in Nat
  <2> HIDE DEF a1
  <2> QED
    BY <1>1, <1>3, Concatenated
<1>5. IsSequence(a3) /\ Len(a3) = Len(a2) + 1
  <2> HIDE DEF a2
  <2> QED
    BY <1>4, OneMore
<1>6. IsSequence(a4) /\ Len(a4) = Len(a3) + Len(fd.typed) /\ Len(fd.typed) \in Nat
  <2> HIDE DEF a3
  <2> QED
    BY <1>1, <1>5, Concatenated
<1>7. IsSequence(a5) /\ Len(a5) = Len(a4) + 1
  <2> HIDE DEF a4
  <2> QED
    BY <1>6, OneMore
<1>8. Lies(text, k, a4) /\ At(text, k + Len(a4) + 1, NewLine)
  <2>1. Lies(text, k, a5)
    BY <1>2
  <2> HIDE DEF a4
  <2> QED
    BY <1>6, <2>1, LiesAndOne
<1>9. Lies(text, k, a3) /\ Lies(text, k + Len(a3), fd.typed)
  <2> HIDE DEF a3
  <2> QED
    BY <1>1, <1>5, <1>8, LiesInParts
<1>10. Lies(text, k, a2) /\ At(text, k + Len(a2) + 1, "=")
  <2> HIDE DEF a2
  <2> QED
    BY <1>4, <1>9, LiesAndOne
<1>11. Lies(text, k, a1) /\ Lies(text, k + Len(a1), fd.spaces)
  <2> HIDE DEF a1
  <2> QED
    BY <1>1, <1>3, <1>10, LiesInParts
<1>12. Lies(text, k, fd.gap) /\ At(text, k + Len(fd.gap) + 1, fd.label)
  BY <1>1, <1>11, LiesAndOne
<1> HIDE DEF a1, a2, a3, a4, a5
<1>13. PICK g \in Nat, sp \in Nat, t \in Nat : g = Len(fd.gap) /\ sp = Len(fd.spaces) /\ t = Len(fd.typed)
  BY <1>3, <1>4, <1>6
<1>14. /\ Len(a1) = g + 1 /\ Len(a2) = Len(a1) + sp /\ Len(a3) = Len(a2) + 1
       /\ Len(a4) = Len(a3) + t /\ Len(a5) = Len(a4) + 1
  BY <1>3, <1>4, <1>5, <1>6, <1>7, <1>13, Zenon
<1>15. /\ k + Len(a1) = k + g + 1 /\ k + Len(a2) = k + g + 1 + sp /\ k + Len(a3) = k + g + 1 + sp + 1
       /\ k + Len(a4) = k + g + 1 + sp + 1 + t /\ k + Len(a5) = k + g + 1 + sp + 1 + t + 1
       /\ k + g \in Nat /\ k + g + 1 + sp \in Nat /\ k + g + 1 + sp + 1 + t \in Nat
  <2>1. PICK n1, n2, n3, n4, n5 :
          n1 = Len(a1) /\ n2 = Len(a2) /\ n3 = Len(a3) /\ n4 = Len(a4) /\ n5 = Len(a5)
    OBVIOUS
  <2>2. n1 = g + 1 /\ n2 = n1 + sp /\ n3 = n2 + 1 /\ n4 = n3 + t /\ n5 = n4 + 1
    BY <1>14, <2>1, Zenon
  <2>3. /\ k + n1 = k + g + 1 /\ k + n2 = k + g + 1 + sp /\ k + n3 = k + g + 1 + sp + 1
        /\ k + n4 = k + g + 1 + sp + 1 + t /\ k + n5 = k + g + 1 + sp + 1 + t + 1
        /\ k + g \in Nat /\ k + g + 1 + sp \in Nat /\ k + g + 1 + sp + 1 + t \in Nat
    BY <2>2, Sums
  <2> QED
    BY <2>1, <2>3, Zenon
<1> QED
  <2>1. k + Len(FieldText(fd)) = k + g + 1 + sp + 1 + t + 1 /\ IsSequence(FieldText(fd))
    BY <1>2, <1>7, <1>15, Zenon
  <2>2. Lies(text, k, fd.gap) /\ At(text, k + g + 1, fd.label)
    BY <1>12, <1>13, Zenon
  <2>3. /\ Lies(text, k + g + 1, fd.spaces)
        /\ At(text, k + g + 1 + sp + 1, "=")
    BY <1>10, <1>11, <1>15, Zenon
  <2>4. /\ Lies(text, k + g + 1 + sp + 1, fd.typed)
        /\ At(text, k + g + 1 + sp + 1 + t + 1, NewLine)
    BY <1>8, <1>9, <1>15, Zenon
  <2> QED
    BY <1>13, <1>15, <2>1, <2>2, <2>3, <2>4, Zenon

\* The tokens that end a part.
LEMMA ReadsLabel ==
  ASSUME NEW p, NEW T, NEW n \in Nat, Parsing(p, T, n), p.state = "Label",
         NEW i \in 1 .. n, p.text[i] \in Words,
         NEW r, r = Advance(p, i)
  PROVE  /\ r.state = "Equals" /\ r.key = Lower[p.text[i]] /\ r.content = p.content
         /\ \A j \in i + 1 .. n : r.text[j] = p.text[j]
<1>1. DOMAIN p = {"state", "text", "str", "len", "key", "accum", "skipNewline", "readString", "content"}
  BY DEF Parsing
<1> DEFINE tk == p.text[i]
<1>2. r = parse_label(p, i, tk) /\ tk \in Words
  BY DEF Advance
<1>3. tk # "["
  BY <1>2, ParserAssumption
<1> HIDE DEF tk
<1>4. r = [p EXCEPT !.text[i] = Lower[tk], !.key = Lower[tk], !.state = "Equals"]
  BY <1>2, <1>3 DEF parse_label
<1>5. r.state = "Equals" /\ r.key = Lower[tk] /\ r.content = p.content /\ r.text = [p.text EXCEPT ![i] = Lower[tk]]
  BY <1>1, <1>4
<1>6. \A j \in i + 1 .. n : j \in DOMAIN p.text /\ j # i
  BY DEF Parsing
<1> QED
  BY <1>5, <1>6 DEF tk

LEMMA ReadsEquals ==
  ASSUME NEW p, NEW T, NEW n, Parsing(p, T, n), p.state = "Equals",
         NEW i, p.text[i] = "=",
         NEW r, r = Advance(p, i)
  PROVE  /\ r.state = "Value" /\ r.accum = <<>> /\ ~r.skipNewline /\ ~r.readString
         /\ r.key = p.key /\ r.content = p.content /\ r.text = p.text
<1>1. DOMAIN p = {"state", "text", "str", "len", "key", "accum", "skipNewline", "readString", "content"}
  BY DEF Parsing
<1>2. r = parse_equals(p, "=")
  BY DEF Advance
<1>3. "=" \notin Spaces
  BY DEF Spaces, NewLine
<1>4. r = [p EXCEPT !.state = "Value", !.accum = <<>>, !.skipNewline = FALSE, !.readString = FALSE]
  BY <1>2, <1>3 DEF parse_equals
<1> QED
  BY <1>1, <1>4

\* What FinishValue makes of the entries.
WithField(c, field) ==
  [c EXCEPT ![Len(c)].fields = Append(@, field)]

LEMMA ReadsBracket ==
  ASSUME NEW p, NEW T, NEW n, Parsing(p, T, n), p.state \in {"Start", "Label"},
         NEW i, p.text[i] = "[",
         NEW r, r = Advance(p, i)
  PROVE  r.state = "Tag" /\ r.str = 0 /\ r.len = 0 /\ r.text = p.text /\ r.content = p.content
<1>1. DOMAIN p = {"state", "text", "str", "len", "key", "accum", "skipNewline", "readString", "content"}
  BY DEF Parsing
<1>2. r = parse_skip_until(p, "[") \/ r = parse_label(p, i, "[")
  BY DEF Advance
<1>3. "[" \notin Words
  BY ParserAssumption
<1>4. r = EnterTag(p)
  BY <1>2, <1>3 DEF parse_skip_until, parse_label
<1> QED
  BY <1>1, <1>4 DEF EnterTag

\* parse_label passes over what stands between fields.
LEMMA PassesGap ==
  ASSUME NEW f, NEW text, NEW k, ReadTo(f, text, k), f[k].state = "Label",
         NEW s, IsGap(s), Lies(text, k, s)
  PROVE  f[k + Len(s)] = f[k] /\ ReadTo(f, text, k + Len(s))
<1> DEFINE p == f[k]
<1>1. ASSUME NEW i \in 1 .. Len(text), p.text[i] \in Range(s)
      PROVE  Advance(p, i) = p
  <2>1. p.text[i] \notin Words /\ p.text[i] # "["
    BY <1>1 DEF IsGap, IsFreeOf
  <2>2. Advance(p, i) = parse_label(p, i, p.text[i])
    BY DEF Advance
  <2> QED
    BY <2>1, <2>2 DEF parse_label
<1> QED
  BY <1>1, PassesOver

\* parse_equals passes over spaces.
LEMMA PassesSpaces ==
  ASSUME NEW f, NEW text, NEW k, ReadTo(f, text, k), f[k].state = "Equals",
         NEW s, Range(s) \subseteq Spaces, Lies(text, k, s)
  PROVE  f[k + Len(s)] = f[k] /\ ReadTo(f, text, k + Len(s))
<1> DEFINE p == f[k]
<1>1. ASSUME NEW i \in 1 .. Len(text), p.text[i] \in Range(s)
      PROVE  Advance(p, i) = p
  <2>1. p.text[i] \in Spaces /\ p.text[i] # "="
    BY <1>1 DEF Spaces, NewLine
  <2>2. Advance(p, i) = parse_equals(p, p.text[i])
    BY DEF Advance
  <2> QED
    BY <2>1, <2>2 DEF parse_equals
<1> QED
  BY <1>1, PassesOver

LEMMA LabelAt ==
  ASSUME NEW f, NEW text, NEW k, ReadTo(f, text, k), f[k].state = "Label",
         NEW tk \in Words, At(text, k + 1, tk)
  PROVE  /\ ReadTo(f, text, k + 1) /\ f[k + 1].state = "Equals"
         /\ f[k + 1].key = Lower[tk] /\ f[k + 1].content = f[k].content
<1> DEFINE q == f[k + 1]
<1>1. /\ q = Advance(f[k], k + 1)
      /\ Parsing(f[k], Tokens(text), Len(text)) /\ f[k].text[k + 1] = tk
      /\ Len(text) \in Nat /\ k \in Nat
      /\ (\A j \in k + 2 .. Len(text) : q.text[j] = f[k].text[j]) => ReadTo(f, text, k + 1)
  BY ReadsToken
<1> HIDE DEF q
<1>2. k + 1 \in 1 .. Len(text)
  BY DEF At
<1>3. /\ q.state = "Equals" /\ q.key = Lower[tk] /\ q.content = f[k].content
      /\ \A j \in k + 1 + 1 .. Len(text) : q.text[j] = f[k].text[j]
  BY <1>1, <1>2, ReadsLabel
<1>4. k + 1 + 1 = k + 2
  BY <1>1
<1> QED
  BY <1>1, <1>3, <1>4 DEF q

LEMMA EqualsAt ==
  ASSUME NEW f, NEW text, NEW k, ReadTo(f, text, k), f[k].state = "Equals",
         At(text, k + 1, "=")
  PROVE  /\ ReadTo(f, text, k + 1)
         /\ f[k + 1].state = "Value" /\ f[k + 1].accum = <<>>
         /\ ~f[k + 1].skipNewline /\ ~f[k + 1].readString
         /\ f[k + 1].key = f[k].key /\ f[k + 1].content = f[k].content
<1> DEFINE q == f[k + 1]
<1>1. /\ q = Advance(f[k], k + 1)
      /\ Parsing(f[k], Tokens(text), Len(text)) /\ f[k].text[k + 1] = "="
      /\ Len(text) \in Nat /\ k \in Nat
      /\ (\A j \in k + 2 .. Len(text) : q.text[j] = f[k].text[j]) => ReadTo(f, text, k + 1)
  BY ReadsToken
<1> HIDE DEF q
<1>2. /\ q.state = "Value" /\ q.accum = <<>> /\ ~q.skipNewline /\ ~q.readString
      /\ q.key = f[k].key /\ q.content = f[k].content /\ q.text = f[k].text
  BY <1>1, ReadsEquals
<1> QED
  BY <1>1, <1>2 DEF q

LEMMA LineAt ==
  ASSUME NEW f, NEW text, NEW k, ReadTo(f, text, k), f[k].state = "Value", ~f[k].skipNewline,
         At(text, k + 1, NewLine)
  PROVE  /\ ReadTo(f, text, k + 1) /\ f[k + 1].state = "Label"
         /\ f[k + 1].content = WithField(f[k].content, [label |-> f[k].key, value |-> f[k].accum])
<1> DEFINE p == f[k]
           q == f[k + 1]
<1>1. /\ q = Advance(p, k + 1)
      /\ Parsing(p, Tokens(text), Len(text)) /\ p.text[k + 1] = NewLine
      /\ Len(text) \in Nat /\ k \in Nat
      /\ (\A j \in k + 2 .. Len(text) : q.text[j] = p.text[j]) => ReadTo(f, text, k + 1)
  BY ReadsToken
<1>2. p.state = "Value" /\ ~p.skipNewline /\ p.text[k + 1] = NewLine
  BY <1>1
<1> HIDE DEF p, q
<1>3. NewLine \notin Words /\ NewLine # "\\"
  BY ParserAssumption DEF Spaces, NewLine
<1>4. q = parse_value(p, NewLine)
  BY <1>1, <1>2 DEF Advance
<1>5. q = FinishValue(p)
  BY <1>2, <1>3, <1>4 DEF parse_value
<1>6. DOMAIN p = {"state", "text", "str", "len", "key", "accum", "skipNewline", "readString", "content"}
  BY <1>1 DEF Parsing
<1>7. /\ q.state = "Label" /\ q.text = p.text
      /\ q.content = WithField(p.content, [label |-> p.key, value |-> p.accum])
  BY <1>5, <1>6 DEF FinishValue, WithField
<1> QED
  BY <1>1, <1>7 DEF p, q

LEMMA BracketAt ==
  ASSUME NEW f, NEW text, NEW k, ReadTo(f, text, k), f[k].state \in {"Start", "Label"},
         At(text, k + 1, "[")
  PROVE  /\ ReadTo(f, text, k + 1) /\ f[k + 1].state = "Tag"
         /\ f[k + 1].str = 0 /\ f[k + 1].len = 0 /\ f[k + 1].content = f[k].content
<1> DEFINE q == f[k + 1]
<1>1. /\ q = Advance(f[k], k + 1)
      /\ Parsing(f[k], Tokens(text), Len(text)) /\ f[k].text[k + 1] = "["
      /\ Len(text) \in Nat /\ k \in Nat
      /\ (\A j \in k + 2 .. Len(text) : q.text[j] = f[k].text[j]) => ReadTo(f, text, k + 1)
  BY ReadsToken
<1> HIDE DEF q
<1>2. q.state = "Tag" /\ q.str = 0 /\ q.len = 0 /\ q.text = f[k].text /\ q.content = f[k].content
  BY <1>1, ReadsBracket
<1> QED
  BY <1>1, <1>2 DEF q

LEMMA CloseAt ==
  ASSUME NEW f, NEW text, NEW k, ReadTo(f, text, k), f[k].state = "Tag", f[k].str # 0,
         At(text, k + 1, "]")
  PROVE  /\ ReadTo(f, text, k + 1) /\ f[k + 1].state = "Label"
         /\ f[k + 1].content =
              Append(f[k].content, [name |-> sstr_create(f[k].text, f[k].str, f[k].len), fields |-> <<>>])
<1> DEFINE p == f[k]
           q == f[k + 1]
<1>1. /\ q = Advance(p, k + 1)
      /\ Parsing(p, Tokens(text), Len(text)) /\ p.text[k + 1] = "]"
      /\ Len(text) \in Nat /\ k \in Nat
      /\ (\A j \in k + 2 .. Len(text) : q.text[j] = p.text[j]) => ReadTo(f, text, k + 1)
  BY ReadsToken
<1>2. p.state = "Tag" /\ p.str # 0 /\ p.text[k + 1] = "]"
  BY <1>1
<1> HIDE DEF p, q
<1>3. "]" \notin Words
  BY ParserAssumption
<1>4. q = parse_tag(p, k + 1, "]")
  BY <1>1, <1>2 DEF Advance
<1>5. q = FinishTag(p)
  BY <1>2, <1>3, <1>4 DEF parse_tag
<1>6. DOMAIN p = {"state", "text", "str", "len", "key", "accum", "skipNewline", "readString", "content"}
  BY <1>1 DEF Parsing
<1>7. /\ q.state = "Label" /\ q.text = p.text
      /\ q.content = Append(p.content, [name |-> sstr_create(p.text, p.str, p.len), fields |-> <<>>])
  BY <1>5, <1>6 DEF FinishTag
<1> QED
  BY <1>1, <1>7 DEF p, q

\* parse_label, parse_equals and parse_value add the field that was meant to the
\* entry that was added last.
LEMMA ReadsField ==
  ASSUME NEW f, NEW text, NEW k, ReadTo(f, text, k), f[k].state = "Label",
         NEW fd, IsField(fd), Lies(text, k, FieldText(fd))
  PROVE  LET l == k + Len(FieldText(fd)) IN
         /\ ReadTo(f, text, l) /\ f[l].state = "Label"
         /\ f[l].content = WithField(f[k].content, MeantField(fd))
<1> DEFINE k1 == k + Len(fd.gap)
           k2 == k1 + 1 + Len(fd.spaces)
           k3 == k2 + 1 + Len(fd.typed)
<1>1. /\ Lies(text, k, fd.gap) /\ Lies(text, k1 + 1, fd.spaces) /\ Lies(text, k2 + 1, fd.typed)
      /\ At(text, k1 + 1, fd.label) /\ At(text, k2 + 1, "=") /\ At(text, k3 + 1, NewLine)
      /\ k + Len(FieldText(fd)) = k3 + 1
  <2>1. k \in Nat /\ IsSequence(text)
    BY DEF ReadTo
  <2>2. Lies(text, k, fd.gap) /\ Lies(text, k1 + 1, fd.spaces) /\ Lies(text, k2 + 1, fd.typed)
    BY <2>1, FieldLies
  <2>3. At(text, k1 + 1, fd.label) /\ At(text, k2 + 1, "=") /\ At(text, k3 + 1, NewLine)
    BY <2>1, FieldLies
  <2>4. k + Len(FieldText(fd)) = k3 + 1
    BY <2>1, FieldLies
  <2> QED
    BY <2>2, <2>3, <2>4
<1>2. f[k1] = f[k] /\ ReadTo(f, text, k1)
  BY <1>1, PassesGap DEF IsField
<1> HIDE DEF k1
<1>3. /\ ReadTo(f, text, k1 + 1)
      /\ f[k1 + 1].state = "Equals" /\ f[k1 + 1].key = Lower[fd.label] /\ f[k1 + 1].content = f[k].content
  <2>1. fd.label \in Words
    BY DEF IsField
  <2>2. ReadTo(f, text, k1) /\ f[k1].state = "Label" /\ At(text, k1 + 1, fd.label)
    BY <1>1, <1>2
  <2>3. /\ ReadTo(f, text, k1 + 1) /\ f[k1 + 1].state = "Equals"
        /\ f[k1 + 1].key = Lower[fd.label] /\ f[k1 + 1].content = f[k1].content
    BY <2>1, <2>2, LabelAt
  <2> QED
    BY <1>2, <2>3
<1>4. /\ ReadTo(f, text, k2)
      /\ f[k2].state = "Equals" /\ f[k2].key = Lower[fd.label] /\ f[k2].content = f[k].content
  <2>1. Range(fd.spaces) \subseteq Spaces
    BY DEF IsField
  <2>2. f[k2] = f[k1 + 1] /\ ReadTo(f, text, k2)
    BY <1>1, <1>3, <2>1, PassesSpaces
  <2> QED
    BY <1>3, <2>2
<1> HIDE DEF k2
<1>5. /\ ReadTo(f, text, k2 + 1)
      /\ f[k2 + 1].state = "Value" /\ f[k2 + 1].accum = <<>>
      /\ ~f[k2 + 1].skipNewline /\ ~f[k2 + 1].readString
      /\ f[k2 + 1].key = Lower[fd.label] /\ f[k2 + 1].content = f[k].content
  <2>1. ReadTo(f, text, k2) /\ f[k2].state = "Equals" /\ At(text, k2 + 1, "=")
    BY <1>1, <1>4
  <2>2. /\ ReadTo(f, text, k2 + 1)
        /\ f[k2 + 1].state = "Value" /\ f[k2 + 1].accum = <<>>
        /\ ~f[k2 + 1].skipNewline /\ ~f[k2 + 1].readString
        /\ f[k2 + 1].key = f[k2].key /\ f[k2 + 1].content = f[k2].content
    BY <2>1, EqualsAt, Zenon
  <2> QED
    BY <1>4, <2>2
<1>6. /\ ReadTo(f, text, k3)
      /\ SameEntry(f[k2 + 1], f[k3]) /\ f[k3].accum = fd.value /\ ~f[k3].skipNewline
  <2>1. IsMeant(fd.typed, fd.value) /\ IsOneLine(fd.typed)
    BY DEF IsField
  <2> QED
    <3>1. /\ ReadTo(f, text, k2 + 1) /\ Lies(text, k2 + 1, fd.typed)
          /\ f[k2 + 1].state = "Value" /\ f[k2 + 1].accum = <<>>
          /\ ~f[k2 + 1].skipNewline /\ ~f[k2 + 1].readString
      BY <1>1, <1>5
    <3> QED
      BY <2>1, <3>1, ReadsValue
<1> HIDE DEF k3
<1>7. f[k3].state = "Value" /\ f[k3].key = Lower[fd.label] /\ f[k3].content = f[k].content
  BY <1>5, <1>6 DEF SameEntry
<1>8. /\ ReadTo(f, text, k3 + 1) /\ f[k3 + 1].state = "Label"
      /\ f[k3 + 1].content = WithField(f[k3].content, [label |-> f[k3].key, value |-> f[k3].accum])
  BY <1>1, <1>6, <1>7, LineAt
<1>9. f[k3 + 1].content = WithField(f[k].content, MeantField(fd))
  BY <1>6, <1>7, <1>8 DEF MeantField
<1> QED
  BY <1>1, <1>8, <1>9

LEMMA FieldIsSequence ==
  ASSUME NEW fd, IsField(fd)
  PROVE  IsSequence(FieldText(fd))
<1> DEFINE a1 == fd.gap \o <<fd.label>>
           a2 == a1 \o fd.spaces
           a3 == a2 \o <<"=">>
           a4 == a3 \o fd.typed
<1>1. IsSequence(fd.gap) /\ IsSequence(fd.spaces) /\ IsSequence(fd.typed)
  BY DEF IsField, IsGap, IsFreeOf
<1>2. FieldText(fd) = a4 \o <<NewLine>>
  BY DEF FieldText
<1>3. IsSequence(a1)
  BY <1>1, OneMore
<1>4. IsSequence(a2)
  <2> HIDE DEF a1
  <2> QED
    BY <1>1, <1>3, Concatenated
<1>5. IsSequence(a3)
  <2> HIDE DEF a2
  <2> QED
    BY <1>4, OneMore
<1>6. IsSequence(a4)
  <2> HIDE DEF a3
  <2> QED
    BY <1>1, <1>5, Concatenated
<1> HIDE DEF a4
<1> QED
  BY <1>2, <1>6, OneMore

\* The entry that was added last.
LEMMA LastReplaced ==
  ASSUME NEW S, NEW c \in Seq(S), NEW e1, NEW e2
  PROVE  /\ Len(Append(c, e1)) = Len(c) + 1 /\ Append(c, e1)[Len(c) + 1] = e1
         /\ [Append(c, e1) EXCEPT ![Len(c) + 1] = e2] = Append(c, e2)
<1> DEFINE U == S \cup {e1, e2}
<1>1. c \in Seq(U)
  BY SeqOfMore
<1>2. e1 \in U /\ e2 \in U
  OBVIOUS
<1> HIDE DEF U
<1>3. Len(Append(c, e1)) = Len(c) + 1 /\ Append(c, e1)[Len(c) + 1] = e1
  BY <1>1, <1>2
<1> DEFINE r == [Append(c, e1) EXCEPT ![Len(c) + 1] = e2]
<1>4. r \in Seq(U) /\ Len(r) = Len(c) + 1
  BY <1>1, <1>2
<1>5. Append(c, e2) \in Seq(U) /\ Len(Append(c, e2)) = Len(c) + 1
  BY <1>1, <1>2
<1>6. ASSUME NEW i \in 1 .. Len(c) + 1
      PROVE  r[i] = Append(c, e2)[i]
  <2>1. Len(c) \in Nat
    BY <1>1
  <2>2. CASE i = Len(c) + 1
    BY <1>1, <1>2, <2>2
  <2>3. CASE i \in 1 .. Len(c)
    <3>1. Append(c, e1)[i] = c[i] /\ Append(c, e2)[i] = c[i]
      BY <1>1, <1>2, <2>3
    <3>2. r[i] = Append(c, e1)[i]
      <4> DEFINE d == Append(c, e1)
      <4>1. i \in DOMAIN d /\ i # Len(c) + 1
        BY <1>1, <1>2, <2>1, <2>3
      <4> HIDE DEF d
      <4>2. [d EXCEPT ![Len(c) + 1] = e2][i] = d[i]
        BY <4>1
      <4> QED
        BY <4>2 DEF d
    <3> QED
      BY <3>1, <3>2
  <2> QED
    BY <2>1, <2>2, <2>3
<1> HIDE DEF r
<1>7. r = Append(c, e2)
  BY <1>4, <1>5, <1>6
<1> QED
  BY <1>3, <1>7 DEF r

LEMMA FieldAdded ==
  ASSUME NEW S, NEW c \in Seq(S), NEW name, NEW fields, NEW field
  PROVE  WithField(Append(c, [name |-> name, fields |-> fields]), field) =
           Append(c, [name |-> name, fields |-> Append(fields, field)])
<1> DEFINE e1 == [name |-> name, fields |-> fields]
           e2 == [name |-> name, fields |-> Append(fields, field)]
           d == Append(c, e1)
<1>1. [e1 EXCEPT !.fields = Append(@, field)] = e2
  OBVIOUS
<1> HIDE DEF e1, e2
<1>2. Len(d) = Len(c) + 1 /\ d[Len(c) + 1] = e1 /\ [d EXCEPT ![Len(c) + 1] = e2] = Append(c, e2)
  BY LastReplaced
<1> HIDE DEF d
<1>3. WithField(d, field) = [d EXCEPT ![Len(d)] = [d[Len(d)] EXCEPT !.fields = Append(@, field)]]
  BY DEF WithField
<1>4. WithField(d, field) = Append(c, e2)
  BY <1>1, <1>2, <1>3
<1> QED
  BY <1>4 DEF d, e1, e2

\* The fields of an entry, up to the j-th.
MeantFields(fields, j) == [i \in 1 .. j |-> MeantField(fields[i])]

LEMMA OneMoreOf ==
  ASSUME NEW d, NEW j \in Nat
  PROVE  FirstOf(d, 0) = <<>> /\ FirstOf(d, j + 1) = Append(FirstOf(d, j), d[j + 1])
<1> DEFINE a == FirstOf(d, j)
           b == Append(a, d[j + 1])
           S == {d[i] : i \in 1 .. j + 1}
<1>1. FirstOf(d, 0) = <<>>
  BY DEF FirstOf
<1>2. \A i \in 1 .. j + 1 : d[i] \in S
  OBVIOUS
<1> HIDE DEF S
<1>3. a \in Seq(S) /\ Len(a) = j /\ d[j + 1] \in S /\ \A i \in 1 .. j : a[i] = d[i]
  BY <1>2 DEF FirstOf
<1> HIDE DEF a
<1>4. b \in Seq(S) /\ Len(b) = j + 1
  BY <1>3
<1>5. \A i \in 1 .. j + 1 : b[i] = d[i]
  BY <1>3
<1> HIDE DEF b
<1>6. b = [i \in 1 .. j + 1 |-> d[i]]
  BY <1>4, <1>5
<1> QED
  BY <1>1, <1>6 DEF FirstOf, a, b

LEMMA MeantFieldsNext ==
  ASSUME NEW fields, NEW j \in Nat
  PROVE  /\ MeantFields(fields, 0) = <<>>
         /\ MeantFields(fields, j + 1) = Append(MeantFields(fields, j), MeantField(fields[j + 1]))
<1> DEFINE d == [i \in 1 .. j + 1 |-> MeantField(fields[i])]
<1>1. d[j + 1] = MeantField(fields[j + 1])
  OBVIOUS
<1>2. FirstOf(d, j) = MeantFields(fields, j) /\ FirstOf(d, j + 1) = MeantFields(fields, j + 1)
  BY DEF FirstOf, MeantFields
<1> HIDE DEF d
<1>3. MeantFields(fields, 0) = <<>>
  BY DEF MeantFields
<1> QED
  BY <1>1, <1>2, <1>3, OneMoreOf

\* Sequences one behind the other are a sequence.
LEMMA AllSequences ==
  ASSUME NEW n \in Nat, NEW d, d = [i \in 1 .. n |-> d[i]], \A i \in 1 .. n : IsSequence(d[i])
  PROVE  /\ IsSequence(d) /\ Len(d) = n
         /\ \A i \in DOMAIN d : IsSequence(d[i])
         /\ IsSequence(FlattenSeq(d))
<1> DEFINE U == {d[i] : i \in 1 .. n}
<1>1. \A i \in 1 .. n : d[i] \in U
  OBVIOUS
<1> HIDE DEF U
<1>2. d \in Seq(U) /\ Len(d) = n /\ DOMAIN d = 1 .. n
  BY <1>1
<1>3. IsSequence(d)
  BY <1>2, IsASequence
<1>4. \A i \in DOMAIN d : IsSequence(d[i])
  BY <1>2
<1>5. IsSequence(Texts(d, n)) /\ Texts(d, n) = FlattenSeq(d)
  <2>1. n \in 0 .. Len(d)
    BY <1>2
  <2> QED
    BY <1>2, <1>3, <1>4, <2>1, TextsNext
<1> QED
  BY <1>2, <1>3, <1>4, <1>5

FieldTexts(fields) == [i \in DOMAIN fields |-> FieldText(fields[i])]

LEMMA FieldTextsAre ==
  ASSUME NEW fields, IsSequence(fields), \A i \in DOMAIN fields : IsField(fields[i])
  PROVE  LET d == FieldTexts(fields) IN
         /\ IsSequence(d) /\ Len(d) = Len(fields)
         /\ \A i \in 1 .. Len(fields) : d[i] = FieldText(fields[i])
         /\ \A i \in DOMAIN d : IsSequence(d[i])
         /\ IsSequence(FlattenSeq(d))
<1> DEFINE d == FieldTexts(fields)
           n == Len(fields)
<1>1. n \in Nat /\ DOMAIN fields = 1 .. n
  BY DEF IsSequence
<1>2. d = [i \in 1 .. n |-> d[i]] /\ \A i \in 1 .. n : d[i] = FieldText(fields[i])
  BY <1>1 DEF FieldTexts
<1>3. \A i \in 1 .. n : IsSequence(d[i])
  BY <1>1, <1>2, FieldIsSequence
<1> HIDE DEF d, n
<1> QED
  BY <1>1, <1>2, <1>3, AllSequences DEF d, n

\* The fields of an entry are listed in the order they are typed in.
LEMMA ReadsFields ==
  ASSUME NEW f, NEW text, NEW k, ReadTo(f, text, k), f[k].state = "Label",
         NEW S, NEW c \in Seq(S), NEW name,
         f[k].content = Append(c, [name |-> name, fields |-> <<>>]),
         NEW fields, IsSequence(fields), \A i \in DOMAIN fields : IsField(fields[i]),
         Lies(text, k, FlattenSeq(FieldTexts(fields)))
  PROVE  LET l == k + Len(FlattenSeq(FieldTexts(fields))) IN
         /\ ReadTo(f, text, l) /\ f[l].state = "Label"
         /\ f[l].content = Append(c, [name |-> name, fields |-> MeantFields(fields, Len(fields))])
<1> DEFINE d == FieldTexts(fields)
           n == Len(fields)
           pos(j) == k + Len(Texts(d, j))
           Fits(l, j) ==
             /\ ReadTo(f, text, l) /\ f[l].state = "Label"
             /\ f[l].content = Append(c, [name |-> name, fields |-> MeantFields(fields, j)])
           T == {j \in 0 .. n : Fits(pos(j), j)}
<1>1. n \in Nat /\ DOMAIN fields = 1 .. n /\ k \in Nat /\ IsSequence(text)
  BY DEF IsSequence, ReadTo
<1>2. IsSequence(d) /\ Len(d) = n /\ \A i \in 1 .. n : d[i] = FieldText(fields[i])
  BY FieldTextsAre
<1>3. \A i \in DOMAIN d : IsSequence(d[i])
  BY FieldTextsAre
<1> HIDE DEF d, n
<1>4. 0 \in T
  <2>1. Texts(d, 0) = <<>>
    BY <1>2, <1>3, TextsNext
  <2>2. pos(0) = k
    BY <1>1, <2>1
  <2>3. MeantFields(fields, 0) = <<>>
    BY MeantFieldsNext
  <2>4. Fits(k, 0)
    BY <2>3
  <2> HIDE DEF Fits, pos
  <2> QED
    BY <1>1, <2>2, <2>4
<1>5. ASSUME NEW j \in 0 .. n - 1, j \in T
      PROVE  j + 1 \in T
  <2> DEFINE fd == fields[j + 1]
  <2>1. j \in Nat /\ j + 1 \in 1 .. n /\ j + 1 \in 0 .. n
    BY <1>1
  <2>2. IsField(fd) /\ d[j + 1] = FieldText(fd)
    BY <1>1, <1>2, <2>1
  <2>3. /\ Lies(text, k + Len(Texts(d, j)), d[j + 1])
        /\ Len(Texts(d, j + 1)) = Len(Texts(d, j)) + Len(d[j + 1])
        /\ Len(Texts(d, j)) \in Nat /\ Len(d[j + 1]) \in Nat
    <3>1. Lies(text, k, FlattenSeq(d))
      BY DEF d
    <3>2. j \in 0 .. Len(d) - 1 /\ j \in 0 .. Len(d) /\ j + 1 \in DOMAIN d
      BY <1>1, <1>2, <2>1 DEF IsSequence
    <3>3. IsSequence(Texts(d, j)) /\ IsSequence(d[j + 1])
      BY <1>2, <1>3, <3>2, TextsNext
    <3>4. /\ Lies(text, k + Len(Texts(d, j)), d[j + 1])
          /\ Len(Texts(d, j + 1)) = Len(Texts(d, j)) + Len(d[j + 1])
      BY <1>1, <1>2, <1>3, <3>1, <3>2, TextsLie
    <3> QED
      BY <3>3, <3>4 DEF IsSequence
  <2>4. pos(j + 1) = pos(j) + Len(FieldText(fd))
    <3>1. k + Len(Texts(d, j + 1)) = k + Len(Texts(d, j)) + Len(d[j + 1])
      <4>1. PICK a \in Nat, b \in Nat, c0 \in Nat :
              a = Len(Texts(d, j)) /\ b = Len(d[j + 1]) /\ c0 = Len(Texts(d, j + 1)) /\ c0 = a + b
        BY <2>3
      <4>2. PICK k0 \in Nat : k0 = k
        BY <1>1
      <4>3. c0 = a + b
        BY <4>1
      <4>4. k0 + c0 = k0 + a + b
        BY <4>3, Further
      <4> QED
        BY <4>1, <4>2, <4>4, Zenon
    <3> QED
      BY <2>2, <3>1, Zenon
  <2>5. Fits(pos(j), j) /\ Lies(text, pos(j), FieldText(fd))
    BY <1>5, <2>2, <2>3
  <2> HIDE DEF pos, fd
  <2>6. /\ ReadTo(f, text, pos(j + 1)) /\ f[pos(j + 1)].state = "Label"
        /\ f[pos(j + 1)].content = WithField(f[pos(j)].content, MeantField(fd))
    <3>1. LET m == pos(j) + Len(FieldText(fd)) IN
          /\ ReadTo(f, text, m) /\ f[m].state = "Label"
          /\ f[m].content = WithField(f[pos(j)].content, MeantField(fd))
      <4>1. PICK l : l = pos(j)
        OBVIOUS
      <4>2. ReadTo(f, text, l) /\ f[l].state = "Label" /\ Lies(text, l, FieldText(fd)) /\ IsField(fd)
        BY <2>2, <2>5, <4>1, Zenon
      <4>3. LET m == l + Len(FieldText(fd)) IN
            /\ ReadTo(f, text, m) /\ f[m].state = "Label"
            /\ f[m].content = WithField(f[l].content, MeantField(fd))
        BY <4>2, ReadsField
      <4> QED
        BY <4>1, <4>3, Zenon
    <3> QED
      BY <2>4, <3>1, Zenon
  <2>7. WithField(f[pos(j)].content, MeantField(fd)) =
          Append(c, [name |-> name, fields |-> MeantFields(fields, j + 1)])
    <3>1. MeantFields(fields, j + 1) = Append(MeantFields(fields, j), MeantField(fd))
      BY <2>1, MeantFieldsNext DEF fd
    <3>2. f[pos(j)].content = Append(c, [name |-> name, fields |-> MeantFields(fields, j)])
      BY <2>5
    <3> QED
      BY <3>1, <3>2, FieldAdded
  <2>8. Fits(pos(j + 1), j + 1)
    BY <2>6, <2>7
  <2> HIDE DEF Fits
  <2> QED
    BY <2>1, <2>8
<1> HIDE DEF T, Fits, pos
<1>6. 0 .. n \subseteq T
  BY <1>1, <1>4, <1>5, InductionUpTo
<1>7. Fits(pos(n), n)
  BY <1>1, <1>6 DEF T
<1>8. Texts(d, n) = FlattenSeq(d)
  BY <1>2, <1>3, TextsNext
<1> QED
  BY <1>7, <1>8 DEF Fits, pos, n, d

LEMMA OneLies ==
  ASSUME NEW text, IsSequence(text), NEW k \in Nat, NEW tk, Lies(text, k, <<tk>>)
  PROVE  At(text, k + 1, tk)
<1>1. Len(<<tk>>) = 1 /\ <<tk>>[1] = tk
  BY OneToken
<1>2. Len(text) \in Nat
  BY DEF IsSequence
<1>3. 1 \in 1 .. Len(<<tk>>)
  BY <1>1
<1> QED
  BY <1>1, <1>2, <1>3 DEF Lies, At

\* The parts of an entry lie one behind the other.
LEMMA EntryLies ==
  ASSUME NEW text, IsSequence(text), NEW k \in Nat, NEW e, IsEntry(e), Lies(text, k, EntryText(e))
  PROVE  LET flat == FlattenSeq(FieldTexts(e.fields))
             k1 == k + 1 + Len(e.name)
             k2 == k1 + 1 + Len(flat)
         IN  /\ At(text, k + 1, "[") /\ Lies(text, k + 1, e.name) /\ At(text, k1 + 1, "]")
             /\ Lies(text, k1 + 1, flat) /\ Lies(text, k2, e.gap)
             /\ k + Len(EntryText(e)) = k2 + Len(e.gap)
<1> DEFINE flat == FlattenSeq(FieldTexts(e.fields))
           a0 == <<"[">>
           a1 == a0 \o e.name
           a2 == a1 \o <<"]">>
           a3 == a2 \o flat
           a4 == a3 \o e.gap
<1>1. IsSequence(e.name) /\ IsSequence(flat) /\ IsSequence(e.gap)
  <2>1. IsSequence(e.fields) /\ \A i \in DOMAIN e.fields : IsField(e.fields[i])
    BY DEF IsEntry
  <2> QED
    BY <2>1, FieldTextsAre DEF IsEntry, IsGap, IsFreeOf
<1>2. a4 = EntryText(e)
  BY DEF EntryText, FieldTexts
<1> HIDE DEF flat
<1>3. IsSequence(a0) /\ Len(a0) = 1
  BY OneToken
<1>4. IsSequence(a1) /\ Len(a1) = Len(a0) + Len(e.name) /\ Len(e.name) \in Nat
  <2> HIDE DEF a0
  <2> QED
    BY <1>1, <1>3, Concatenated
<1>5. IsSequence(a2) /\ Len(a2) = Len(a1) + 1
  <2> HIDE DEF a1
  <2> QED
    BY <1>4, OneMore
<1>6. IsSequence(a3) /\ Len(a3) = Len(a2) + Len(flat) /\ Len(flat) \in Nat
  <2> HIDE DEF a2
  <2> QED
    BY <1>1, <1>5, Concatenated
<1>7. IsSequence(a4) /\ Len(a4) = Len(a3) + Len(e.gap) /\ Len(e.gap) \in Nat
  <2> HIDE DEF a3
  <2> QED
    BY <1>1, <1>6, Concatenated
<1>8. Lies(text, k, a3) /\ Lies(text, k + Len(a3), e.gap)
  <2>1. Lies(text, k, a4)
    BY <1>2
  <2> HIDE DEF a3
  <2> QED
    BY <1>1, <1>6, <2>1, LiesInParts
<1>9. Lies(text, k, a2) /\ Lies(text, k + Len(a2), flat)
  <2> HIDE DEF a2
  <2> QED
    BY <1>1, <1>5, <1>8, LiesInParts
<1>10. Lies(text, k, a1) /\ At(text, k + Len(a1) + 1, "]")
  <2> HIDE DEF a1
  <2> QED
    BY <1>4, <1>9, LiesAndOne
<1>11. Lies(text, k, a0) /\ Lies(text, k + Len(a0), e.name)
  <2> HIDE DEF a0
  <2> QED
    BY <1>1, <1>3, <1>10, LiesInParts
<1>12. At(text, k + 1, "[")
  BY <1>11, OneLies
<1> HIDE DEF a0, a1, a2, a3, a4
<1>13. PICK m \in Nat, t \in Nat, g \in Nat : m = Len(e.name) /\ t = Len(flat) /\ g = Len(e.gap)
  BY <1>4, <1>6, <1>7
<1>14. PICK n1, n2, n3, n4 : n1 = Len(a1) /\ n2 = Len(a2) /\ n3 = Len(a3) /\ n4 = Len(a4)
  OBVIOUS
<1>15. n1 = 1 + m /\ n2 = n1 + 1 /\ n3 = n2 + t /\ n4 = n3 + g
  BY <1>3, <1>4, <1>5, <1>6, <1>7, <1>13, <1>14, Zenon
<1>16. k + n1 = k + 1 + m /\ k + n2 = k + 1 + m + 1 /\ k + n3 = k + 1 + m + 1 + t
       /\ k + n4 = k + 1 + m + 1 + t + g
  BY <1>15, EntrySums
<1> QED
  <2>1. Lies(text, k + 1, e.name)
    BY <1>3, <1>11, Zenon
  <2>2. At(text, k + 1 + m + 1, "]")
    BY <1>10, <1>14, <1>16, Zenon
  <2>3. Lies(text, k + 1 + m + 1, flat) /\ Lies(text, k + 1 + m + 1 + t, e.gap)
    BY <1>8, <1>9, <1>14, <1>16, Zenon
  <2>4. k + Len(EntryText(e)) = k + 1 + m + 1 + t + g
    BY <1>2, <1>14, <1>16, Zenon
  <2> QED
    BY <1>12, <1>13, <2>1, <2>2, <2>3, <2>4, Zenon DEF flat

\* What sstr_create copies is what sstr_data shows.
LEMMA NameText ==
  ASSUME NEW T, {Nul, Raw} \subseteq T, NEW text \in Seq(T), NEW i \in Nat, NEW name, IsSequence(name),
         i + Len(name) <= Len(text), \A j \in 1 .. Len(name) : text[i + j] = name[j]
  PROVE  sstr_text(sstr_create(text, i + 1, Len(name))) = name
<1> DEFINE n == Len(name)
           cells == CellsOf(text, i + 1, n)
<1>1. n \in Nat /\ Len(text) \in Nat
  BY DEF IsSequence
<1>2. \A j \in 1 .. n : i + 1 + j - 1 = i + j /\ i + j <= Len(text)
  BY <1>1
<1>3. cells = [j \in 1 .. n |-> name[j]]
  BY <1>1, <1>2 DEF CellsOf
<1>4. cells = name
  BY <1>1, <1>3 DEF IsSequence
<1>5. sstr_create(text, i + 1, n) = [length |-> Len(name \o <<Nul>>), data |-> name \o <<Nul>>]
  BY <1>4 DEF sstr_create, buf_create
<1> HIDE DEF n, cells
<1>6. Len(name \o <<Nul>>) = n + 1
  BY OneMore DEF n
<1>7. sstr_text(sstr_create(text, i + 1, n)) = SubSeq(name \o <<Nul>>, 1, n)
  <2> DEFINE cs == name \o <<Nul>>
             ss == sstr_create(text, i + 1, n)
  <2>1. ss = [length |-> Len(cs), data |-> cs] /\ Len(cs) = n + 1
    BY <1>5, <1>6
  <2> HIDE DEF cs, ss
  <2>2. ss.length = n + 1 /\ ss.data = cs
    BY <2>1
  <2>3. sstr_length(ss) = n
    BY <1>1, <2>2 DEF sstr_length
  <2>4. sstr_text(ss) = SubSeq(cs, 1, n)
    BY <2>2, <2>3, Zenon DEF sstr_text
  <2> QED
    BY <2>4 DEF cs, ss
<1>8. SubSeq(name \o <<Nul>>, 1, n) = name
  <2> DEFINE U == Range(name) \cup {Nul}
  <2>1. name \in Seq(Range(name)) /\ Range(name) \subseteq U
    BY DEF IsSequence
  <2> HIDE DEF U
  <2>2. name \in Seq(U)
    BY <2>1, SeqOfMore
  <2>3. Nul \in U
    BY DEF U
  <2> QED
    BY <2>2, <2>3 DEF n
<1> QED
  BY <1>7, <1>8 DEF n

LEMMA EntriesOfOneMore ==
  ASSUME NEW S, NEW c \in Seq(S), NEW name, NEW fields
  PROVE  EntriesOf(Append(c, [name |-> name, fields |-> fields])) =
           Append(EntriesOf(c), [name |-> sstr_text(name), fields |-> fields])
<1> DEFINE e == [name |-> name, fields |-> fields]
           g(x) == [name |-> sstr_text(x.name), fields |-> x.fields]
           d == Append(c, e)
           U == S \cup {e}
           V == {g(x) : x \in U}
<1>1. c \in Seq(U) /\ e \in U
  BY SeqOfMore
<1>2. g(e) = [name |-> sstr_text(name), fields |-> fields]
  OBVIOUS
<1>3. EntriesOf(d) = [i \in DOMAIN d |-> g(d[i])] /\ EntriesOf(c) = [i \in DOMAIN c |-> g(c[i])]
  BY DEF EntriesOf
<1>4. \A x \in U : g(x) \in V
  OBVIOUS
<1> HIDE DEF e, g, U, V
<1>5. [i \in DOMAIN d |-> g(d[i])] = Append([i \in DOMAIN c |-> g(c[i])], g(e))
  <2> DEFINE a == [i \in DOMAIN c |-> g(c[i])]
             b == Append(a, g(e))
  <2>1. Len(c) \in Nat /\ DOMAIN c = 1 .. Len(c)
    BY <1>1
  <2>2. DOMAIN d = 1 .. Len(c) + 1 /\ d[Len(c) + 1] = e /\ \A i \in 1 .. Len(c) : d[i] = c[i]
    BY <1>1
  <2>3. a \in Seq(V) /\ Len(a) = Len(c) /\ \A i \in 1 .. Len(c) : a[i] = g(c[i])
    BY <1>1, <1>4
  <2> HIDE DEF a
  <2>4. b \in Seq(V) /\ Len(b) = Len(c) + 1
    BY <1>1, <1>4, <2>3
  <2>5. \A i \in 1 .. Len(c) + 1 : b[i] = g(d[i])
    <3> SUFFICES ASSUME NEW i \in 1 .. Len(c) + 1
                 PROVE  b[i] = g(d[i])
      OBVIOUS
    <3>1. CASE i = Len(c) + 1
      <4>1. b[i] = g(e)
        BY <1>1, <1>4, <2>3, <3>1
      <4>2. d[i] = e
        BY <2>2, <3>1
      <4> QED
        BY <4>1, <4>2, Zenon
    <3>2. CASE i \in 1 .. Len(c)
      <4>1. b[i] = a[i]
        BY <1>1, <1>4, <2>3, <3>2
      <4> QED
        BY <2>2, <2>3, <3>2, <4>1
    <3>3. i = Len(c) + 1 \/ i \in 1 .. Len(c)
      BY <2>1
    <3> QED
      BY <3>1, <3>2, <3>3, Zenon
  <2> HIDE DEF b, d
  <2>6. b = [i \in DOMAIN d |-> g(d[i])]
    BY <2>1, <2>2, <2>4, <2>5
  <2> QED
    BY <2>6 DEF a, b
<1> QED
  BY <1>2, <1>3, <1>5 DEF d, e

\* An entry is listed behind those before it, as it was meant.
LEMMA ReadsEntry ==
  ASSUME NEW f, NEW text, NEW k, ReadTo(f, text, k), f[k].state \in {"Start", "Label"},
         NEW e, IsEntry(e), Lies(text, k, EntryText(e))
  PROVE  LET l == k + Len(EntryText(e)) IN
         /\ ReadTo(f, text, l) /\ f[l].state = "Label"
         /\ EntriesOf(f[l].content) = Append(EntriesOf(f[k].content), MeantEntry(e))
<1> DEFINE flat == FlattenSeq(FieldTexts(e.fields))
           k1 == k + 1 + Len(e.name)
           k2 == k1 + 1 + Len(flat)
           c == f[k].content
           S == EntriesOver(Tokens(text))
           ss == sstr_create(f[k1].text, f[k1].str, f[k1].len)
<1>1. k \in Nat /\ IsSequence(text) /\ Parsing(f[k], Tokens(text), Len(text))
  BY DEF ReadTo
<1>2. c \in Seq(S)
  BY <1>1 DEF Parsing
<1>3. /\ At(text, k + 1, "[") /\ Lies(text, k + 1, e.name) /\ At(text, k1 + 1, "]")
      /\ Lies(text, k1 + 1, flat) /\ Lies(text, k2, e.gap)
      /\ k + Len(EntryText(e)) = k2 + Len(e.gap)
  <2>1. /\ At(text, k + 1, "[") /\ Lies(text, k + 1, e.name) /\ At(text, k1 + 1, "]")
    BY <1>1, EntryLies
  <2>2. Lies(text, k1 + 1, flat) /\ Lies(text, k2, e.gap)
    BY <1>1, EntryLies
  <2>3. k + Len(EntryText(e)) = k2 + Len(e.gap)
    BY <1>1, EntryLies
  <2> QED
    BY <2>1, <2>2, <2>3
<1> HIDE DEF c, S, flat
<1>4. /\ ReadTo(f, text, k + 1) /\ f[k + 1].state = "Tag"
      /\ f[k + 1].str = 0 /\ f[k + 1].len = 0 /\ f[k + 1].content = c
  BY <1>3, BracketAt DEF c
<1>5. /\ ReadTo(f, text, k1) /\ SameEntry(f[k + 1], f[k1])
      /\ f[k1].str = k + 1 + 1 /\ f[k1].len = Len(e.name)
  <2>1. e.name # <<>> /\ e.name[1] \in Words /\ "]" \notin Range(e.name)
    BY DEF IsEntry, IsFreeOf
  <2> QED
    BY <1>3, <1>4, <2>1, ReadsName
<1>6. sstr_text(ss) = e.name
  <2> DEFINE T == Tokens(text)
             t == f[k + 1].text
  <2>1. {Nul, Raw} \subseteq T
    BY DEF Tokens
  <2>2. Parsing(f[k + 1], T, Len(text)) /\ k + 1 \in Nat
    BY <1>1, <1>4 DEF ReadTo
  <2>3. t \in Seq(T) /\ Len(t) = Len(text)
    BY <2>2 DEF Parsing
  <2>4. IsSequence(e.name) /\ k + 1 + Len(e.name) <= Len(t)
    BY <1>3, <2>3 DEF Lies
  <2>5. ASSUME NEW j \in 1 .. Len(e.name)
        PROVE  t[k + 1 + j] = e.name[j]
    <3>1. text[k + 1 + j] = e.name[j]
      BY <1>3 DEF Lies
    <3>2. k + 1 + j \in k + 1 + 1 .. Len(text)
      <4>1. PICK k0 \in Nat, m \in Nat, n \in Nat : k0 = k /\ m = Len(e.name) /\ n = Len(text)
        <5>1. k \in Nat /\ Len(e.name) \in Nat /\ Len(text) \in Nat
          BY <1>1, <2>4 DEF IsSequence
        <5> QED
          BY <5>1, Zenon
      <4>2. k0 + 1 + m <= n /\ j \in 1 .. m
        BY <2>3, <2>4, <4>1
      <4>3. k0 + 1 + j \in k0 + 1 + 1 .. n
        BY <4>2
      <4> QED
        BY <4>1, <4>3, Zenon
    <3> QED
      BY <1>4, <3>1, <3>2 DEF ReadTo
  <2> HIDE DEF T, t
  <2>6. sstr_text(sstr_create(t, k + 1 + 1, Len(e.name))) = e.name
    BY <2>1, <2>2, <2>3, <2>4, <2>5, NameText
  <2>7. ss = sstr_create(t, k + 1 + 1, Len(e.name))
    BY <1>5 DEF t, SameEntry
  <2> QED
    BY <2>6, <2>7
<1> HIDE DEF k1
<1>7. /\ ReadTo(f, text, k1 + 1) /\ f[k1 + 1].state = "Label"
      /\ f[k1 + 1].content = Append(c, [name |-> ss, fields |-> <<>>])
  <2>1. f[k1].state = "Tag" /\ f[k1].str # 0 /\ f[k1].content = c
    BY <1>1, <1>4, <1>5 DEF SameEntry
  <2>2. /\ ReadTo(f, text, k1 + 1) /\ f[k1 + 1].state = "Label"
        /\ f[k1 + 1].content = Append(f[k1].content, [name |-> ss, fields |-> <<>>])
    BY <1>3, <1>5, <2>1, CloseAt
  <2> QED
    BY <2>1, <2>2
<1> HIDE DEF ss
<1>8. /\ ReadTo(f, text, k2) /\ f[k2].state = "Label"
      /\ f[k2].content = Append(c, [name |-> ss, fields |-> MeantFields(e.fields, Len(e.fields))])
  <2>1. IsSequence(e.fields) /\ \A i \in DOMAIN e.fields : IsField(e.fields[i])
    BY DEF IsEntry
  <2> QED
    BY <1>2, <1>3, <1>7, <2>1, ReadsFields DEF flat
<1> HIDE DEF k2
<1>9. f[k2 + Len(e.gap)] = f[k2] /\ ReadTo(f, text, k2 + Len(e.gap))
  <2>1. IsGap(e.gap)
    BY DEF IsEntry
  <2> QED
    BY <1>3, <1>8, <2>1, PassesGap
<1>10. EntriesOf(f[k2].content) = Append(EntriesOf(c), MeantEntry(e))
  <2>1. EntriesOf(f[k2].content) =
          Append(EntriesOf(c), [name |-> sstr_text(ss), fields |-> MeantFields(e.fields, Len(e.fields))])
    BY <1>2, <1>8, EntriesOfOneMore
  <2>2. MeantEntry(e) = [name |-> e.name, fields |-> MeantFields(e.fields, Len(e.fields))]
    <3>1. DOMAIN e.fields = 1 .. Len(e.fields)
      BY DEF IsEntry, IsSequence
    <3> QED
      BY <3>1 DEF MeantEntry, MeantFields
  <2> QED
    BY <1>6, <2>1, <2>2
<1> QED
  BY <1>3, <1>8, <1>9, <1>10 DEF c

LEMMA EntryIsSequence ==
  ASSUME NEW e, IsEntry(e)
  PROVE  IsSequence(EntryText(e))
<1> DEFINE flat == FlattenSeq(FieldTexts(e.fields))
           a0 == <<"[">>
           a1 == a0 \o e.name
           a2 == a1 \o <<"]">>
           a3 == a2 \o flat
<1>1. IsSequence(e.name) /\ IsSequence(flat) /\ IsSequence(e.gap)
  <2>1. IsSequence(e.fields) /\ \A i \in DOMAIN e.fields : IsField(e.fields[i])
    BY DEF IsEntry
  <2> QED
    BY <2>1, FieldTextsAre DEF IsEntry, IsGap, IsFreeOf
<1>2. EntryText(e) = a3 \o e.gap
  BY DEF EntryText, FieldTexts
<1> HIDE DEF flat
<1>3. IsSequence(a0)
  BY OneToken
<1>4. IsSequence(a1)
  <2> HIDE DEF a0
  <2> QED
    BY <1>1, <1>3, Concatenated
<1>5. IsSequence(a2)
  <2> HIDE DEF a1
  <2> QED
    BY <1>4, OneMore
<1>6. IsSequence(a3)
  <2> HIDE DEF a2
  <2> QED
    BY <1>1, <1>5, Concatenated
<1> HIDE DEF a3
<1> QED
  BY <1>1, <1>2, <1>6, Concatenated

EntryTexts(entries) == [i \in DOMAIN entries |-> EntryText(entries[i])]
MeantEntries(entries, j) == [i \in 1 .. j |-> MeantEntry(entries[i])]

LEMMA MeantEntriesNext ==
  ASSUME NEW entries, NEW j \in Nat
  PROVE  /\ MeantEntries(entries, 0) = <<>>
         /\ MeantEntries(entries, j + 1) = Append(MeantEntries(entries, j), MeantEntry(entries[j + 1]))
<1> DEFINE d == [i \in 1 .. j + 1 |-> MeantEntry(entries[i])]
<1>1. d[j + 1] = MeantEntry(entries[j + 1])
  OBVIOUS
<1>2. FirstOf(d, j) = MeantEntries(entries, j) /\ FirstOf(d, j + 1) = MeantEntries(entries, j + 1)
  BY DEF FirstOf, MeantEntries
<1> HIDE DEF d
<1>3. MeantEntries(entries, 0) = <<>>
  BY DEF MeantEntries
<1> QED
  BY <1>1, <1>2, <1>3, OneMoreOf

LEMMA EntryTextsAre ==
  ASSUME NEW entries, IsSequence(entries), \A i \in DOMAIN entries : IsEntry(entries[i])
  PROVE  LET d == EntryTexts(entries) IN
         /\ IsSequence(d) /\ Len(d) = Len(entries)
         /\ \A i \in 1 .. Len(entries) : d[i] = EntryText(entries[i])
         /\ \A i \in DOMAIN d : IsSequence(d[i])
         /\ IsSequence(FlattenSeq(d))
<1> DEFINE d == EntryTexts(entries)
           n == Len(entries)
<1>1. n \in Nat /\ DOMAIN entries = 1 .. n
  BY DEF IsSequence
<1>2. d = [i \in 1 .. n |-> d[i]] /\ \A i \in 1 .. n : d[i] = EntryText(entries[i])
  BY <1>1 DEF EntryTexts
<1>3. \A i \in 1 .. n : IsSequence(d[i])
  BY <1>1, <1>2, EntryIsSequence
<1> HIDE DEF d, n
<1> QED
  BY <1>1, <1>2, <1>3, AllSequences DEF d, n

\* Entries are listed in the order they are typed in.
LEMMA ReadsEntries ==
  ASSUME NEW f, NEW text, NEW k, ReadTo(f, text, k), f[k].state = "Start", f[k].content = <<>>,
         NEW entries, IsSequence(entries), \A i \in DOMAIN entries : IsEntry(entries[i]),
         Lies(text, k, FlattenSeq(EntryTexts(entries)))
  PROVE  LET l == k + Len(FlattenSeq(EntryTexts(entries))) IN
         EntriesOf(f[l].content) = MeantEntries(entries, Len(entries))
<1> DEFINE d == EntryTexts(entries)
           n == Len(entries)
           pos(j) == k + Len(Texts(d, j))
           Fits(l, j) ==
             /\ ReadTo(f, text, l) /\ f[l].state \in {"Start", "Label"}
             /\ EntriesOf(f[l].content) = MeantEntries(entries, j)
           T == {j \in 0 .. n : Fits(pos(j), j)}
<1>1. n \in Nat /\ DOMAIN entries = 1 .. n /\ k \in Nat /\ IsSequence(text)
  BY DEF IsSequence, ReadTo
<1>2. IsSequence(d) /\ Len(d) = n /\ \A i \in 1 .. n : d[i] = EntryText(entries[i])
  BY EntryTextsAre
<1>3. \A i \in DOMAIN d : IsSequence(d[i])
  BY EntryTextsAre
<1> HIDE DEF d, n
<1>4. 0 \in T
  <2>1. Texts(d, 0) = <<>>
    BY <1>2, <1>3, TextsNext
  <2>2. pos(0) = k
    BY <1>1, <2>1
  <2>3. MeantEntries(entries, 0) = <<>> /\ EntriesOf(<<>>) = <<>>
    BY MeantEntriesNext DEF EntriesOf
  <2>4. Fits(k, 0)
    BY <2>3
  <2> HIDE DEF Fits, pos
  <2> QED
    BY <1>1, <2>2, <2>4
<1>5. ASSUME NEW j \in 0 .. n - 1, j \in T
      PROVE  j + 1 \in T
  <2> DEFINE e == entries[j + 1]
  <2>1. j \in Nat /\ j + 1 \in 1 .. n /\ j + 1 \in 0 .. n
    BY <1>1
  <2>2. IsEntry(e) /\ d[j + 1] = EntryText(e)
    BY <1>1, <1>2, <2>1
  <2>3. /\ Lies(text, k + Len(Texts(d, j)), d[j + 1])
        /\ Len(Texts(d, j + 1)) = Len(Texts(d, j)) + Len(d[j + 1])
        /\ Len(Texts(d, j)) \in Nat /\ Len(d[j + 1]) \in Nat
    <3>1. Lies(text, k, FlattenSeq(d))
      BY DEF d
    <3>2. j \in 0 .. Len(d) - 1 /\ j \in 0 .. Len(d) /\ j + 1 \in DOMAIN d
      BY <1>1, <1>2, <2>1 DEF IsSequence
    <3>3. IsSequence(Texts(d, j)) /\ IsSequence(d[j + 1])
      BY <1>2, <1>3, <3>2, TextsNext
    <3>4. /\ Lies(text, k + Len(Texts(d, j)), d[j + 1])
          /\ Len(Texts(d, j + 1)) = Len(Texts(d, j)) + Len(d[j + 1])
      BY <1>1, <1>2, <1>3, <3>1, <3>2, TextsLie
    <3> QED
      BY <3>3, <3>4 DEF IsSequence
  <2>4. pos(j + 1) = pos(j) + Len(EntryText(e))
    <3>1. k + Len(Texts(d, j + 1)) = k + Len(Texts(d, j)) + Len(d[j + 1])
      <4>1. PICK a \in Nat, b \in Nat, c0 \in Nat :
              a = Len(Texts(d, j)) /\ b = Len(d[j + 1]) /\ c0 = Len(Texts(d, j + 1)) /\ c0 = a + b
        BY <2>3
      <4>2. PICK k0 \in Nat : k0 = k
        BY <1>1
      <4>3. c0 = a + b
        BY <4>1
      <4>4. k0 + c0 = k0 + a + b
        BY <4>3, Further
      <4> QED
        BY <4>1, <4>2, <4>4, Zenon
    <3> QED
      BY <2>2, <3>1, Zenon
  <2>5. Fits(pos(j), j) /\ Lies(text, pos(j), EntryText(e))
    BY <1>5, <2>2, <2>3
  <2> HIDE DEF pos, e
  <2>6. /\ ReadTo(f, text, pos(j + 1)) /\ f[pos(j + 1)].state = "Label"
        /\ EntriesOf(f[pos(j + 1)].content) = Append(EntriesOf(f[pos(j)].content), MeantEntry(e))
    <3>1. PICK l : l = pos(j)
      OBVIOUS
    <3>2. ReadTo(f, text, l) /\ f[l].state \in {"Start", "Label"} /\ Lies(text, l, EntryText(e)) /\ IsEntry(e)
      BY <2>2, <2>5, <3>1, Zenon
    <3>3. LET m == l + Len(EntryText(e)) IN
          /\ ReadTo(f, text, m) /\ f[m].state = "Label"
          /\ EntriesOf(f[m].content) = Append(EntriesOf(f[l].content), MeantEntry(e))
      BY <3>2, ReadsEntry
    <3> QED
      BY <2>4, <3>1, <3>3, Zenon
  <2>7. EntriesOf(f[pos(j + 1)].content) = MeantEntries(entries, j + 1)
    <3>1. MeantEntries(entries, j + 1) = Append(MeantEntries(entries, j), MeantEntry(e))
      BY <2>1, MeantEntriesNext DEF e
    <3> QED
      BY <2>5, <2>6, <3>1
  <2>8. Fits(pos(j + 1), j + 1)
    BY <2>6, <2>7
  <2> HIDE DEF Fits
  <2> QED
    BY <2>1, <2>8
<1> HIDE DEF T, Fits, pos
<1>6. 0 .. n \subseteq T
  BY <1>1, <1>4, <1>5, InductionUpTo
<1>7. Fits(pos(n), n)
  BY <1>1, <1>6 DEF T
<1>8. Texts(d, n) = FlattenSeq(d)
  BY <1>2, <1>3, TextsNext
<1> QED
  BY <1>7, <1>8 DEF Fits, pos, n, d

\* parse_file reads every document as its writer meant it, also behind other text
\* that has no bracket: each name without what is around it, each label in lower
\* case, each value with its lines joined and without backslashes and leading
\* spaces, nothing left out and nothing added.  Where the document lists nothing
\* the text still has no bracket.
THEOREM ReadsDocument ==
  ASSUME NEW pre, IsSequence(pre), "[" \notin Range(pre), NEW d, IsDocument(d)
  PROVE  LET p == parse_file(pre \o DocumentText(d)) IN
         EntriesOf(p.content) = Meant(d) /\ (Meant(d) = <<>> => "[" \notin Range(p.text))
<1> DEFINE flat == FlattenSeq(EntryTexts(d.entries))
           rest == d.skipped \o flat
           text == pre \o rest
           k1 == 0 + Len(pre)
           k2 == k1 + Len(d.skipped)
<1>1. /\ IsSequence(d.skipped) /\ "[" \notin Range(d.skipped)
      /\ IsSequence(d.entries) /\ \A i \in DOMAIN d.entries : IsEntry(d.entries[i])
  BY DEF IsDocument, IsFreeOf
<1>2. IsSequence(flat)
  BY <1>1, EntryTextsAre
<1>3. DocumentText(d) = rest
  BY DEF DocumentText, EntryTexts
<1> HIDE DEF flat
<1>4. IsSequence(rest) /\ Len(rest) = Len(d.skipped) + Len(flat) /\ Len(d.skipped) \in Nat /\ Len(flat) \in Nat
  BY <1>1, <1>2, Concatenated
<1> HIDE DEF rest
<1>5. IsSequence(text) /\ Len(text) = Len(pre) + Len(rest) /\ Len(pre) \in Nat
  BY <1>4, Concatenated
<1> HIDE DEF text
<1>6. Lies(text, 0, text)
  <2>1. Len(text) \in Nat
    BY <1>5 DEF IsSequence
  <2>2. \A i \in 1 .. Len(text) : 0 + i = i
    OBVIOUS
  <2> QED
    BY <1>5, <2>1, <2>2 DEF Lies
<1>7. Lies(text, 0, pre) /\ Lies(text, k1, rest) /\ k1 \in Nat
  <2>1. Lies(text, 0, pre \o rest) /\ 0 \in Nat
    BY <1>6 DEF text
  <2> QED
    BY <1>4, <1>5, <2>1, LiesInParts
<1> HIDE DEF k1
<1>8. Lies(text, k1, d.skipped) /\ Lies(text, k2, flat) /\ k2 \in Nat
  <2>1. Lies(text, k1, d.skipped \o flat)
    BY <1>7 DEF rest
  <2> QED
    BY <1>1, <1>2, <1>5, <1>7, <2>1, LiesInParts
<1>9. PICK f : /\ Parses(f, text) /\ parse_file(text) = f[Len(text)]
               /\ \A i \in 0 .. Len(text) : Parsing(f[i], Tokens(text), Len(text))
  BY <1>5, ParsedBy
<1>10. f[0] = parse_init(text)
  BY <1>4, <1>5, <1>9 DEF Parses
<1>11. f[0].state = "Start" /\ f[0].text = text /\ f[0].content = <<>>
  <2>1. LET p == parse_init(text) IN p.state = "Start" /\ p.text = text /\ p.content = <<>>
    BY DEF parse_init
  <2> QED
    BY <1>10, <2>1, Zenon
<1>12. ReadTo(f, text, 0)
  <2>1. 0 \in 0 .. Len(text)
    BY <1>4, <1>5
  <2> QED
    BY <1>5, <1>9, <1>11, <2>1 DEF ReadTo
<1>13. ASSUME NEW p, p.state = "Start", NEW i, p.text[i] # "["
       PROVE  Advance(p, i) = p
  BY <1>13 DEF Advance, parse_skip_until
<1>14. f[k1] = f[0] /\ ReadTo(f, text, k1)
  <2>1. \A i \in 1 .. Len(text) : f[0].text[i] \in Range(pre) => Advance(f[0], i) = f[0]
    BY <1>11, <1>13
  <2> QED
    BY <1>7, <1>12, <2>1, PassesOver DEF k1
<1>15. f[k2] = f[0] /\ ReadTo(f, text, k2)
  <2>1. \A i \in 1 .. Len(text) : f[k1].text[i] \in Range(d.skipped) => Advance(f[k1], i) = f[k1]
    BY <1>1, <1>11, <1>13, <1>14
  <2> QED
    BY <1>8, <1>14, <2>1, PassesOver
<1>16. k2 + Len(flat) = Len(text)
  BY <1>4, <1>5 DEF k1
<1> HIDE DEF k2
<1>17. EntriesOf(f[Len(text)].content) = MeantEntries(d.entries, Len(d.entries))
  <2>1. LET l == k2 + Len(FlattenSeq(EntryTexts(d.entries))) IN
        EntriesOf(f[l].content) = MeantEntries(d.entries, Len(d.entries))
    BY <1>1, <1>8, <1>11, <1>15, ReadsEntries DEF flat
  <2> QED
    BY <1>16, <2>1 DEF flat
<1>18. MeantEntries(d.entries, Len(d.entries)) = Meant(d)
  BY <1>1 DEF MeantEntries, Meant, IsSequence
<1>19. ASSUME Meant(d) = <<>>
       PROVE  "[" \notin Range(parse_file(text).text)
  <2>1. DOMAIN Meant(d) = DOMAIN d.entries
    BY DEF Meant
  <2>2. DOMAIN d.entries = {}
    <3>1. DOMAIN <<>> = {}
      OBVIOUS
    <3> QED
      BY <1>19, <2>1, <3>1, Zenon
  <2>3. EntryTexts(d.entries) = <<>>
    BY <2>2 DEF EntryTexts
  <2>4. flat = <<>>
    BY <2>3 DEF flat, FlattenSeq
  <2>5. k2 = Len(text)
    BY <1>16, <1>8, <2>4
  <2>6. parse_file(text).text = text
    BY <1>9, <1>11, <1>15, <2>5
  <2>7. "[" \notin Range(text)
    <3> DEFINE S == Range(pre) \cup Range(d.skipped)
    <3>1. Range(pre) \subseteq S /\ Range(d.skipped) \subseteq S /\ "[" \notin S
      BY <1>1
    <3> HIDE DEF S
    <3>2. pre \in Seq(S) /\ d.skipped \in Seq(S) /\ flat \in Seq(S)
      BY <1>1, <2>4, <3>1, SeqOfMore DEF IsSequence
    <3>3. rest \in Seq(S)
      BY <1>1, <1>2, <3>2, Concatenated DEF rest
    <3>4. text \in Seq(S)
      BY <1>4, <3>2, <3>3, Concatenated DEF text
    <3> QED
      BY <3>1, <3>4 DEF Range
  <2> QED
    BY <2>6, <2>7
<1> QED
  BY <1>3, <1>9, <1>17, <1>18, <1>19 DEF text

(***************************************************************************)
(* The database                                                            *)
(***************************************************************************)
Whole == file.tables = Tables /\ file.rows # <<>>

DbInv ==
  /\ conn.at \in {"closed", "creating", "open"}
  /\ conn.at # "open" => conn.rc = "none"
  /\ conn.at = "creating" => file.exists /\ (conn.pending # <<>> => file.tables = Tables)
  /\ file.exists /\ conn.at # "creating" => Whole \/ cut
  /\ conn.rc = "None" => Whole \/ cut
  /\ DOMAIN conn = {"at", "rc", "usable", "pending"}
  /\ DOMAIN file = {"exists", "tables", "rows"}

LEMMA DbInitInv == DbInit(Databases) => DbInv
<1> SUFFICES ASSUME DbInit(Databases)
             PROVE  DbInv
  OBVIOUS
<1>1. conn.at = "closed" /\ conn.rc = "none" /\ DOMAIN conn = {"at", "rc", "usable", "pending"}
  BY DEF DbInit, NoConn
<1>2. CASE file = NoFile
  BY <1>1, <1>2 DEF DbInv, NoFile
<1>3. CASE file = WithRows(file.rows) /\ file.rows # <<>>
  BY <1>1, <1>3 DEF DbInv, WithRows, Whole
<1> QED
  BY <1>2, <1>3, ProgramAssumption DEF ProgramAssumption, DbInit

LEMMA DbStep ==
  ASSUME DbInv, DbNext \/ ProcessEnds \/ UNCHANGED dbVars
  PROVE  DbInv'
<1> USE DEF DbInv, Whole, DbReturns
<1>1. CASE OpenExisting \/ OpenFails \/ OpenAgain
  BY <1>1 DEF OpenExisting, OpenFails, OpenAgain
<1>2. CASE CreateFile
  <2>1. /\ conn'.at = "creating" /\ conn'.rc = "none" /\ conn'.pending = <<>>
        /\ DOMAIN conn' = {"at", "rc", "usable", "pending"}
    BY <1>2 DEF CreateFile, NoConn
  <2> QED
    BY <1>2, <2>1 DEF CreateFile
<1>3. CASE NoSchema \/ StatementFails
  <2>1. conn'.at = "open" /\ DOMAIN conn' = {"at", "rc", "usable", "pending"}
    BY <1>3 DEF NoSchema, StatementFails
  <2>2. cut' /\ file' = file
    BY <1>3 DEF NoSchema, StatementFails
  <2> QED
    BY <2>1, <2>2
<1>4. CASE CreateTable
  BY <1>4, DbAssumption DEF CreateTable, DbAssumption
<1>5. CASE InsertUrls
  BY <1>5 DEF InsertUrls
<1>6. CASE Commit
  BY <1>6 DEF Commit
<1>7. CASE ProcessEnds
  BY <1>7 DEF ProcessEnds, NoConn
<1>8. CASE UNCHANGED dbVars
  BY <1>8 DEF dbVars
<1> QED
  BY <1>1, <1>2, <1>3, <1>4, <1>5, <1>6, <1>7, <1>8 DEF DbNext

\* What main does with the database in one step.
LEMMA DbMoves == [Next]_vars => DbNext \/ ProcessEnds \/ UNCHANGED dbVars
BY DEF Next, vars, StartBlob, CreateBlob, StartDownload, OpenDb, DbOpened, Download, Report, AskForPatch,
   End, Crash

THEOREM DbInvariant == Spec => []DbInv
<1>1. Init => DbInv
  BY DbInitInv DEF Init
<1>2. DbInv /\ [Next]_vars => DbInv'
  BY DbStep, DbMoves
<1> QED
  BY <1>1, <1>2, PTL DEF Spec

\* When db_init reports success the database has its tables and a url, however
\* often the program has been killed, except where a start was cut short while
\* it was creating the file.
THEOREM SuccessMeansWhole == Spec => []SuccessIsWhole
<1>1. DbInv => SuccessIsWhole
  BY DEF DbInv, Whole, SuccessIsWhole
<1> QED
  BY <1>1, DbInvariant, PTL

(***************************************************************************)
(* The manifest entries                                                    *)
(***************************************************************************)
\* The parser has entries only between parse_file and parse_deinit.
Owned ==
  /\ at \notin {"parsed", "kept"} => content = <<>>
  /\ at = "idle" => patches = <<>>

\* An entry is numbered by the row it was parsed for; those kept are of earlier
\* rows than the one that is downloaded.
Numbered ==
  /\ row \in Nat /\ DOMAIN arr = {"patches", "content"}
  /\ \A id \in IdsOf(patches) \cup IdsOf(content) : id[1] \in 0 .. row
  /\ at = "performing" => \A id \in IdsOf(patches) : id[1] < row

EntriesInv == OwnedOnce /\ Owned /\ Numbered

\* What main is doing and where it is in the parts.
PhaseInv ==
  /\ phase \in {"ended", "blob", "db"} => at = "idle"
  /\ phase = "reported" => at = "returned"
  /\ step # "ready" => phase = "blob"

LEMMA NoIds == IdsOf(<<>>) = {}
BY DEF IdsOf

\* The calls that touch neither array nor the entries.
LEMMA EntriesFrame ==
  ASSUME EntriesInv, UNCHANGED <<arr, live>>,
         row' \in {row, row + 1},
         at' = at \/ {at, at'} \cap {"parsed", "kept"} = {},
         at' = "idle" => at = "idle",
         at' = "performing" => row' = row + 1 \/ (at' = at /\ row' = row)
  PROVE  EntriesInv'
<1>1. patches' = patches /\ content' = content
  BY DEF patches, content
<1>2. IdsOf(patches)' = IdsOf(patches) /\ IdsOf(content)' = IdsOf(content)
  BY <1>1 DEF IdsOf
<1>3. OwnedOnce' /\ Owned'
  BY <1>1, <1>2 DEF EntriesInv, OwnedOnce, Owned
<1>4. Numbered'
  BY <1>2 DEF EntriesInv, Numbered
<1> QED
  BY <1>3, <1>4 DEF EntriesInv

\* Each call that changes an array keeps the entries owned once.
LEMMA PerformKeeps ==
  ASSUME EntriesInv, NEW rows, Perform(rows)
  PROVE  EntriesInv'
<1> DEFINE p == parse_file(accum \o served[rows[row]].text)
           entries == [i \in DOMAIN p.content |->
                         [id |-> <<row, i>>, name |-> p.content[i].name, fields |-> p.content[i].fields]]
<1>1. /\ at = "performing" /\ at' = "parsed" /\ UNCHANGED row
      /\ arr' = [arr EXCEPT !["content"] =
                   [items |-> entries, capacity |-> RoomPushed(Len(entries))]]
      /\ live' = live \cup {entries[i].id : i \in DOMAIN entries}
  BY DEF Perform, GoesTo
<1>e. \A i \in DOMAIN entries : entries[i].id = <<row, i>>
  OBVIOUS
<1> HIDE DEF entries
<1>2. \A id \in {entries[i].id : i \in DOMAIN entries} : id[1] = row
  BY <1>e
<1>3. patches' = patches /\ content' = entries /\ DOMAIN arr' = {"patches", "content"}
  BY <1>1 DEF EntriesInv, Numbered, patches, content
<1>4. IdsOf(content) = {}
  BY <1>1, NoIds DEF EntriesInv, Owned
<1>5. IdsOf(patches)' = IdsOf(patches) /\ IdsOf(content)' = {entries[i].id : i \in DOMAIN entries}
  BY <1>3 DEF IdsOf
<1>6. \A id \in IdsOf(patches) : id[1] \in 0 .. row /\ id[1] < row
  BY <1>1 DEF EntriesInv, Numbered
<1>7. IdsOf(patches)' \cap IdsOf(content)' = {}
  BY <1>2, <1>5, <1>6, <1>1 DEF EntriesInv, Numbered
<1>8. OwnedOnce'
  BY <1>1, <1>4, <1>5, <1>7 DEF EntriesInv, OwnedOnce
<1>9. Owned' /\ Numbered'
  BY <1>1, <1>2, <1>3, <1>5, <1>6 DEF EntriesInv, Owned, Numbered
<1> QED
  BY <1>8, <1>9 DEF EntriesInv

LEMMA KeepKeeps ==
  ASSUME EntriesInv, Keep
  PROVE  EntriesInv'
<1>1. at = "parsed" /\ at' = "kept" /\ UNCHANGED <<row, live>>
  BY DEF Keep, GoesTo
<1>2. DOMAIN arr = {"patches", "content"}
  BY DEF EntriesInv, Numbered
<1>3. CASE patches = <<>>
  <2>1. Array!TakeOwnership("patches", "content")
    BY <1>3 DEF Keep
  <2>2. /\ arr' = [arr EXCEPT !["patches"] = arr["content"], !["content"] = Array!NoData]
        /\ Array!NoData.items = <<>>
    BY <2>1 DEF Array!TakeOwnership, Array!NoData
  <2>3. patches' = content /\ content' = <<>> /\ DOMAIN arr' = {"patches", "content"}
    BY <1>2, <2>2 DEF patches, content
  <2>4. IdsOf(patches)' = IdsOf(content) /\ IdsOf(content)' = {} /\ IdsOf(patches) = {}
    BY <1>3, <2>3 DEF IdsOf
  <2>5. OwnedOnce'
    BY <1>1, <2>4 DEF EntriesInv, OwnedOnce
  <2> QED
    BY <1>1, <2>3, <2>4, <2>5 DEF EntriesInv, Owned, Numbered
<1>4. CASE patches # <<>>
  <2>1. Array!AppendArray("patches", "content")
    BY <1>4 DEF Keep
  <2>2. \E c : arr' = [arr EXCEPT !["patches"] = [items |-> arr["patches"].items, capacity |-> c]]
    BY <2>1 DEF Array!AppendArray, Array!Becomes
  <2>3. patches' = patches /\ content' = content /\ DOMAIN arr' = {"patches", "content"}
    BY <1>2, <2>2 DEF patches, content
  <2>4. IdsOf(patches)' = IdsOf(patches) /\ IdsOf(content)' = IdsOf(content)
    BY <2>3 DEF IdsOf
  <2>5. OwnedOnce'
    BY <1>1, <2>4 DEF EntriesInv, OwnedOnce
  <2> QED
    BY <1>1, <2>3, <2>4, <2>5 DEF EntriesInv, Owned, Numbered
<1> QED
  BY <1>3, <1>4

\* parse_deinit takes from the live entries those of the parser and no other.
LEMMA ParseDeinitKeeps ==
  ASSUME EntriesInv, parse_deinit, UNCHANGED row, at' \in {"stepping", "returned"}
  PROVE  EntriesInv'
<1>1. DOMAIN arr = {"patches", "content"} /\ Array!NoData.items = <<>>
  BY DEF EntriesInv, Numbered, Array!NoData
<1>2. live' = live \ IdsOf(content) /\ arr' = [arr EXCEPT !["content"] = Array!NoData]
  BY DEF parse_deinit, Array!Deinit
<1>3. patches' = patches /\ content' = <<>> /\ DOMAIN arr' = {"patches", "content"}
  BY <1>1, <1>2 DEF patches, content
<1>4. IdsOf(patches)' = IdsOf(patches) /\ IdsOf(content)' = {}
  BY <1>3 DEF IdsOf
<1>5. OwnedOnce'
  BY <1>2, <1>4 DEF EntriesInv, OwnedOnce
<1> QED
  BY <1>3, <1>4, <1>5 DEF EntriesInv, Owned, Numbered

\* The process ends, in order or killed.
LEMMA ForgetKeeps ==
  ASSUME EntriesInv, Forget, live' = {} \/ (Release /\ at \in {"idle", "returned"})
  PROVE  EntriesInv'
<1>1. IdsOf(content) = {} \/ live' = {}
  BY NoIds DEF EntriesInv, Owned
<1>2. live' = {}
  BY <1>1 DEF Release, EntriesInv, OwnedOnce
<1>3. /\ at' = "idle" /\ row' = 0
      /\ arr' = [a \in DOMAIN arr |-> Array!NoData] /\ Array!NoData.items = <<>>
  BY DEF Forget, Array!NoData
<1>4. patches' = <<>> /\ content' = <<>> /\ DOMAIN arr' = {"patches", "content"}
  BY <1>3 DEF EntriesInv, Numbered, patches, content
<1>5. IdsOf(patches)' = {} /\ IdsOf(content)' = {}
  BY <1>4 DEF IdsOf
<1> QED
  BY <1>2, <1>3, <1>4, <1>5 DEF EntriesInv, OwnedOnce, Owned, Numbered

\* The whole of patch_download_manifests.
LEMMA DownloadKeeps ==
  ASSUME EntriesInv, NEW rows, DownloadManifests(rows)
  PROVE  EntriesInv'
<1>1. CASE Call \/ CurlFails \/ NoStatement
  BY <1>1, EntriesFrame DEF Call, CurlFails, NoStatement, GoesTo, Returns
<1>2. CASE StepRow(rows) \/ StepNull(rows)
  BY <1>2, EntriesFrame DEF StepRow, StepNull, GoesTo
<1>3. CASE StepFails \/ PerformFails \/ SetByNames(rows)
  BY <1>3, EntriesFrame DEF StepFails, PerformFails, SetByNames, Returns
<1>4. CASE KeepFails \/ Discard
  BY <1>4, ParseDeinitKeeps DEF KeepFails, Discard, GoesTo, Returns
<1> QED
  BY <1>1, <1>2, <1>3, <1>4, PerformKeeps, KeepKeeps DEF DownloadManifests

LEMMA PhaseStep ==
  ASSUME PhaseInv, [Next]_vars
  PROVE  PhaseInv'
<1> USE DEF PhaseInv, KeepAll, patchVars, blobVars, dbVars
<1>1. CASE StartBlob \/ CreateBlob
  BY <1>1 DEF StartBlob, CreateBlob
<1>2. CASE StartDownload \/ OpenDb \/ DbOpened \/ Report
  BY <1>2 DEF StartDownload, OpenDb, DbOpened, Report
<1>3. CASE Download
  BY <1>3 DEF Download
<1>4. CASE AskForPatch
  BY <1>4 DEF AskForPatch, DownloadPatch
<1>5. CASE End \/ Crash
  BY <1>5 DEF End, Crash, Release, Killed, Forget, BlobReset
<1>6. CASE UNCHANGED vars
  BY <1>6 DEF vars
<1> QED
  BY <1>1, <1>2, <1>3, <1>4, <1>5, <1>6 DEF Next

LEMMA EntriesStep ==
  ASSUME PhaseInv, EntriesInv, [Next]_vars
  PROVE  EntriesInv'
<1>1. CASE Download
  BY <1>1, DownloadKeeps DEF Download, DownloadManifests
<1>2. CASE AskForPatch
  BY <1>2, EntriesFrame DEF AskForPatch, DownloadPatch
<1>3. CASE End
  BY <1>3, ForgetKeeps DEF End, Release, PhaseInv
<1>4. CASE Crash
  BY <1>4, ForgetKeeps DEF Crash, Killed
<1>5. CASE UNCHANGED patchVars
  BY <1>5, EntriesFrame DEF patchVars
<1> QED
  BY <1>1, <1>2, <1>3, <1>4, <1>5
     DEF Next, vars, StartBlob, CreateBlob, StartDownload, OpenDb, DbOpened, Report

THEOREM EntriesInvariant == Spec => [](PhaseInv /\ EntriesInv)
<1>1. Init => PhaseInv /\ EntriesInv
  <2> SUFFICES ASSUME Init
               PROVE  PhaseInv /\ EntriesInv
    OBVIOUS
  <2>1. phase = "ended" /\ at = "idle" /\ row = 0 /\ live = {} /\ step = "ready"
        /\ arr = [a \in {"patches", "content"} |-> Array!NoData] /\ Array!NoData.items = <<>>
    BY DEF Init, PatchInit, BlobInit, Array!Init, Array!NoData
  <2>2. patches = <<>> /\ content = <<>> /\ DOMAIN arr = {"patches", "content"}
    BY <2>1 DEF patches, content
  <2> QED
    BY <2>1, <2>2, NoIds DEF PhaseInv, EntriesInv, OwnedOnce, Owned, Numbered
<1>2. PhaseInv /\ EntriesInv /\ [Next]_vars => (PhaseInv /\ EntriesInv)'
  BY PhaseStep, EntriesStep
<1> QED
  BY <1>1, <1>2, PTL DEF Spec

\* No manifest entry is leaked, listed after it was freed or freed twice,
\* whatever the pages hold, wherever a download, an allocation or SQLite fails
\* and however many rows there are.
THEOREM EntriesOwnedOnce == Spec => []OwnedOnce
<1>1. EntriesInv => OwnedOnce
  BY DEF EntriesInv
<1> QED
  BY <1>1, EntriesInvariant, PTL

(***************************************************************************)
(* The list of patches and the index by name                               *)
(***************************************************************************)
Places == {"idle", "stepping", "performing", "parsed", "kept", "returned", "crashed"}

\* Entries whose names are C strings, in a block with room for them.
GoodArray(a) ==
  /\ DOMAIN a = {"items", "capacity"}
  /\ IsSequence(a.items) /\ a.capacity \in Nat /\ Len(a.items) <= a.capacity
  /\ \A i \in DOMAIN a.items : IsCString(a.items[i].name)

GoodArrays ==
  /\ DOMAIN arr = {"patches", "content"}
  /\ GoodArray(arr["patches"]) /\ GoodArray(arr["content"])

\* The index is made by the last call, of all patches when it succeeds; an error
\* of SQLite that is returned as success leaves none.
Indexed ==
  /\ at # "returned" => byName = <<>>
  /\ byName = <<>> \/ \E n \in 0 .. Len(patches) : byName = Index(n)
  /\ at = "returned" /\ rc = "None" => byName = Index(Len(patches)) \/ (sqlError /\ byName = <<>>)

Replied == reply.answer # "none" => at = "returned"

ListInv ==
  /\ at \in Places /\ IsSequence(accum)
  /\ \A url \in DOMAIN served : IsSequence(served[url].text)
  /\ GoodArrays /\ Indexed /\ Replied /\ DownloadsNamedPatch

\* array_push_back leaves room for what it pushed.
LEMMA RoomIsEnough ==
  ASSUME NEW n \in Nat
  PROVE  RoomPushed(n) \in Nat /\ n <= RoomPushed(n)
<1> DEFINE grow == [i \in 1 .. n |-> [k \in Nat |-> IF i - 1 >= k THEN Array!Doubled(k) ELSE k]]
           Defines(f) ==
             f = [i \in 0 .. n |->
                    IF i = 0 THEN 0
                    ELSE IF i - 1 >= f[i - 1] THEN Array!Doubled(f[i - 1]) ELSE f[i - 1]]
           room == CHOOSE f : Defines(f)
<1>1. RoomPushed(n) = room[n]
  BY DEF RoomPushed
<1>2. grow \in [1 .. n -> [Nat -> Nat]]
  BY DEF Array!Doubled
<1>3. \A i \in 1 .. n : \A k \in Nat : grow[i][k] = IF i - 1 >= k THEN Array!Doubled(k) ELSE k
  OBVIOUS
<1> HIDE DEF grow
<1>4. PICK f \in [0 .. n -> Nat] : f[0] = 0 /\ \A i \in 1 .. n : f[i] = grow[i][f[i - 1]]
  <2> HIDE DEF Defines, room
  <2>1. 0 \in Nat
    OBVIOUS
  <2>2. \E f : DefinedBy(f, n, Nat, 0, grow)
    BY <1>2, <2>1, RecursionUpTo
  <2> QED
    BY <2>2 DEF DefinedBy
<1>5. \A i \in 1 .. n : f[i] = IF i - 1 >= f[i - 1] THEN Array!Doubled(f[i - 1]) ELSE f[i - 1]
  BY <1>3, <1>4
<1>6. Defines(f)
  BY <1>4, <1>5
<1> HIDE DEF Defines
<1>7. Defines(room)
  BY <1>6
<1> HIDE DEF room
<1> USE DEF Defines
<1> DEFINE Enough == {i \in 0 .. n : room[i] \in Nat /\ i <= room[i]}
<1>8. 0 \in Enough
  BY <1>7
<1>9. ASSUME NEW k \in 0 .. n - 1, k \in Enough
      PROVE  k + 1 \in Enough
  <2>1. room[k + 1] = IF k >= room[k] THEN Array!Doubled(room[k]) ELSE room[k]
    BY <1>7
  <2>2. room[k] \in Nat /\ k <= room[k]
    BY <1>9
  <2> QED
    BY <2>1, <2>2 DEF Array!Doubled
<1> HIDE DEF Enough, Defines
<1>10. 0 .. n \subseteq Enough
  BY <1>8, <1>9, InductionUpTo
<1> QED
  BY <1>1, <1>10 DEF Enough

LEMMA NoReplyYet == reply.answer = "none" => DownloadsNamedPatch
BY DEF DownloadsNamedPatch

LEMMA PatchesType ==
  ASSUME GoodArrays
  PROVE  IsSequence(patches) /\ Len(patches) \in Nat /\ DOMAIN patches = 1 .. Len(patches)
<1>1. patches \in Seq(Range(patches))
  BY DEF GoodArrays, GoodArray, IsSequence, patches
<1> QED
  BY <1>1 DEF IsSequence

\* A call that makes no index and gives no answer.
LEMMA ListMoves ==
  ASSUME ListInv, at # "returned", UNCHANGED <<served, byName, reply>>,
         IsSequence(accum'), GoodArrays', at' \in Places,
         at' = "returned" /\ rc' = "None" => sqlError'
  PROVE  ListInv'
<1>1. byName' = <<>> /\ reply'.answer = "none"
  BY DEF ListInv, Indexed, Replied
<1>2. Indexed' /\ Replied'
  BY <1>1 DEF Indexed, Replied
<1>3. DownloadsNamedPatch'
  BY <1>1 DEF DownloadsNamedPatch
<1> QED
  BY <1>2, <1>3 DEF ListInv

LEMMA SameArrays == ASSUME GoodArrays, UNCHANGED arr PROVE GoodArrays'
BY DEF GoodArrays, GoodArray

LEMMA NothingIsASequence == IsSequence(<<>>)
BY <<>> \in Seq({}), IsASequence

LEMMA NoDataIsGood == GoodArray(Array!NoData)
<1>1. <<>> \in Seq(Range(<<>>)) /\ Len(<<>>) = 0
  OBVIOUS
<1> QED
  BY <1>1 DEF GoodArray, IsSequence, Array!NoData

\* What is parsed is a list of entries for which array_push_back has made room.
LEMMA PerformListed ==
  ASSUME ListInv, NEW rows, Perform(rows), UNCHANGED served
  PROVE  ListInv'
<1> DEFINE page == served[rows[row]].text
           text == accum \o page
           p == parse_file(text)
           entries == [i \in DOMAIN p.content |->
                         [id |-> <<row, i>>, name |-> p.content[i].name, fields |-> p.content[i].fields]]
           array == [items |-> entries, capacity |-> RoomPushed(Len(entries))]
<1>1. /\ at = "performing" /\ at' = "parsed" /\ UNCHANGED <<byName, reply>>
      /\ rows[row] \in DOMAIN served /\ accum' = p.text
      /\ arr' = [arr EXCEPT !["content"] = array]
  BY DEF Perform, GoesTo
<1>2. IsSequence(text)
  <2>1. IsSequence(accum) /\ IsSequence(page)
    BY <1>1 DEF ListInv
  <2> HIDE DEF page
  <2> DEFINE S == Range(accum) \cup Range(page)
  <2>2. Range(accum) \subseteq S /\ Range(page) \subseteq S
    OBVIOUS
  <2> HIDE DEF S
  <2>3. accum \in Seq(S) /\ page \in Seq(S)
    BY <2>1, <2>2, SeqOfMore DEF IsSequence
  <2>4. text \in Seq(S)
    BY <2>3
  <2> QED
    BY <2>4, IsASequence
<1> DEFINE T == Tokens(text)
<1> HIDE DEF text, p
<1>3. Parsing(p, T, Len(text))
  BY <1>2, ParsesAnyText DEF p
<1> HIDE DEF T
<1>4. p.text \in Seq(T) /\ p.content \in Seq(EntriesOver(T))
  BY <1>3 DEF Parsing
<1>5. IsSequence(accum')
  BY <1>1, <1>4, IsASequence
<1>6. DOMAIN entries = 1 .. Len(p.content) /\ Len(p.content) \in Nat
  BY <1>4
<1>7. \A i \in DOMAIN entries : p.content[i] \in EntriesOver(T) /\ entries[i].name = p.content[i].name
  BY <1>4
<1>8. \A i \in DOMAIN entries : IsCString(entries[i].name)
  BY <1>7 DEF EntriesOver, CStringsOf
<1> HIDE DEF entries
<1>9. IsSequence(entries) /\ Len(entries) \in Nat
  <2>1. entries = [i \in 1 .. Len(p.content) |-> entries[i]]
    BY <1>6 DEF entries
  <2>2. \A i \in 1 .. Len(p.content) : entries[i] \in Range(entries)
    BY <1>6 DEF Range
  <2>3. entries \in Seq(Range(entries)) /\ Len(entries) \in Nat
    BY <1>6, <2>1, <2>2
  <2> QED
    BY <2>3 DEF IsSequence
<1>10. GoodArray(array)
  BY <1>8, <1>9, RoomIsEnough DEF GoodArray
<1> HIDE DEF array
<1>11. GoodArrays'
  BY <1>1, <1>10 DEF ListInv, GoodArrays
<1> QED
  BY <1>1, <1>5, <1>11, ListMoves DEF Places

LEMMA KeepListed ==
  ASSUME ListInv, Keep, UNCHANGED served
  PROVE  ListInv'
<1>1. /\ at = "parsed" /\ at' = "kept" /\ UNCHANGED <<byName, reply, accum>> /\ GoodArrays /\ IsSequence(accum)
  BY DEF Keep, GoesTo, ListInv
<1>2. CASE Array!TakeOwnership("patches", "content")
  <2>1. arr' = [arr EXCEPT !["patches"] = arr["content"], !["content"] = Array!NoData]
    BY <1>2 DEF Array!TakeOwnership
  <2>2. /\ DOMAIN arr' = {"patches", "content"}
        /\ arr'["patches"] = arr["content"] /\ arr'["content"] = Array!NoData
    BY <1>1, <2>1 DEF GoodArrays
  <2>3. GoodArrays'
    BY <1>1, <2>2, NoDataIsGood DEF GoodArrays
  <2> QED
    BY <1>1, <2>3, ListMoves DEF Places
<1>3. CASE Array!AppendArray("patches", "content")
  <2> DEFINE room == Array!RoomFor("patches", Array!count("patches") + Array!count("content"))
             array == [items |-> arr["patches"].items, capacity |-> room]
  <2>1. arr' = [arr EXCEPT !["patches"] = array]
    BY <1>3 DEF Array!AppendArray, Array!Becomes
  <2>2. /\ Len(arr["patches"].items) \in Nat /\ Len(arr["content"].items) \in Nat
        /\ Len(arr["patches"].items) <= arr["patches"].capacity /\ arr["patches"].capacity \in Nat
        /\ IsSequence(arr["patches"].items)
        /\ \A i \in DOMAIN arr["patches"].items : IsCString(arr["patches"].items[i].name)
    BY <1>1 DEF GoodArrays, GoodArray, IsSequence
  <2>3. room \in Nat /\ Len(arr["patches"].items) <= room
    <3> DEFINE n == Len(arr["patches"].items)
               m == Len(arr["content"].items)
               c == arr["patches"].capacity
    <3>1. room = IF c < n + m THEN n + m ELSE c
      BY DEF Array!RoomFor, Array!count
    <3>2. n \in Nat /\ m \in Nat /\ c \in Nat /\ n <= c
      BY <2>2
    <3> HIDE DEF n, m, c
    <3>3. room \in Nat /\ n <= room
      BY <3>1, <3>2
    <3> QED
      BY <3>3 DEF n
  <2> HIDE DEF room
  <2>4. GoodArray(array)
    BY <2>2, <2>3 DEF GoodArray
  <2> HIDE DEF array
  <2>5. GoodArrays'
    BY <1>1, <2>1, <2>4 DEF GoodArrays
  <2> QED
    BY <1>1, <2>5, ListMoves DEF Places
<1> QED
  BY <1>2, <1>3 DEF Keep

LEMMA ParseDeinitListed ==
  ASSUME ListInv, KeepFails \/ Discard, UNCHANGED served
  PROVE  ListInv'
<1>1. /\ at # "returned" /\ at' \in {"stepping", "returned"} /\ (at' = "returned" => rc' = "OutOfMemory")
      /\ arr' = [arr EXCEPT !["content"] = Array!NoData]
      /\ UNCHANGED <<byName, reply, accum>>
  BY DEF KeepFails, Discard, GoesTo, Returns, parse_deinit, Array!Deinit
<1>2. GoodArrays'
  BY <1>1, NoDataIsGood DEF ListInv, GoodArrays
<1> QED
  BY <1>1, <1>2, ListMoves DEF Places, ListInv

\* Where the index leads: to the first entry of the name.
LEMMA IndexLeads ==
  ASSUME GoodArrays, NEW n \in 0 .. Len(patches), NEW name \in DOMAIN Index(n)
  PROVE  LET named == {i \in 1 .. n : NameOf(i) = name} IN
         /\ named # {} /\ Index(n)[name] = Min(named)
         /\ Min(named) \in named /\ Min(named) \in DOMAIN patches /\ Min(named) <= Len(patches)
<1> DEFINE named == {i \in 1 .. n : NameOf(i) = name}
<1>1. Len(patches) \in Nat /\ DOMAIN patches = 1 .. Len(patches)
  BY PatchesType
<1>2. named \in SUBSET Nat /\ named # {}
  BY <1>1 DEF Index
<1>3. Index(n)[name] = Min(named)
  BY DEF Index
<1>4. named \subseteq 1 .. Len(patches)
  BY <1>1
<1> HIDE DEF named
<1>5. Min(named) \in named
  BY <1>2, MinIsLeast
<1> QED
  BY <1>1, <1>2, <1>3, <1>4, <1>5 DEF named

LEMMA SetByNamesListed ==
  ASSUME ListInv, NEW rows, SetByNames(rows), UNCHANGED served
  PROVE  ListInv'
<1>1. /\ at' = "returned" /\ at = "stepping" /\ UNCHANGED <<arr, accum, reply>>
      /\ \/ byName' = Index(Len(patches))
         \/ rc' = "OutOfMemory" /\ \E n \in 0 .. Len(patches) - 1 : byName' = Index(n)
  BY DEF SetByNames, Returns
<1>2. patches' = patches /\ \A n : Index(n)' = Index(n)
  BY <1>1 DEF patches, Index, NameOf
<1>3. GoodArrays /\ GoodArrays'
  BY <1>1, SameArrays DEF ListInv
<1>4. Len(patches) \in Nat
  BY <1>3, PatchesType
<1>5. \E n \in 0 .. Len(patches) : byName' = Index(n)
  BY <1>1, <1>4
<1>6. Indexed'
  BY <1>1, <1>2, <1>5 DEF Indexed
<1>7. reply'.answer = "none"
  BY <1>1 DEF ListInv, Replied
<1>8. DownloadsNamedPatch' /\ Replied'
  BY <1>7 DEF DownloadsNamedPatch, Replied
<1> QED
  BY <1>1, <1>3, <1>6, <1>8 DEF ListInv, Places

\* The answer is about the first patch of the name.
LEMMA DownloadListed ==
  ASSUME ListInv, NEW name, DownloadPatch(name), UNCHANGED served
  PROVE  ListInv'
<1>1. /\ at = "returned" /\ rc = "None" /\ UNCHANGED <<at, rc, accum, arr, byName, sqlError>>
      /\ GoodArrays /\ Indexed
  BY DEF DownloadPatch, ListInv
<1>2. patches' = patches /\ (\A n : Index(n)' = Index(n)) /\ (\A i : NameOf(i)' = NameOf(i))
  BY <1>1 DEF patches, Index, NameOf
<1>3. Len(patches) \in Nat /\ DOMAIN patches = 1 .. Len(patches)
  BY <1>1, PatchesType
<1>4. GoodArrays' /\ Indexed' /\ Replied'
  BY <1>1, <1>2, SameArrays DEF Indexed, Replied
<1> DEFINE named == {i \in DOMAIN patches : NameOf(i) = name}
<1>5. byName = Index(Len(patches)) \/ (sqlError /\ byName = <<>>)
  BY <1>1 DEF Indexed
<1>6. CASE name \notin DOMAIN byName
  <2>1. reply'.answer = "Invalid" /\ reply'.name = name
    BY <1>6 DEF DownloadPatch, Answer
  <2>2. named = {} \/ sqlError
    <3>1. CASE byName = Index(Len(patches))
      BY <1>3, <1>6, <3>1 DEF Index
    <3> QED
      BY <1>5, <3>1
  <2> QED
    BY <1>1, <1>2, <1>4, <2>1, <2>2 DEF ListInv, DownloadsNamedPatch
<1>7. CASE name \in DOMAIN byName
  <2>1. byName = Index(Len(patches)) /\ Len(patches) \in 0 .. Len(patches)
    BY <1>3, <1>5, <1>7
  <2>2. named # {} /\ byName[name] = Min(named) /\ Min(named) <= Len(patches)
    BY <1>1, <1>3, <1>7, <2>1, IndexLeads
  <2>3. Min(named) \in Nat
    <3>1. Min(named) \in DOMAIN patches
      BY <1>1, <1>3, <1>7, <2>1, IndexLeads
    <3> QED
      BY <1>3, <3>1
  <2> HIDE DEF named
  <2>4. ~(byName[name] > Len(patches))
    BY <1>3, <2>2, <2>3
  <2>5. \/ reply'.answer \in {"BadUrl", "Generic"}
        \/ reply'.answer = "None" /\ reply'.name = name /\ reply'.url \in ValuesOf(patches[Min(named)], "url")
    BY <1>7, <2>2, <2>4 DEF DownloadPatch, Answer
  <2>6. DownloadsNamedPatch'
    BY <1>2, <2>2, <2>5 DEF DownloadsNamedPatch, named
  <2> QED
    BY <1>1, <1>4, <2>6 DEF ListInv
<1> QED
  BY <1>6, <1>7

LEMMA ForgetListed ==
  ASSUME ListInv, Forget, UNCHANGED served
  PROVE  ListInv'
<1>1. /\ at' = "idle" /\ accum' = <<>> /\ byName' = <<>> /\ reply'.answer = "none"
      /\ arr' = [a \in DOMAIN arr |-> Array!NoData]
  BY DEF Forget, NoReply
<1>2. GoodArrays'
  BY <1>1, NoDataIsGood DEF ListInv, GoodArrays
<1>3. IsSequence(accum')
  BY <1>1, NothingIsASequence, Zenon
<1>4. Indexed' /\ Replied' /\ DownloadsNamedPatch'
  BY <1>1 DEF Indexed, Replied, DownloadsNamedPatch
<1> QED
  BY <1>1, <1>2, <1>3, <1>4 DEF ListInv, Places

\* The whole of patch_download_manifests.
LEMMA DownloadManifestsListed ==
  ASSUME ListInv, NEW rows, DownloadManifests(rows), UNCHANGED served
  PROVE  ListInv'
<1>1. CASE Call \/ CurlFails \/ StepRow(rows) \/ StepNull(rows) \/ StepFails \/ PerformFails
  <2>1. /\ UNCHANGED <<byName, arr, reply, accum>> /\ at # "returned" /\ at' \in Places
        /\ at' = "returned" /\ rc' = "None" => sqlError'
    BY <1>1 DEF Call, CurlFails, StepRow, StepNull, StepFails, PerformFails, GoesTo, Returns, Places
  <2> QED
    BY <2>1, SameArrays, ListMoves DEF ListInv
<1>2. CASE NoStatement
  <2>1. /\ UNCHANGED <<byName, arr, reply>> /\ at # "returned" /\ at' \in Places
        /\ ~(at' = "returned" /\ rc' = "None") /\ accum' = <<"garbage">>
    BY <1>2 DEF NoStatement, Returns, Places, Garbage
  <2>2. IsSequence(accum')
    <3>1. <<"garbage">> \in Seq({"garbage"})
      OBVIOUS
    <3> QED
      BY <2>1, <3>1, IsASequence
  <2> QED
    BY <2>1, <2>2, SameArrays, ListMoves DEF ListInv
<1> QED
  BY <1>1, <1>2, PerformListed, KeepListed, ParseDeinitListed, SetByNamesListed DEF DownloadManifests

LEMMA ListStep ==
  ASSUME ListInv, [Next]_vars
  PROVE  ListInv'
<1>1. UNCHANGED served
  BY DEF Next, vars, StartBlob, CreateBlob, StartDownload, OpenDb, DbOpened, Download, Report, AskForPatch,
     End, Crash, KeepAll
<1>2. CASE Download
  BY <1>1, <1>2, DownloadManifestsListed DEF Download, DownloadManifests
<1>3. CASE AskForPatch
  BY <1>1, <1>3, DownloadListed DEF AskForPatch
<1>4. CASE End \/ Crash
  BY <1>1, <1>4, ForgetListed DEF End, Crash, Release, Killed
<1>5. CASE UNCHANGED patchVars
  <2>1. GoodArrays'
    BY <1>5, SameArrays DEF ListInv, patchVars
  <2>2. patches' = patches /\ (\A n : Index(n)' = Index(n)) /\ (\A i : NameOf(i)' = NameOf(i))
    BY <1>5 DEF patchVars, patches, Index, NameOf
  <2>3. Indexed' /\ Replied' /\ DownloadsNamedPatch'
    BY <1>5, <2>2 DEF ListInv, patchVars, Indexed, Replied, DownloadsNamedPatch
  <2> QED
    BY <1>1, <1>5, <2>1, <2>3 DEF ListInv, patchVars
<1> QED
  BY <1>2, <1>3, <1>4, <1>5
     DEF Next, vars, StartBlob, CreateBlob, StartDownload, OpenDb, DbOpened, Report

THEOREM ListInvariant == Spec => []ListInv
<1>1. Init => ListInv
  <2> SUFFICES ASSUME Init
               PROVE  ListInv
    OBVIOUS
  <2>1. /\ at = "idle" /\ accum = <<>> /\ byName = <<>> /\ reply.answer = "none"
        /\ arr = [a \in {"patches", "content"} |-> Array!NoData]
        /\ \A url \in DOMAIN served : IsSequence(served[url].text)
    BY DEF Init, PatchInit, Array!Init, NoReply, IsPage
  <2>2. GoodArrays
    BY <2>1, NoDataIsGood DEF GoodArrays
  <2>3. IsSequence(accum)
    BY <2>1, NothingIsASequence, Zenon
  <2> QED
    BY <2>1, <2>2, <2>3, NoReplyYet DEF ListInv, Indexed, Replied, Places
<1>2. ListInv /\ [Next]_vars => ListInv'
  BY ListStep
<1> QED
  BY <1>1, <1>2, PTL DEF Spec

\* The patch that is downloaded is the first of the name that was asked for, from
\* a url of its own, and a name that is listed is found: for every manifest, also
\* a broken one, whichever calls fail and however often the program is run.
THEOREM NamedPatchDownloaded == Spec => []DownloadsNamedPatch
<1>1. ListInv => DownloadsNamedPatch
  BY DEF ListInv
<1> QED
  BY <1>1, ListInvariant, PTL

(***************************************************************************)
(* The manifest that is listed                                             *)
(***************************************************************************)
LEMMA FirstMeantNone == ASSUME NEW rows PROVE FirstMeant(rows, {}) = <<>>
BY DEF FirstMeant

\* One row more behind those that were reached.
LEMMA FirstMeantNext ==
  ASSUME NEW rows, NEW R \in SUBSET Nat, NEW m \in Nat, \A i \in R : i < m
  PROVE  FirstMeant(rows, R \cup {m}) =
           IF FirstMeant(rows, R) # <<>> THEN FirstMeant(rows, R) ELSE Meant(served[rows[m]].doc)
<1> DEFINE meant(i) == Meant(served[rows[i]].doc)
           before == {i \in R : meant(i) # <<>>}
           after == {i \in R \cup {m} : meant(i) # <<>>}
<1>1. /\ FirstMeant(rows, R) = IF before = {} THEN <<>> ELSE meant(Min(before))
      /\ FirstMeant(rows, R \cup {m}) = IF after = {} THEN <<>> ELSE meant(Min(after))
  BY DEF FirstMeant
<1>2. after = IF meant(m) # <<>> THEN before \cup {m} ELSE before
  OBVIOUS
<1>3. before \in SUBSET Nat /\ \A i \in before : i < m /\ meant(i) # <<>>
  OBVIOUS
<1> HIDE DEF meant, before, after
<1>4. CASE before = {}
  <2>1. FirstMeant(rows, R) = <<>>
    BY <1>1, <1>4
  <2>2. CASE meant(m) = <<>>
    BY <1>1, <1>2, <1>4, <2>1, <2>2 DEF meant
  <2>3. CASE meant(m) # <<>>
    <3>1. after = {m}
      BY <1>2, <1>4, <2>3
    <3>2. Min(after) = m
      BY <3>1, MinIsLeast
    <3> QED
      BY <1>1, <2>1, <3>1, <3>2 DEF meant
  <2> QED
    BY <2>2, <2>3
<1>5. CASE before # {}
  <2>1. Min(before) \in before /\ \A i \in before : Min(before) <= i
    BY <1>3, <1>5, MinIsLeast
  <2>2. after \in SUBSET Nat /\ after # {} /\ before \subseteq after /\ after \subseteq before \cup {m}
    BY <1>2, <1>3, <1>5
  <2>3. Min(after) \in after /\ \A i \in after : Min(after) <= i
    BY <2>2, MinIsLeast
  <2>4. Min(after) = Min(before)
    <3>1. PICK a \in Nat, b \in Nat : a = Min(before) /\ b = Min(after)
      BY <1>3, <2>1, <2>2, <2>3
    <3>2. a \in before /\ b \in after /\ b <= a /\ a < m
      BY <1>3, <2>1, <2>2, <2>3, <3>1
    <3>3. b # m
      BY <3>2
    <3>4. b \in before /\ a <= b
      BY <2>1, <2>2, <3>1, <3>2, <3>3
    <3> QED
      BY <3>1, <3>2, <3>4
  <2>5. meant(Min(before)) # <<>>
    BY <1>3, <2>1
  <2> QED
    BY <1>1, <1>5, <2>2, <2>4, <2>5
<1> QED
  BY <1>4, <1>5

\* The first n rows that have a url, and whether their pages are well formed.
Reached(rows, n) == {i \in 1 .. n : rows[i] # NullUrl}
WellFormedUpTo(rows, n) == \A i \in Reached(rows, n) : served[rows[i]].wellFormed

\* The rows whose page was downloaded, and those whose entries were kept.
Loaded == IF at = "performing" THEN row - 1 ELSE row
Kept == IF at \in {"performing", "parsed"} THEN row - 1 ELSE row

Reading == at \in {"stepping", "performing", "parsed", "kept"} \/ (at = "returned" /\ rc = "None")

FreshStart == at = "idle" => row = 0 /\ accum = <<>>

AtRow(rows) == at \in {"performing", "parsed"} => row # 0 /\ rows[row] # NullUrl

AllServed(rows) == Reading => \A i \in Reached(rows, Loaded) : rows[i] \in DOMAIN served

KeptIsFirst(rows) ==
  Reading /\ WellFormedUpTo(rows, Kept) => EntriesOf(patches) = FirstMeant(rows, Reached(rows, Kept))

\* Until something is listed nothing in accum could be.
NoBracketYet(rows) ==
  at \in {"stepping", "performing", "kept"} /\ WellFormedUpTo(rows, Kept) /\ patches = <<>>
    => "[" \notin Range(accum)

ParsedIsMeant(rows) ==
  at = "parsed" /\ WellFormedUpTo(rows, row) /\ patches = <<>>
    => /\ EntriesOf(content) = Meant(served[rows[row]].doc)
       /\ content = <<>> => "[" \notin Range(accum)

ReadAll(rows) == at = "returned" /\ rc = "None" => sqlError \/ row = Len(rows)

DocInv(rows) ==
  /\ FreshStart /\ AtRow(rows) /\ AllServed(rows) /\ ReadAll(rows)
  /\ KeptIsFirst(rows) /\ NoBracketYet(rows) /\ ParsedIsMeant(rows)

\* A row more is one that is reached, or none.
LEMMA ReachedNext ==
  ASSUME NEW rows, NEW n \in Nat
  PROVE  /\ Reached(rows, 0) = {} /\ Reached(rows, n) \in SUBSET Nat
         /\ \A i \in Reached(rows, n) : i < n + 1
         /\ Reached(rows, n + 1) = IF rows[n + 1] # NullUrl THEN Reached(rows, n) \cup {n + 1}
                                   ELSE Reached(rows, n)
<1>1. 1 .. n + 1 = (1 .. n) \cup {n + 1}
  OBVIOUS
<1> QED
  BY <1>1 DEF Reached

LEMMA SameFirstMeant ==
  ASSUME NEW rows, NEW R, UNCHANGED served
  PROVE  FirstMeant(rows, R)' = FirstMeant(rows, R)
BY DEF FirstMeant

\* A call that fails, and the end of the process.
LEMMA DocEnds ==
  ASSUME NEW rows, at' \in {"returned", "crashed", "idle"}, at' = "returned" => rc' # "None",
         at' = "idle" => row' = 0 /\ accum' = <<>>
  PROVE  DocInv(rows)'
BY DEF DocInv, FreshStart, AtRow, AllServed, ReadAll, KeptIsFirst, NoBracketYet, ParsedIsMeant, Reading

LEMMA DocSame ==
  ASSUME NEW rows, DocInv(rows), UNCHANGED <<served, at, rc, row, accum, arr, sqlError>>
  PROVE  DocInv(rows)'
BY DEF DocInv, FreshStart, AtRow, AllServed, ReadAll, KeptIsFirst, NoBracketYet, ParsedIsMeant, Reading,
     Kept, Loaded, WellFormedUpTo, FirstMeant, EntriesOf, patches, content

\* What every call needs to know of the state.
Pages == \A url \in DOMAIN served : IsPage(served[url])
DocState == ListInv /\ EntriesInv /\ Pages

LEMMA DocCall ==
  ASSUME NEW rows, DocInv(rows), DocState, Call, UNCHANGED served
  PROVE  DocInv(rows)'
<1>1. /\ at = "idle" /\ at' = "stepping" /\ row' = 0 /\ accum' = <<>>
  BY DEF Call, GoesTo, DocInv, FreshStart
<1>2. patches' = <<>>
  BY <1>1 DEF Call, DocState, EntriesInv, Owned, patches
<1>3. Kept' = 0 /\ Loaded' = 0
  BY <1>1 DEF Kept, Loaded
<1>4. EntriesOf(patches)' = <<>>
  BY <1>2 DEF EntriesOf
<1>5. Reached(rows, Kept)' = {} /\ Reached(rows, Loaded)' = {}
  BY <1>3 DEF Reached
<1>6. FirstMeant(rows, Reached(rows, Kept))' = <<>>
  BY <1>5 DEF FirstMeant
<1>7. "[" \notin Range(accum')
  BY <1>1 DEF Range
<1> QED
  BY <1>1, <1>4, <1>5, <1>6, <1>7
     DEF DocInv, FreshStart, AtRow, AllServed, ReadAll, KeptIsFirst, NoBracketYet, ParsedIsMeant

\* The next row, with a url or without one.
LEMMA DocStepRow ==
  ASSUME NEW rows, DocInv(rows), DocState, StepRow(rows), UNCHANGED served
  PROVE  DocInv(rows)'
<1>1. /\ at = "stepping" /\ at' = "performing" /\ row' = row + 1 /\ row \in Nat
      /\ rows[row + 1] # NullUrl /\ UNCHANGED <<accum, arr>>
  BY DEF StepRow, GoesTo, DocState, EntriesInv, Numbered
<1>2. Kept = row /\ Loaded = row /\ Kept' = row /\ Loaded' = row
  BY <1>1 DEF Kept, Loaded
<1>3. patches' = patches
  BY <1>1 DEF patches
<1> QED
  BY <1>1, <1>2, <1>3
     DEF DocInv, FreshStart, AtRow, AllServed, ReadAll, KeptIsFirst, NoBracketYet, ParsedIsMeant, Reading,
         WellFormedUpTo, FirstMeant, EntriesOf

LEMMA DocStepNull ==
  ASSUME NEW rows, DocInv(rows), DocState, StepNull(rows), UNCHANGED served
  PROVE  DocInv(rows)'
<1>1. /\ at = "stepping" /\ at' = "stepping" /\ row' = row + 1 /\ row \in Nat
      /\ rows[row + 1] = NullUrl /\ UNCHANGED <<accum, arr>>
  BY DEF StepNull, GoesTo, DocState, EntriesInv, Numbered
<1>2. Kept = row /\ Loaded = row /\ Kept' = row + 1 /\ Loaded' = row + 1
  BY <1>1 DEF Kept, Loaded
<1>3. patches' = patches
  BY <1>1 DEF patches
<1>4. Reached(rows, row + 1) = Reached(rows, row)
  BY <1>1, ReachedNext
<1>5. Reached(rows, Kept)' = Reached(rows, Kept) /\ Reached(rows, Loaded)' = Reached(rows, Loaded)
  BY <1>2, <1>4 DEF Reached
<1>6. WellFormedUpTo(rows, Kept)' = WellFormedUpTo(rows, Kept)
  BY <1>5 DEF WellFormedUpTo
<1> QED
  BY <1>1, <1>3, <1>5, <1>6
     DEF DocInv, FreshStart, AtRow, AllServed, ReadAll, KeptIsFirst, NoBracketYet, ParsedIsMeant, Reading,
         FirstMeant, EntriesOf

\* The last row is behind, or SQLite failed.
LEMMA DocReadAll ==
  ASSUME NEW rows, DocInv(rows), DocState, at = "stepping", at' = "returned", sqlError' \/ row = Len(rows),
         UNCHANGED <<served, row, arr>>
  PROVE  DocInv(rows)'
<1>1. Kept = row /\ Loaded = row /\ Kept' = row /\ Loaded' = row
  BY DEF Kept, Loaded
<1>2. patches' = patches
  BY DEF patches
<1> QED
  BY <1>1, <1>2
     DEF DocInv, FreshStart, AtRow, AllServed, ReadAll, KeptIsFirst, NoBracketYet, ParsedIsMeant, Reading,
         WellFormedUpTo, FirstMeant, EntriesOf

\* The parser is freed.
LEMMA DocDiscard ==
  ASSUME NEW rows, DocInv(rows), DocState, Discard, UNCHANGED served
  PROVE  DocInv(rows)'
<1>1. /\ at = "kept" /\ at' = "stepping" /\ UNCHANGED <<row, accum>>
      /\ arr' = [arr EXCEPT !["content"] = Array!NoData]
  BY DEF Discard, GoesTo, parse_deinit, Array!Deinit
<1>2. Kept = row /\ Loaded = row /\ Kept' = row /\ Loaded' = row
  BY <1>1 DEF Kept, Loaded
<1>3. patches' = patches
  BY <1>1 DEF patches, DocState, EntriesInv, Numbered
<1> QED
  BY <1>1, <1>2, <1>3
     DEF DocInv, FreshStart, AtRow, AllServed, ReadAll, KeptIsFirst, NoBracketYet, ParsedIsMeant, Reading,
         WellFormedUpTo, FirstMeant, EntriesOf

LEMMA NothingListed ==
  ASSUME NEW c, IsSequence(c)
  PROVE  EntriesOf(c) = <<>> <=> c = <<>>
<1>1. c \in Seq(Range(c)) /\ DOMAIN EntriesOf(c) = DOMAIN c
  BY DEF IsSequence, EntriesOf
<1>2. DOMAIN <<>> = {}
  OBVIOUS
<1>3. ASSUME DOMAIN c = {}
      PROVE  c = <<>>
  BY <1>1, <1>3
<1>4. ASSUME c = <<>>
      PROVE  EntriesOf(c) = <<>>
  BY <1>4 DEF EntriesOf
<1> QED
  BY <1>1, <1>2, <1>3, <1>4, Zenon

\* A page is loaded: accum is a document behind text without a bracket, or
\* something is kept already.
LEMMA DocPerform ==
  ASSUME NEW rows, DocInv(rows), DocState, Perform(rows), UNCHANGED served
  PROVE  DocInv(rows)'
<1> DEFINE page == served[rows[row]]
           p == parse_file(accum \o page.text)
           entries == [i \in DOMAIN p.content |->
                         [id |-> <<row, i>>, name |-> p.content[i].name, fields |-> p.content[i].fields]]
<1>1. /\ at = "performing" /\ at' = "parsed" /\ UNCHANGED row
      /\ rows[row] \in DOMAIN served /\ accum' = p.text
      /\ arr' = [arr EXCEPT !["content"] = [items |-> entries, capacity |-> RoomPushed(Len(entries))]]
  BY DEF Perform, GoesTo
<1> HIDE DEF p, entries
<1>2. patches' = patches /\ content' = entries
  BY <1>1 DEF DocState, EntriesInv, Numbered, patches, content
<1>3. PICK n \in Nat : row = n + 1 /\ row - 1 = n /\ row \in Nat
  <2>1. row \in Nat /\ row # 0
    BY <1>1 DEF DocState, EntriesInv, Numbered, DocInv, AtRow
  <2>2. row - 1 \in Nat /\ row = (row - 1) + 1
    BY <2>1
  <2> QED
    BY <2>1, <2>2
<1>4. Kept = n /\ Loaded = n /\ Kept' = n /\ Loaded' = n + 1
  BY <1>1, <1>3 DEF Kept, Loaded
<1>5. rows[n + 1] # NullUrl /\ Reached(rows, n + 1) = Reached(rows, n) \cup {n + 1}
  <2>1. rows[n + 1] # NullUrl
    BY <1>1, <1>3 DEF DocInv, AtRow
  <2> QED
    BY <2>1, ReachedNext
<1>6. FreshStart' /\ AtRow(rows)' /\ ReadAll(rows)' /\ NoBracketYet(rows)'
  BY <1>1 DEF DocInv, FreshStart, AtRow, ReadAll, NoBracketYet
<1>7. AllServed(rows)'
  <2>1. \A i \in Reached(rows, n) : rows[i] \in DOMAIN served
    BY <1>1, <1>4 DEF DocInv, AllServed, Reading
  <2>2. Reached(rows, Loaded)' = Reached(rows, n + 1)
    BY <1>4 DEF Reached
  <2> QED
    BY <1>1, <1>3, <1>5, <2>1, <2>2 DEF AllServed
<1>8. KeptIsFirst(rows)'
  BY <1>1, <1>2, <1>4
     DEF DocInv, KeptIsFirst, Reading, WellFormedUpTo, Reached, FirstMeant, EntriesOf
<1>9. ParsedIsMeant(rows)'
  <2> SUFFICES ASSUME WellFormedUpTo(rows, n + 1), patches = <<>>
               PROVE  /\ EntriesOf(entries) = Meant(page.doc)
                      /\ entries = <<>> => "[" \notin Range(p.text)
    BY <1>1, <1>2, <1>3 DEF ParsedIsMeant, WellFormedUpTo, Reached, EntriesOf, Meant
  <2>1. WellFormedUpTo(rows, n)
    BY <1>5 DEF WellFormedUpTo
  <2>2. "[" \notin Range(accum) /\ IsSequence(accum)
    BY <1>1, <1>4, <2>1 DEF DocInv, NoBracketYet, DocState, ListInv
  <2>3. IsDocument(page.doc) /\ page.text = DocumentText(page.doc)
    <3>1. page.wellFormed
      BY <1>3, <1>5 DEF WellFormedUpTo
    <3> QED
      BY <1>1, <3>1 DEF DocState, Pages, IsPage
  <2> HIDE DEF page
  <2>4. EntriesOf(p.content) = Meant(page.doc) /\ (Meant(page.doc) = <<>> => "[" \notin Range(p.text))
    BY <2>2, <2>3, ReadsDocument DEF p
  <2>5. EntriesOf(entries) = EntriesOf(p.content)
    <3>1. /\ DOMAIN entries = DOMAIN p.content
          /\ \A i \in DOMAIN p.content :
               entries[i].name = p.content[i].name /\ entries[i].fields = p.content[i].fields
      BY DEF entries
    <3> QED
      BY <3>1 DEF EntriesOf
  <2>6. entries = <<>> => EntriesOf(entries) = <<>>
    BY NothingIsASequence, NothingListed, Zenon
  <2> QED
    BY <2>4, <2>5, <2>6
<1> QED
  BY <1>6, <1>7, <1>8, <1>9 DEF DocInv

\* The first entries there are are kept, and those of later pages are not.
LEMMA DocKeep ==
  ASSUME NEW rows, DocInv(rows), DocState, Keep, UNCHANGED served
  PROVE  DocInv(rows)'
<1>1. at = "parsed" /\ at' = "kept" /\ UNCHANGED <<row, accum>>
  BY DEF Keep, GoesTo
<1>2. patches' = IF patches = <<>> THEN content ELSE patches
  <2>1. DOMAIN arr = {"patches", "content"}
    BY DEF DocState, EntriesInv, Numbered
  <2>2. CASE patches = <<>>
    <3>1. arr' = [arr EXCEPT !["patches"] = arr["content"], !["content"] = Array!NoData]
      BY <2>2 DEF Keep, Array!TakeOwnership
    <3> QED
      BY <2>1, <2>2, <3>1 DEF patches, content
  <2>3. CASE patches # <<>>
    <3>1. \E c : arr' = [arr EXCEPT !["patches"] = [items |-> arr["patches"].items, capacity |-> c]]
      BY <2>3 DEF Keep, Array!AppendArray, Array!Becomes
    <3> QED
      BY <2>1, <2>3, <3>1 DEF patches, content
  <2> QED
    BY <2>2, <2>3
<1>3. PICK n \in Nat : row = n + 1 /\ row - 1 = n /\ row \in Nat
  <2>1. row \in Nat /\ row # 0
    BY <1>1 DEF DocState, EntriesInv, Numbered, DocInv, AtRow
  <2>2. row - 1 \in Nat /\ row = (row - 1) + 1
    BY <2>1
  <2> QED
    BY <2>1, <2>2
<1>4. Kept = n /\ Loaded = n + 1 /\ Kept' = n + 1 /\ Loaded' = n + 1
  BY <1>1, <1>3 DEF Kept, Loaded
<1>5. rows[n + 1] # NullUrl /\ Reached(rows, n + 1) = Reached(rows, n) \cup {n + 1}
  <2>1. rows[n + 1] # NullUrl
    BY <1>1, <1>3 DEF DocInv, AtRow
  <2> QED
    BY <2>1, ReachedNext
<1>6. FreshStart' /\ AtRow(rows)' /\ ReadAll(rows)' /\ ParsedIsMeant(rows)'
  BY <1>1 DEF DocInv, FreshStart, AtRow, ReadAll, ParsedIsMeant
<1>7. AllServed(rows)'
  BY <1>1, <1>4 DEF DocInv, AllServed, Reading, Reached
<1>8. EntriesOf(patches) = <<>> <=> patches = <<>>
  BY PatchesType, NothingListed DEF DocState, ListInv
<1>9. ASSUME WellFormedUpTo(rows, n + 1)
      PROVE  /\ EntriesOf(patches') = FirstMeant(rows, Reached(rows, n + 1))
             /\ patches' = <<>> => "[" \notin Range(accum)
  <2>1. WellFormedUpTo(rows, n)
    BY <1>5, <1>9 DEF WellFormedUpTo
  <2>2. EntriesOf(patches) = FirstMeant(rows, Reached(rows, n))
    BY <1>1, <1>4, <2>1 DEF DocInv, KeptIsFirst, Reading
  <2>3. FirstMeant(rows, Reached(rows, n + 1)) =
          IF FirstMeant(rows, Reached(rows, n)) # <<>> THEN FirstMeant(rows, Reached(rows, n))
          ELSE Meant(served[rows[n + 1]].doc)
    <3>1. PICK R \in SUBSET Nat, m \in Nat : R = Reached(rows, n) /\ m = n + 1 /\ \A i \in R : i < m
      <4>1. Reached(rows, n) \in SUBSET Nat /\ n + 1 \in Nat /\ \A i \in Reached(rows, n) : i < n + 1
        BY <1>3, ReachedNext
      <4> QED
        BY <4>1, Zenon
    <3>2. FirstMeant(rows, R \cup {m}) =
            IF FirstMeant(rows, R) # <<>> THEN FirstMeant(rows, R) ELSE Meant(served[rows[m]].doc)
      BY <3>1, FirstMeantNext
    <3> QED
      BY <1>5, <3>1, <3>2, Zenon
  <2>4. patches = <<>> => /\ EntriesOf(content) = Meant(served[rows[n + 1]].doc)
                          /\ content = <<>> => "[" \notin Range(accum)
    BY <1>1, <1>3, <1>9 DEF DocInv, ParsedIsMeant
  <2>5. CASE patches = <<>>
    <3>1. patches' = content /\ FirstMeant(rows, Reached(rows, n + 1)) = Meant(served[rows[n + 1]].doc)
      BY <1>2, <1>8, <2>2, <2>3, <2>5, Zenon
    <3>2. EntriesOf(patches') = EntriesOf(content)
      BY <3>1, Zenon
    <3>3. EntriesOf(patches') = FirstMeant(rows, Reached(rows, n + 1))
      BY <2>4, <2>5, <3>1, <3>2
    <3>4. patches' = <<>> => "[" \notin Range(accum)
      BY <2>4, <2>5, <3>1
    <3> QED
      BY <3>3, <3>4
  <2>6. CASE patches # <<>>
    <3>1. patches' = patches /\ FirstMeant(rows, Reached(rows, n + 1)) = EntriesOf(patches)
      BY <1>2, <1>8, <2>2, <2>3, <2>6, Zenon
    <3>2. EntriesOf(patches') = EntriesOf(patches)
      BY <3>1, Zenon
    <3> QED
      BY <2>6, <3>1, <3>2, Zenon
  <2> QED
    BY <2>5, <2>6
<1>10. KeptIsFirst(rows)' /\ NoBracketYet(rows)'
  <2>1. WellFormedUpTo(rows, Kept)' => WellFormedUpTo(rows, n + 1)
    BY <1>4 DEF WellFormedUpTo, Reached
  <2>2. FirstMeant(rows, Reached(rows, Kept))' = FirstMeant(rows, Reached(rows, n + 1))
    BY <1>4 DEF FirstMeant, Reached
  <2>3. EntriesOf(patches)' = EntriesOf(patches')
    BY DEF EntriesOf
  <2> QED
    BY <1>1, <1>9, <2>1, <2>2, <2>3 DEF KeptIsFirst, NoBracketYet
<1> QED
  BY <1>6, <1>7, <1>10 DEF DocInv

LEMMA DocDownload ==
  ASSUME NEW rows, DocInv(rows), DocState, DownloadManifests(rows), UNCHANGED served
  PROVE  DocInv(rows)'
<1>1. CASE CurlFails \/ NoStatement \/ PerformFails \/ KeepFails
  <2>1. at' \in {"returned", "crashed"} /\ (at' = "returned" => rc' # "None")
    BY <1>1 DEF CurlFails, NoStatement, PerformFails, KeepFails, Returns
  <2> QED
    BY <2>1, DocEnds
<1>2. CASE StepFails
  <2>1. at = "stepping" /\ at' = "returned" /\ sqlError' /\ UNCHANGED <<row, arr>>
    BY <1>2 DEF StepFails, Returns
  <2> QED
    BY <2>1, DocReadAll
<1>3. CASE SetByNames(rows)
  <2>1. at = "stepping" /\ at' = "returned" /\ row = Len(rows) /\ UNCHANGED <<row, arr>>
    BY <1>3 DEF SetByNames, Returns
  <2> QED
    BY <2>1, DocReadAll
<1> QED
  BY <1>1, <1>2, <1>3, DocCall, DocStepRow, DocStepNull, DocPerform, DocKeep, DocDiscard DEF DownloadManifests

\* The rows are those of the database from the start of the call on.
FirstListed == Pages /\ DocInv(UrlRows)

LEMMA RowsKept ==
  ASSUME NEW rows, rows = UrlRows, DocInv(rows)', UNCHANGED UrlRows \/ at' = "idle"
  PROVE  DocInv(UrlRows)'
<1>1. CASE at' = "idle"
  BY <1>1 DEF DocInv, FreshStart, AtRow, AllServed, ReadAll, KeptIsFirst, NoBracketYet, ParsedIsMeant, Reading
<1>2. CASE UNCHANGED UrlRows
  BY <1>2 DEF DocInv, FreshStart, AtRow, AllServed, ReadAll, KeptIsFirst, NoBracketYet, ParsedIsMeant,
     WellFormedUpTo, FirstMeant, Reached
<1> QED
  BY <1>1, <1>2

LEMMA FirstListedStep ==
  ASSUME FirstListed, PhaseInv, PhaseInv', EntriesInv, ListInv, [Next]_vars
  PROVE  FirstListed'
<1>1. UNCHANGED served /\ Pages'
  <2>1. UNCHANGED served
    BY DEF Next, vars, StartBlob, CreateBlob, StartDownload, OpenDb, DbOpened, Download, Report, AskForPatch,
       End, Crash, KeepAll
  <2> QED
    BY <2>1 DEF FirstListed, Pages, IsPage
<1>2. PICK rows : rows = UrlRows
  OBVIOUS
<1>3. DocInv(rows) /\ DocState
  BY <1>2 DEF FirstListed, DocState
<1>4. CASE Download
  <2>1. UNCHANGED UrlRows
    BY <1>4 DEF Download, dbVars, UrlRows
  <2>2. DownloadManifests(rows)
    BY <1>2, <1>4 DEF Download, DownloadManifests
  <2>3. DocInv(rows)'
    BY <1>1, <1>3, <2>2, DocDownload
  <2>4. DocInv(UrlRows)'
    BY <1>2, <2>1, <2>3, RowsKept
  <2> QED
    BY <1>1, <2>4 DEF FirstListed
<1>5. CASE End \/ Crash
  <2>1. at' = "idle" /\ row' = 0 /\ accum' = <<>>
    BY <1>5 DEF End, Crash, Release, Killed, Forget
  <2>2. DocInv(rows)'
    BY <2>1, DocEnds
  <2>3. DocInv(UrlRows)'
    BY <1>2, <2>1, <2>2, RowsKept
  <2> QED
    BY <1>1, <2>3 DEF FirstListed
<1>6. CASE UNCHANGED <<at, rc, row, accum, arr, sqlError>> /\ (UNCHANGED UrlRows \/ at' = "idle")
  <2>1. DocInv(rows)'
    BY <1>1, <1>3, <1>6, DocSame
  <2>2. DocInv(UrlRows)'
    BY <1>2, <1>6, <2>1, RowsKept
  <2> QED
    BY <1>1, <2>2 DEF FirstListed
<1>7. CASE AskForPatch
  BY <1>6, <1>7 DEF AskForPatch, DownloadPatch, dbVars, UrlRows
<1>8. CASE OpenDb
  <2>1. at = "idle" /\ UNCHANGED patchVars
    BY <1>8 DEF OpenDb, PhaseInv
  <2> QED
    BY <1>6, <2>1 DEF patchVars
<1>9. CASE UNCHANGED <<patchVars, dbVars>>
  BY <1>6, <1>9 DEF patchVars, dbVars, UrlRows
<1> QED
  BY <1>4, <1>5, <1>7, <1>8, <1>9
     DEF Next, vars, StartBlob, CreateBlob, StartDownload, DbOpened, Report

\* When the call succeeds over pages that are well formed, what is listed is what
\* the document of the first page that lists anything was meant to list, name by
\* name and value by value: for every such document, every number of rows and of
\* pages that run together in accum, whichever calls fail and however often the
\* program is run and killed.
THEOREM ManifestListed == Spec => []ListsFirst
<1>1. Init => FirstListed
  <2> SUFFICES ASSUME Init
               PROVE  FirstListed
    OBVIOUS
  <2>1. at = "idle" /\ row = 0 /\ accum = <<>> /\ Pages
    BY DEF Init, PatchInit, Pages
  <2> QED
    BY <2>1 DEF FirstListed, DocInv, FreshStart, AtRow, AllServed, ReadAll, KeptIsFirst, NoBracketYet,
       ParsedIsMeant, Reading
<1>2. FirstListed /\ PhaseInv /\ PhaseInv' /\ EntriesInv /\ ListInv /\ [Next]_vars => FirstListed'
  BY FirstListedStep
<1>3. FirstListed => ListsFirst
  <2> SUFFICES ASSUME FirstListed, at = "returned", rc = "None"
               PROVE  ListsFirst
    BY DEF ListsFirst, ListsFirstManifest
  <2>1. Kept = row /\ (sqlError \/ row = Len(UrlRows))
    BY DEF FirstListed, DocInv, ReadAll, Kept
  <2>2. WellFormedUpTo(UrlRows, row) => EntriesOf(patches) = FirstMeant(UrlRows, Reached(UrlRows, row))
    BY <2>1 DEF FirstListed, DocInv, KeptIsFirst, Reading
  <2> QED
    BY <2>1, <2>2 DEF ListsFirst, ListsFirstManifest, WellFormedUpTo, Reached
<1>4. Spec => []FirstListed
  BY <1>1, <1>2, EntriesInvariant, ListInvariant, PTL DEF Spec
<1> QED
  BY <1>3, <1>4, PTL

(***************************************************************************)
(* The types                                                               *)
(***************************************************************************)
Phases == {"ended", "blob", "db", "download", "reported"}

LEMMA DbTypeStep ==
  ASSUME DbInv, DbTypeOK, DbNext \/ ProcessEnds \/ UNCHANGED dbVars
  PROVE  DbTypeOK'
<1> USE DEF DbInv, DbTypeOK, DbReturns
<1>1. CASE OpenExisting \/ OpenFails \/ OpenAgain
  BY <1>1 DEF OpenExisting, OpenFails, OpenAgain
<1>2. CASE CreateFile
  <2>1. conn'.at = "creating" /\ conn'.pending = <<>>
    BY <1>2 DEF CreateFile, NoConn
  <2>2. file'.exists /\ file'.tables = file.tables
    BY <1>2 DEF CreateFile
  <2> QED
    BY <2>1, <2>2
<1>3. CASE NoSchema \/ StatementFails
  <2>1. conn'.at = "open" /\ conn'.pending \in {<<>>, conn.pending} /\ file' = file
    BY <1>3 DEF NoSchema, StatementFails
  <2> QED
    BY <2>1
<1>4. CASE CreateTable
  <2>1. conn' = conn /\ file'.exists /\ file.tables < Tables /\ file'.tables = file.tables + 1
    BY <1>4 DEF CreateTable
  <2>2. file'.tables \in 0 .. Tables
    BY <2>1, DbAssumption DEF DbAssumption
  <2> QED
    BY <2>1, <2>2
<1>5. CASE InsertUrls
  <2>1. file' = file /\ conn'.at = conn.at /\ conn'.pending = DefaultRows
    BY <1>5 DEF InsertUrls
  <2> QED
    BY <2>1
<1>6. CASE Commit
  <2>1. conn'.at = "open" /\ conn'.pending = <<>> /\ file'.exists /\ file'.tables = file.tables
    BY <1>6 DEF Commit
  <2> QED
    BY <2>1
<1>7. CASE ProcessEnds
  <2>1. conn'.at = "closed" /\ conn'.pending = <<>> /\ file' = file
    BY <1>7 DEF ProcessEnds, NoConn
  <2> QED
    BY <2>1
<1>8. CASE UNCHANGED dbVars
  BY <1>8 DEF dbVars
<1> QED
  BY <1>1, <1>2, <1>3, <1>4, <1>5, <1>6, <1>7, <1>8 DEF DbNext

LEMMA DbTypeInit == Init => DbTypeOK
<1> SUFFICES ASSUME Init
             PROVE  DbTypeOK
  OBVIOUS
<1>1. conn.at = "closed" /\ conn.pending = <<>>
  BY DEF Init, DbInit, NoConn
<1>2. file = NoFile \/ file = WithRows(file.rows)
  BY ProgramAssumption DEF ProgramAssumption, Init, DbInit
<1>3. file.tables \in 0 .. Tables /\ (~file.exists => file = NoFile)
  BY <1>2, DbAssumption DEF DbAssumption, NoFile, WithRows
<1> QED
  BY <1>1, <1>3 DEF DbTypeOK

LEMMA PatchTypes == ListInv => PatchTypeOK
<1> SUFFICES ASSUME ListInv
             PROVE  PatchTypeOK
  OBVIOUS
<1>1. GoodArrays /\ Indexed
  BY DEF ListInv
<1>2. \A a \in DOMAIN arr : Len(arr[a].items) <= arr[a].capacity
  BY <1>1 DEF GoodArrays, GoodArray
<1>3. \A i \in DOMAIN patches : IsCString(patches[i].name)
  BY <1>1 DEF GoodArrays, GoodArray, patches
<1>4. ASSUME NEW name \in DOMAIN byName
      PROVE  byName[name] \in DOMAIN patches
  <2>1. PICK n \in 0 .. Len(patches) : byName = Index(n)
    BY <1>1 DEF Indexed
  <2> QED
    BY <1>1, <2>1, IndexLeads
<1> QED
  BY <1>2, <1>3, <1>4 DEF PatchTypeOK, ListInv, Places

\* The blob writer, the database and the downloads are at rest when main is
\* elsewhere; arrays have room for what they hold, names end with a terminator,
\* and the index names entries that are there: for every page and every failure.
THEOREM ProgramTypeCorrect == Spec => []TypeOK
<1> DEFINE TypeInv == phase \in Phases /\ DbTypeOK
<1>1. Init => TypeInv
  BY DbTypeInit DEF Init, Phases
<1>2. DbInv /\ TypeInv /\ [Next]_vars => TypeInv'
  <2>1. phase \in Phases /\ [Next]_vars => phase' \in Phases
    BY DEF Phases, Next, vars, StartBlob, CreateBlob, StartDownload, OpenDb, DbOpened, Download, Report,
       AskForPatch, End, Crash
  <2> QED
    BY <2>1, DbMoves, DbTypeStep
<1>3. Spec => []TypeInv
  <2> HIDE DEF TypeInv
  <2> QED
    BY <1>1, <1>2, DbInvariant, PTL DEF Spec
<1>4. TypeInv /\ PhaseInv /\ ListInv => TypeOK
  BY PatchTypes DEF TypeOK, PhaseInv, Phases
<1> HIDE DEF TypeInv
<1> QED
  BY <1>3, <1>4, EntriesInvariant, ListInvariant, PTL

(***************************************************************************)
(* The blob                                                                *)
(***************************************************************************)
Chars == UNION {Range(p) : p \in DOMAIN Bytes}
Cells == UNION {Range(Bytes[p]) : p \in DOMAIN Bytes}

Header == [path : DOMAIN Bytes, nameLength : Nat, nameOffset : Nat, dataLength : Nat, dataOffset : Nat]

\* The len cells of s behind the first offset.
Part(s, offset, len) == SubSeq(s, offset + 1, offset + len)

LEMMA PartBefore ==
  ASSUME NEW S, NEW s \in Seq(S), NEW t \in Seq(S), NEW offset \in Nat, NEW len \in Nat,
         offset + len <= Len(s)
  PROVE  Part(s \o t, offset, len) = Part(s, offset, len)
BY DEF Part

LEMMA PartBehind ==
  ASSUME NEW S, NEW s \in Seq(S), NEW T, NEW t \in Seq(T), NEW offset \in Nat, NEW len \in Nat,
         offset + len <= Len(t)
  PROVE  Part(s \o t, Len(s) + offset, len) = Part(t, offset, len)
BY DEF Part

LEMMA PartWhole ==
  ASSUME NEW S, NEW s \in Seq(S)
  PROVE  Part(s, 0, Len(s)) = s
BY DEF Part

\* A path and what its file holds.
LEMMA PathType ==
  ASSUME NEW p \in DOMAIN Bytes
  PROVE  p \in Seq(Chars) /\ Bytes[p] \in Seq(Cells)
<1>1. p \in Seq(Range(p)) /\ Bytes[p] \in Seq(Range(Bytes[p]))
  BY BlobAssumption DEF BlobAssumption
<1>2. Range(p) \subseteq Chars /\ Range(Bytes[p]) \subseteq Cells
  BY DEF Chars, Cells
<1> HIDE DEF Chars, Cells
<1> QED
  BY <1>1, <1>2

LEMMA NameType ==
  ASSUME NEW p \in DOMAIN Bytes
  PROVE  bin_filename(p) \in Seq(Chars)
<1> DEFINE cuts == {i \in DOMAIN p : p[i] \in Separators} \cup {0}
<1>1. p \in Seq(Chars)
  BY PathType
<1>2. cuts \in SUBSET (0 .. Len(p)) /\ cuts # {} /\ Len(p) \in Nat
  BY <1>1
<1>3. Max(cuts) \in 0 .. Len(p)
  BY <1>2, MaxIsGreatest
<1> HIDE DEF cuts
<1>4. SubSeq(p, Max(cuts) + 1, Len(p)) \in Seq(Chars)
  BY <1>1, <1>3
<1> QED
  BY <1>4 DEF bin_filename, cuts

BlobTypes ==
  /\ argv \in Seq(DOMAIN Bytes) /\ arg \in 0 .. Len(argv)
  /\ subHeaders \in Seq(Header)
  /\ names \in Seq(Chars) /\ files \in Seq(Cells)
  /\ noff \in Nat /\ doff \in Nat

\* The data of each file lies where its header says, counted from shift.
Placed(shift) ==
  \A i \in DOMAIN subHeaders :
    LET h == subHeaders[i]  offset == h.dataOffset - shift IN
    /\ offset \in Nat /\ offset + h.dataLength <= Len(files)
    /\ Part(files, offset, h.dataLength) = Bytes[h.path]

Base == HeaderSize + SubHeaderSize * Len(subHeaders)

\* While the arguments are read the offsets count from the first file, and from
\* the beginning of the blob once they are corrected.
Arranged ==
  /\ step \in {"ready", "reading"} => doff = Len(files) /\ Placed(0)
  /\ step \in {"opening", "writing"} => Placed(Base + Len(names))

ManifestIn(headers) == \E i \in DOMAIN headers : IsManifest(bin_filename(headers[i].path))

\* hadManifest is up only for a file that is in the arrays.
ManifestSeen ==
  /\ hadManifest => ManifestIn(subHeaders)
  /\ step \in {"opening", "writing"} => hadManifest

BlobInv == BlobTypes /\ Arranged /\ ManifestSeen /\ BlobDataFound /\ BlobHasManifest

LEMMA BaseType == ASSUME BlobTypes PROVE Base \in Nat
<1>1. Len(subHeaders) \in Nat /\ SubHeaderSize \in Nat /\ HeaderSize \in Nat
  BY BlobAssumption DEF BlobAssumption, BlobTypes
<1>2. SubHeaderSize * Len(subHeaders) \in Nat
  BY <1>1
<1> QED
  BY <1>1, <1>2 DEF Base

\* A step that leaves the blob alone and writes its properties.
LEMMA BlobFrame ==
  ASSUME BlobDataFound, BlobHasManifest, UNCHANGED blob
  PROVE  BlobDataFound' /\ BlobHasManifest'
BY DEF BlobDataFound, BlobHasManifest, InBlob

LEMMA TakeFileKeeps ==
  ASSUME BlobInv, TakeFile, UNCHANGED argv
  PROVE  BlobInv'
<1> DEFINE p == Arg
           name == bin_filename(p)
           h == [path |-> p, nameLength |-> Len(name), nameOffset |-> noff,
                 dataLength |-> Len(Bytes[p]), dataOffset |-> doff]
<1>1. p \in DOMAIN Bytes /\ arg + 1 \in 0 .. Len(argv)
  BY DEF TakeFile, BlobInv, BlobTypes, Arg
<1>2. Bytes[p] \in Seq(Cells) /\ name \in Seq(Chars) /\ Len(Bytes[p]) \in Nat /\ Len(name) \in Nat
  BY <1>1, PathType, NameType
<1>3. /\ step = "reading" /\ arg' = arg + 1
      /\ hadManifest' = (hadManifest \/ IsManifest(name))
      /\ subHeaders' = Append(subHeaders, h)
      /\ noff' = noff + Len(name) + 1 /\ doff' = doff + Len(Bytes[p])
      /\ names' = names \o name /\ files' = files \o Bytes[p]
      /\ UNCHANGED <<step, blob>>
  BY DEF TakeFile
<1> HIDE DEF p, name
<1>4. h \in Header
  BY <1>1, <1>2 DEF Header, BlobInv, BlobTypes
<1>h. h.path = p /\ h.dataLength = Len(Bytes[p]) /\ h.dataOffset = doff
  OBVIOUS
<1> HIDE DEF h
<1>5. BlobTypes'
  BY <1>1, <1>2, <1>3, <1>4 DEF BlobInv, BlobTypes
<1>6. files \in Seq(Cells) /\ Len(files) \in Nat /\ doff = Len(files) /\ Placed(0)
  BY <1>3 DEF BlobInv, BlobTypes, Arranged
<1>7. Len(files') = Len(files) + Len(Bytes[p])
  BY <1>2, <1>3, <1>6
<1>8. ASSUME NEW i \in DOMAIN subHeaders'
      PROVE  /\ subHeaders'[i].dataOffset - 0 \in Nat
             /\ subHeaders'[i].dataOffset - 0 + subHeaders'[i].dataLength <= Len(files')
             /\ Part(files', subHeaders'[i].dataOffset - 0, subHeaders'[i].dataLength)
                  = Bytes[subHeaders'[i].path]
  <2>1. CASE i \in DOMAIN subHeaders
    <3> DEFINE g == subHeaders[i]
    <3>1. subHeaders'[i] = g /\ g \in Header
      BY <1>3, <2>1 DEF BlobInv, BlobTypes
    <3>2. g.dataOffset \in Nat /\ g.dataLength \in Nat /\ g.dataOffset - 0 = g.dataOffset
      BY <3>1 DEF Header
    <3>3. g.dataOffset + g.dataLength <= Len(files) /\ Part(files, g.dataOffset, g.dataLength) = Bytes[g.path]
      BY <1>6, <2>1, <3>2 DEF Placed
    <3> HIDE DEF g
    <3>4. Part(files \o Bytes[p], g.dataOffset, g.dataLength) = Part(files, g.dataOffset, g.dataLength)
      BY <1>2, <1>6, <3>2, <3>3, PartBefore
    <3> QED
      BY <1>2, <1>3, <1>6, <1>7, <3>1, <3>2, <3>3, <3>4
  <2>2. CASE i = Len(subHeaders) + 1
    <3>1. subHeaders'[i] = h
      BY <1>3, <1>4, <2>2 DEF BlobInv, BlobTypes
    <3>2. Part(files \o Bytes[p], Len(files) + 0, Len(Bytes[p])) = Part(Bytes[p], 0, Len(Bytes[p]))
      BY <1>2, <1>6, PartBehind
    <3>3. Part(Bytes[p], 0, Len(Bytes[p])) = Bytes[p]
      BY <1>2, PartWhole
    <3> QED
      BY <1>2, <1>3, <1>6, <1>7, <1>h, <3>1, <3>2, <3>3
  <2> QED
    BY <1>3, <1>4, <1>8, <2>1, <2>2 DEF BlobInv, BlobTypes
<1>9. Arranged'
  <2>1. Placed(0)'
    BY <1>8 DEF Placed
  <2> QED
    BY <1>2, <1>3, <1>6, <1>7, <2>1 DEF Arranged
<1>10. ManifestSeen'
  <2>1. CASE IsManifest(name)
    <3>1. Len(subHeaders) + 1 \in DOMAIN subHeaders' /\ subHeaders'[Len(subHeaders) + 1] = h
      BY <1>3, <1>4 DEF BlobInv, BlobTypes
    <3> QED
      BY <1>3, <1>h, <2>1, <3>1 DEF ManifestSeen, ManifestIn, name
  <2>2. CASE ~IsManifest(name)
    <3>1. \A i \in DOMAIN subHeaders : i \in DOMAIN subHeaders' /\ subHeaders'[i] = subHeaders[i]
      BY <1>3, <1>4 DEF BlobInv, BlobTypes
    <3> QED
      BY <1>3, <2>2, <3>1 DEF BlobInv, ManifestSeen, ManifestIn
  <2> QED
    BY <2>1, <2>2
<1> QED
  BY <1>3, <1>5, <1>9, <1>10, BlobFrame DEF BlobInv

\* "Correct offsets to be relative to the start of the whole blob": by as much
\* as lies in front of the first file.
LEMMA CorrectKeeps ==
  ASSUME BlobInv, Correct, UNCHANGED argv
  PROVE  BlobInv'
<1>1. Base \in Nat /\ Len(names) \in Nat
  BY BaseType DEF BlobInv, BlobTypes
<1>2. /\ step = "reading" /\ step' = "opening" /\ hadManifest
      /\ noff' = Base /\ doff' = Base + Len(names)
      /\ UNCHANGED <<arg, names, files, hadManifest, blob>>
  BY DEF Correct, Moves, Base
<1>3. subHeaders' = [i \in DOMAIN subHeaders |->
                       [subHeaders[i] EXCEPT !.nameOffset = @ + noff', !.dataOffset = @ + doff']]
  BY DEF Correct
<1>4. subHeaders \in Seq(Header) /\ Placed(0)
  BY <1>2 DEF BlobInv, BlobTypes, Arranged
<1>5. ASSUME NEW i \in DOMAIN subHeaders
      PROVE  /\ subHeaders'[i] \in Header
             /\ subHeaders'[i].path = subHeaders[i].path
             /\ subHeaders'[i].dataLength = subHeaders[i].dataLength
             /\ subHeaders'[i].dataOffset = subHeaders[i].dataOffset + (Base + Len(names))
  <2>1. subHeaders[i] \in Header
    BY <1>4
  <2>2. subHeaders'[i] = [subHeaders[i] EXCEPT !.nameOffset = @ + noff', !.dataOffset = @ + doff']
    BY <1>3
  <2>3. noff' \in Nat /\ doff' \in Nat
    BY <1>1, <1>2
  <2>4. subHeaders'[i] = [path |-> subHeaders[i].path,
                          nameLength |-> subHeaders[i].nameLength,
                          nameOffset |-> subHeaders[i].nameOffset + noff',
                          dataLength |-> subHeaders[i].dataLength,
                          dataOffset |-> subHeaders[i].dataOffset + doff']
    BY <2>1, <2>2 DEF Header
  <2> QED
    BY <1>2, <2>1, <2>3, <2>4 DEF Header
<1>6. subHeaders' \in Seq(Header) /\ Len(subHeaders') = Len(subHeaders)
  <2>1. DOMAIN subHeaders = 1 .. Len(subHeaders) /\ Len(subHeaders) \in Nat
    BY <1>4
  <2>2. subHeaders' = [i \in 1 .. Len(subHeaders) |-> subHeaders'[i]]
    BY <1>3, <2>1
  <2>3. \A i \in 1 .. Len(subHeaders) : subHeaders'[i] \in Header
    BY <1>5, <2>1
  <2> QED
    BY <2>1, <2>2, <2>3
<1>7. BlobTypes'
  BY <1>1, <1>2, <1>6 DEF BlobInv, BlobTypes
<1>8. Base' = Base
  BY <1>6 DEF Base
<1>9. Placed(Base + Len(names))'
  <2> SUFFICES ASSUME NEW i \in DOMAIN subHeaders
               PROVE  LET h == subHeaders'[i]  offset == h.dataOffset - (Base + Len(names)) IN
                      /\ offset \in Nat /\ offset + h.dataLength <= Len(files)
                      /\ Part(files, offset, h.dataLength) = Bytes[h.path]
    BY <1>2, <1>3, <1>8 DEF Placed
  <2>0. subHeaders[i] \in Header
    BY <1>4
  <2>1. subHeaders[i].dataOffset \in Nat
    BY <2>0 DEF Header
  <2>2. subHeaders'[i].dataOffset - (Base + Len(names)) = subHeaders[i].dataOffset
    BY <1>1, <1>5, <2>1
  <2>3. subHeaders[i].dataOffset - 0 = subHeaders[i].dataOffset
    BY <2>1
  <2> QED
    BY <1>4, <1>5, <2>2, <2>3 DEF Placed
<1>10. Arranged' /\ ManifestSeen'
  BY <1>2, <1>3, <1>5, <1>9 DEF BlobInv, Arranged, ManifestSeen, ManifestIn
<1> QED
  BY <1>2, <1>7, <1>10, BlobFrame DEF BlobInv

\* What is written is what has been arranged.
LEMMA WriteBlobKeeps ==
  ASSUME BlobInv, WriteBlob, UNCHANGED argv
  PROVE  BlobInv'
<1>1. /\ step = "writing" /\ step' = "done"
      /\ UNCHANGED <<arg, subHeaders, names, files, noff, doff, hadManifest>>
      /\ blob'.whole /\ blob'.subHeaders = subHeaders /\ blob'.names = names /\ blob'.files = files
  BY DEF WriteBlob, BlobEnds
<1>2. BlobTypes' /\ Arranged' /\ ManifestSeen'
  BY <1>1 DEF BlobInv, BlobTypes, Arranged, ManifestSeen
<1>3. BlobHasManifest'
  BY <1>1 DEF BlobInv, ManifestSeen, ManifestIn, BlobHasManifest
<1>4. BlobDataFound'
  <2> SUFFICES ASSUME NEW i \in DOMAIN subHeaders
               PROVE  InBlob(subHeaders[i].dataOffset, subHeaders[i].dataLength)' = Bytes[subHeaders[i].path]
    BY <1>1 DEF BlobDataFound
  <2> DEFINE h == subHeaders[i]
             offset == h.dataOffset - (Base + Len(names))
  <2>1. h \in Header /\ Len(names) \in Nat /\ Base \in Nat
    BY BaseType DEF BlobInv, BlobTypes
  <2>2. h.dataOffset \in Nat /\ h.dataLength \in Nat
    BY <2>1 DEF Header
  <2>3. offset \in Nat /\ offset + h.dataLength <= Len(files) /\ Part(files, offset, h.dataLength) = Bytes[h.path]
    BY <1>1 DEF BlobInv, Arranged, Placed
  <2>4. h.dataOffset - HeaderSize - SubHeaderSize * Len(subHeaders) = Len(names) + offset
    <3>1. Len(subHeaders) \in Nat /\ SubHeaderSize \in Nat /\ HeaderSize \in Nat
      BY BlobAssumption DEF BlobAssumption, BlobInv, BlobTypes
    <3>2. SubHeaderSize * Len(subHeaders) \in Nat
      BY <3>1
    <3> QED
      BY <2>1, <2>2, <3>1, <3>2 DEF Base
  <2>5. InBlob(h.dataOffset, h.dataLength)' = Part(names \o files, Len(names) + offset, h.dataLength)
    BY <1>1, <2>4 DEF InBlob, Part
  <2> HIDE DEF h, offset
  <2>6. Part(names \o files, Len(names) + offset, h.dataLength) = Part(files, offset, h.dataLength)
    BY <2>2, <2>3, PartBehind DEF BlobInv, BlobTypes
  <2> QED
    BY <2>3, <2>5, <2>6 DEF h
<1> QED
  BY <1>2, <1>3, <1>4 DEF BlobInv

LEMMA BlobStep ==
  ASSUME BlobInv, BlobNext \/ BlobReset \/ UNCHANGED blobVars, UNCHANGED argv
  PROVE  BlobInv'
<1>1. CASE BeginBlob
  BY <1>1, BlobFrame DEF BeginBlob, Moves, BlobInv, BlobTypes, Arranged, Placed, ManifestSeen
<1>2. CASE SkipFile
  BY <1>2, BlobFrame DEF SkipFile, BlobInv, BlobTypes, Arranged, Placed, ManifestSeen
<1>3. CASE OutOfMemory \/ NoManifest \/ OpenBlobFails \/ WriteBlobFails
  BY <1>3, BlobFrame DEF OutOfMemory, NoManifest, OpenBlobFails, WriteBlobFails, BlobEnds,
     BlobInv, BlobTypes, Arranged, ManifestSeen
<1>4. CASE OpenBlob
  <2>1. BlobDataFound' /\ BlobHasManifest'
    <3>1. blob'.subHeaders = <<>> /\ blob'.whole = FALSE
      BY <1>4 DEF OpenBlob, NoBlob
    <3> QED
      BY <3>1 DEF BlobDataFound, BlobHasManifest
  <2> QED
    BY <1>4, <2>1 DEF OpenBlob, Moves, BlobInv, BlobTypes, Arranged, Placed, Base, ManifestSeen
<1>5. CASE BlobReset
  BY <1>5, BlobFrame DEF BlobReset, BlobInv, BlobTypes, Arranged, Placed, ManifestSeen
<1>6. CASE UNCHANGED blobVars
  BY <1>6, BlobFrame DEF blobVars, BlobInv, BlobTypes, Arranged, Placed, Base, ManifestSeen
<1> QED
  BY <1>1, <1>2, <1>3, <1>4, <1>5, <1>6, TakeFileKeeps, CorrectKeeps, WriteBlobKeeps DEF BlobNext

\* What main does with the blob in one step.
LEMMA BlobMoves == [Next]_vars => UNCHANGED argv /\ (BlobNext \/ BlobReset \/ UNCHANGED blobVars)
BY DEF Next, vars, StartBlob, CreateBlob, StartDownload, OpenDb, DbOpened, Download, Report, AskForPatch,
   End, Crash, KeepAll, BlobNext

THEOREM BlobInvariant == Spec => []BlobInv
<1>1. Init => BlobInv
  <2> SUFFICES ASSUME Init
               PROVE  BlobInv
    OBVIOUS
  <2>1. blob.subHeaders = <<>> /\ blob.whole = FALSE
    BY DEF Init, BlobInit, NoBlob
  <2>2. BlobDataFound /\ BlobHasManifest
    BY <2>1 DEF BlobDataFound, BlobHasManifest
  <2> QED
    BY <2>2 DEF Init, BlobInit, BlobInv, BlobTypes, Arranged, Placed, ManifestSeen
<1>2. BlobInv /\ [Next]_vars => BlobInv'
  BY BlobStep, BlobMoves
<1> QED
  BY <1>1, <1>2, PTL DEF Spec

\* Every file of a written blob is found at the offset and length its header
\* gives, for any files, names and sizes of the headers, whichever were skipped
\* and wherever earlier runs were killed.
THEOREM BlobKeepsData == Spec => []BlobDataFound
<1>1. BlobInv => BlobDataFound
  BY DEF BlobInv
<1> QED
  BY <1>1, BlobInvariant, PTL

\* No blob is whole without the bytes of a manifest.
THEOREM BlobKeepsManifest == Spec => []BlobHasManifest
<1>1. BlobInv => BlobHasManifest
  BY DEF BlobInv
<1> QED
  BY <1>1, BlobInvariant, PTL

==============================================================================
