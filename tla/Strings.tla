------------------------------- MODULE Strings -------------------------------
(***************************************************************************)
(* The growing String of src/src/edp_string.c: a length and a block of     *)
(* cells, the block a power of two of bit.c.  Cells that realloc adds are  *)
(* unwritten, and str_clear writes none.                                   *)
(***************************************************************************)
EXTENDS SimpleString

CONSTANTS
  Chars,           \* bytes other than the terminator
  Inputs, Files,   \* what callers append, and what files hold
  MaxStrCapacity   \* bound: realloc gives no larger block

ASSUME StringsAssumption ==
  /\ Inputs \cup Files \subseteq Seq(Chars)
  /\ MaxStrCapacity \in 1 .. 2 ^ 30

VARIABLES
  string,   \* struct String: its length, and its block, capacity cells long
  text,     \* history: the bytes appended since the string was last emptied
  ended     \* history: whether the last call that changed it is one that writes a terminator

strVars == <<string, text, ended>>

NoBlock == [length |-> 0, data |-> <<>>]

StrInit == string = NoBlock /\ text = <<>> /\ ended = FALSE    \* str_init

Powers == {2 ^ k : k \in 0 .. 30}
LeastOf(S) == CHOOSE n \in S : \A m \in S : n <= m

\* A mutant: bit_pow2_greater_or_equal_u32 in its place.
Pow2GreaterThan_OrEqual(n) == LeastOf({p \in Powers : p >= n})

\* bit_pow2_greater_than_u32, below the length at which it overflows.
Pow2GreaterThan(n) == LeastOf({p \in Powers : p > n})

\* The capacity after str_reserve, or before the copy of str_append: a block
\* of newlen cells has no room for the terminator.
CapacityFor(s, newlen) == IF newlen >= Len(s.data) THEN Pow2GreaterThan(newlen) ELSE Len(s.data)

\* str_realloc, when there is need.
Grown(s, newlen) ==
  [i \in 1 .. CapacityFor(s, newlen) |-> IF i <= Len(s.data) THEN s.data[i] ELSE Raw]

\* The block with cells written from the n-th on.
Overlay(data, n, cells) ==
  [i \in DOMAIN data |-> IF i \in n + 1 .. n + Len(cells) THEN cells[i - n] ELSE data[i]]

ClearedStr(s) == [s EXCEPT !.length = 0]

Appended(s, input) ==
  LET newlen == s.length + Len(input)
  IN  [length |-> newlen, data |-> Overlay(Grown(s, newlen), s.length, Append(input, Nul))]

\* A mutant: only a complete read is terminated.
ReadShort_NoNul(s, bytes, k) ==
  [length |-> s.length,
   data   |-> Overlay(Grown(s, s.length + Len(bytes)), s.length, SubSeq(bytes, 1, k))]

\* A mutant: the length of the file counts, whatever fread returned.
ReadShort_Counted(s, bytes, k) ==
  [length |-> s.length + Len(bytes),
   data   |-> Overlay(Grown(s, s.length + Len(bytes)), s.length, SubSeq(bytes, 1, k) \o <<Nul>>)]

\* fread stops after k bytes: they have overwritten the terminator.
ReadShort(s, bytes, k) ==
  [length |-> s.length,
   data   |-> Overlay(Overlay(Grown(s, s.length + Len(bytes)), s.length, SubSeq(bytes, 1, k)),
                      s.length, <<Nul>>)]

Fits(s, newlen) == newlen < MaxStrCapacity /\ CapacityFor(s, newlen) <= MaxStrCapacity

StrBecomes(s, t, e) == string' = s /\ text' = t /\ ended' = e

\* str_append and str_append_char, after str_clear in str_set: from is the
\* string the call appends to, written its text.
AppendTo(from, written, input) ==
  /\ input # <<>>
  /\ Fits(from, from.length + Len(input))
  /\ StrBecomes(Appended(from, input), written \o input, TRUE)

\* str_append_file_ptr, after str_clear in str_set_from_file.
ReadTo(from, written, bytes) ==
  /\ bytes # <<>>
  /\ Fits(from, from.length + Len(bytes))
  /\ \/ StrBecomes(Appended(from, bytes), written \o bytes, TRUE)
     \/ \E k \in 0 .. Len(bytes) - 1 : StrBecomes(ReadShort(from, bytes, k), written, TRUE)

StrAppend(input) == AppendTo(string, text, input)
StrSet(input) == AppendTo(ClearedStr(string), <<>>, input)
AppendFile(bytes) == ReadTo(string, text, bytes)
SetFromFile(bytes) == ReadTo(ClearedStr(string), <<>>, bytes)

\* str_clear, alone or before an append that fails: no file, no bytes, no memory.
StrClear == StrBecomes(ClearedStr(string), <<>>, FALSE)

\* str_reserve.  Nobody reserves no room: realloc to no bytes is left out.
StrReserve(count) ==
  /\ count > 0
  /\ Fits(string, count)
  /\ StrBecomes([string EXCEPT !.data = Grown(string, count)], text, ended)

\* str_subtract_chars.
StrSubtract(n) ==
  /\ string.data # <<>>
  /\ LET len == IF n >= string.length THEN 0 ELSE string.length - n
     IN  StrBecomes([length |-> len, data |-> Overlay(string.data, len, <<Nul>>)],
                 SubSeq(text, 1, len), TRUE)

StrDeinit == StrBecomes(NoBlock, <<>>, FALSE)

\* Calls that are refused change nothing but what str_clear has done.
StrNext ==
  \/ \E input \in Inputs : StrAppend(input) \/ StrSet(input)
  \/ \E bytes \in Files : AppendFile(bytes) \/ SetFromFile(bytes)
  \/ \E n \in 0 .. MaxStrCapacity : StrReserve(n) \/ StrSubtract(n)
  \/ StrClear \/ StrDeinit

StrSpec == StrInit /\ [][StrNext]_strVars

(***************************************************************************)
(* Properties                                                              *)
(***************************************************************************)
\* The length always leaves a cell of the block for the terminator, through
\* every mixture of appends, reads and reservations.
StrTypeOK ==
  /\ Len(string.data) \in Powers \cup {0} /\ Len(string.data) <= MaxStrCapacity
  /\ IF string.data = <<>> THEN string.length = 0 ELSE string.length < Len(string.data)

\* The string is the bytes of the calls that succeeded: no unwritten cell and
\* no byte of a read that failed is ever part of it.
HoldsText == SubSeq(string.data, 1, string.length) = text

\* "New null terminator, or ensure we still have our original null terminator
\* on failure" (str_append_file_ptr), and the same of the other calls that write
\* one: behind the text lies the terminator.
Terminated == ended => string.data[string.length + 1] = Nul

==============================================================================
