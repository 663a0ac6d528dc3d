---------------------------- MODULE SimpleString -----------------------------
(***************************************************************************)
(* SimpleString of src/src/edp_string.c on SimpleBuffer of edp_buffer.c:   *)
(* a length and a block of that many cells, made once and never changed.   *)
(* Its last cell is for a terminator, and sstr_length does not count it.   *)
(***************************************************************************)
EXTENDS Naturals, Sequences

Nul == "nul"    \* the byte 0
Raw == "raw"    \* a byte nobody has written

\* buf_create.
buf_create(cells) == [length |-> Len(cells), data |-> cells]

\* The n cells memcpy finds from the i-th on, also where the text has ended:
\* its terminator, then whatever lies there.
CellsOf(text, i, n) ==
  [j \in 1 .. n |-> IF i + j - 1 <= Len(text) THEN text[i + j - 1]
                    ELSE IF i + j - 1 = Len(text) + 1 THEN Nul ELSE Raw]

\* A mutant: the cell for the terminator keeps what was copied into it.
sstr_create_Unterminated(text, i, len) == buf_create(CellsOf(text, i, len + 1))

\* sstr_create of a slice.
sstr_create(text, i, len) == buf_create(CellsOf(text, i, len) \o <<Nul>>)

\* sstr_from_file of a file that is not empty: the last cell is not written.
sstr_from_file(bytes) == buf_create(Append(bytes, Raw))

sstr_length(ss) == ss.length - 1

\* The cells sstr_data points to, as many as sstr_length says.
sstr_text(ss) == SubSeq(ss.data, 1, sstr_length(ss))

\* Whether the cells end with the terminator a C string needs.
IsCString(ss) == ss.data[ss.length] = Nul

==============================================================================
