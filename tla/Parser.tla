-------------------------------- MODULE Parser --------------------------------
(***************************************************************************)
(* The manifest parser of src/src/parse.c on the lexer of lex.c.           *)
(*                                                                         *)
(* A text is a sequence of tokens: words, which are what lex_read takes    *)
(* together, and single characters.  Each is counted as one cell.  The     *)
(* parser is the automaton over tokens that the loops of parse_file and    *)
(* of the functions it calls form; Tag is the inside of parse_tag.         *)
(***************************************************************************)
EXTENDS SimpleString, Functions

CONSTANTS
  Words,   \* Token_String
  Lower    \* tolower of each letter of a word

NewLine == "nl"
Spaces == {"sp", "cr", NewLine}    \* isspace

\* lex_read ends a word at what parse.c gives a meaning to.
ASSUME ParserAssumption == Words \cap (Spaces \cup {"[", "]", "=", "\\"}) = {}

\* A sequence, of tokens or whatever else.
IsSequence(s) == s \in Seq(Range(s))

\* parse_init, and lex_init on the text.
parse_init(text) ==
  [state |-> "Start", text |-> text, str |-> 0, len |-> 0, key |-> "no key",
   accum |-> <<>>, skipNewline |-> FALSE, readString |-> FALSE, content |-> <<>>]

Stop(p) == [p EXCEPT !.state = "Done"]    \* ERR_Done, which parse_file reports as success

EnterTag(p) == [p EXCEPT !.state = "Tag", !.str = 0, !.len = 0]

\* The ']' of parse_tag: the name is len cells from the first word on, and len
\* also counts the characters before that word.
FinishTag(p) ==
  [p EXCEPT !.content = Append(@, [name |-> sstr_create(p.text, p.str, p.len), fields |-> <<>>]),
            !.state = "Label"]

\* The end of a value in parse_value.  The key is a slice of the text, which
\* tbl_set_str never finds in the table: every field is added.
FinishValue(p) ==
  [p EXCEPT !.content[Len(p.content)].fields =
              Append(@, [label |-> p.key, value |-> p.accum]),
            !.state = "Label"]

\* str_append or str_append_char.
AppendToValue(p, tk) == [p EXCEPT !.accum = Append(@, tk), !.readString = TRUE]

parse_skip_until(p, tk) == IF tk = "[" THEN EnterTag(p) ELSE p

parse_tag(p, i, tk) ==
  CASE tk \in Words -> [p EXCEPT !.str = IF @ = 0 THEN i ELSE @, !.len = @ + 1]
    [] tk = "]"     -> IF p.str = 0 THEN Stop(p) ELSE FinishTag(p)
    [] OTHER        -> [p EXCEPT !.len = @ + 1]

\* The label is made lower case where it stands.
parse_label(p, i, tk) ==
  CASE tk \in Words -> [p EXCEPT !.text[i] = Lower[tk], !.key = Lower[tk], !.state = "Equals"]
    [] tk = "["     -> EnterTag(p)
    [] OTHER        -> p

parse_equals(p, tk) ==
  CASE tk = "="       -> [p EXCEPT !.state = "Value", !.accum = <<>>,
                                   !.skipNewline = FALSE, !.readString = FALSE]
    [] tk \in Spaces  -> p
    [] OTHER          -> Stop(p)

\* A mutant: a line that was continued is continued for ever.
parse_value_KeepsSkipping(p, tk) ==
  CASE tk \in Words                               -> AppendToValue(p, tk)
    [] tk = NewLine /\ p.skipNewline              -> [p EXCEPT !.skipNewline = FALSE]
    [] tk = NewLine /\ ~p.skipNewline             -> FinishValue(p)
    [] tk = "\\"                                  -> [p EXCEPT !.skipNewline = TRUE]
    [] tk \in Spaces \ {NewLine} /\ ~p.readString -> p
    [] OTHER                                      -> AppendToValue(p, tk)

\* A backslash joins this line and the next; no backslash is kept.
parse_value(p, tk) ==
  CASE tk \in Words                               -> [AppendToValue(p, tk) EXCEPT !.skipNewline = FALSE]
    [] tk = NewLine /\ p.skipNewline              -> [p EXCEPT !.skipNewline = FALSE]
    [] tk = NewLine /\ ~p.skipNewline             -> FinishValue(p)
    [] tk = "\\"                                  -> [p EXCEPT !.skipNewline = TRUE]
    [] tk \in Spaces \ {NewLine} /\ ~p.readString -> p
    [] OTHER                                      -> AppendToValue(p, tk)

\* One lex_adv, in the function the state leads to.
Advance(p, i) ==
  LET tk == p.text[i] IN
  CASE p.state = "Start"  -> parse_skip_until(p, tk)
    [] p.state = "Tag"    -> parse_tag(p, i, tk)
    [] p.state = "Label"  -> parse_label(p, i, tk)
    [] p.state = "Equals" -> parse_equals(p, tk)
    [] p.state = "Value"  -> parse_value(p, tk)
    [] p.state = "Done"   -> p

\* The parser at the end of the text.
parse_file(text) ==
  LET after[i \in 0 .. Len(text)] == IF i = 0 THEN parse_init(text) ELSE Advance(after[i - 1], i)
  IN  after[Len(text)]

==============================================================================
