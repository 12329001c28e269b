----------------------------- MODULE JsonWriter -----------------------------
(***************************************************************************)
(* json_spirit_writer_template.h: the text of a value, as tokens.  A       *)
(* string is one token, made of the characters between its quotes, escapes *)
(* included; a number or a word is one token; white space is a token.      *)
(***************************************************************************)
EXTENDS JsonValue, SequencesExt

Mark(c)   == <<"mark", c>>
Quoted(s) == <<"quoted", s>>
Number(n) == <<"number", n>>
RealNumber(r) == <<"real", r>>
Word(w)   == <<"word", w>>
Blank     == <<"blank", 0>>

\* opt has the Output_options pretty, raw_utf8, esc_nonascii and
\* single_line_arrays, and printable: what iswprint says in the locale.

-----------------------------------------------------------------------------
\* Escapes.  Characters from 256 on are words.
QuoteMark == 34
Backslash == 92
Slash     == 47
LetterU   == 117
LetterX   == 120

\* The characters with a short escape, and its letter: \b \t \n \f \r " \.
ShortEscape == [c \in {8, 9, 10, 12, 13, QuoteMark, Backslash} |->
    CASE c = 8 -> 98 [] c = 9 -> 116 [] c = 10 -> 110 [] c = 12 -> 102 [] c = 13 -> 114
      [] OTHER -> c]

ToHexChar(d) == IF d < 10 THEN 48 + d ELSE 55 + d

NonPrintable(c) ==
    <<Backslash, LetterU, ToHexChar((c \div 4096) % 16), ToHexChar((c \div 256) % 16),
      ToHexChar((c \div 16) % 16), ToHexChar(c % 16)>>

\* Slip: the backslash is not escaped.
EscapeNoBackslash(c, opt) ==
    IF c \in DOMAIN ShortEscape \ {Backslash} THEN <<Backslash, ShortEscape[c]>>
    ELSE IF opt.raw_utf8 \/ c \geq 256 \/ (c \in opt.printable /\ ~opt.esc_nonascii) THEN <<c>>
    ELSE NonPrintable(c)
\* Slip: what iswprint rejects is written as it is.
EscapeNoControl(c, opt) ==
    IF c \in DOMAIN ShortEscape THEN <<Backslash, ShortEscape[c]>> ELSE <<c>>
\* One pass of the loop of add_esc_chars.
Escape(c, opt) ==
    IF c \in DOMAIN ShortEscape THEN <<Backslash, ShortEscape[c]>>
    ELSE IF opt.raw_utf8 \/ c \geq 256 \/ (c \in opt.printable /\ ~opt.esc_nonascii) THEN <<c>>
    ELSE NonPrintable(c)

AddEscChars(s, opt) == FlattenSeq([i \in DOMAIN s |-> Escape(s[i], opt)])

-----------------------------------------------------------------------------
\* Generator.  inner is what output makes of the values inside a container.
Space(opt)         == IF opt.pretty \/ opt.single_line_arrays THEN <<Blank>> ELSE <<>>
NewLine(opt)       == Space(opt)
Indent(opt, level) == IF level > 0 THEN Space(opt) ELSE <<>>

OutputInt(v) == Number(IF IsUint64(v) THEN GetUint64(v) ELSE GetInt64(v))

\* The text of each item, with a comma after all but the last.
Items(texts) ==
    [i \in DOMAIN texts |-> IF i < Len(texts) THEN Append(texts[i], Mark(",")) ELSE texts[i]]

OutputArrayOrObj(texts, first, last, opt, level) ==
    LET line(t) == Indent(opt, level + 1) \o t \o NewLine(opt)
        items == Items(texts)
    IN  <<Mark(first)>> \o NewLine(opt)
          \o FlattenSeq([i \in DOMAIN items |-> line(items[i])])
          \o Indent(opt, level) \o <<Mark(last)>>

OutputMember(m, opt, inner) ==
    <<Quoted(AddEscChars(m[1], opt))>> \o Space(opt) \o <<Mark(":")>> \o Space(opt)
      \o inner[m[2]]

ContainsComposite(vs) == \E i \in DOMAIN vs : Type(vs[i]) \in {"obj", "arr"}

OutputArray(vs, opt, level, inner) ==
    LET single == opt.single_line_arrays /\ ~ContainsComposite(vs)
        texts  == [i \in DOMAIN vs |-> inner[vs[i]]]
        items  == Items(texts)
    IN  IF single
        THEN <<Mark("[")>> \o Space(opt)
               \o FlattenSeq([i \in DOMAIN items |-> items[i] \o Space(opt)]) \o <<Mark("]")>>
        ELSE OutputArrayOrObj(texts, "[", "]", opt, level)

Output(v, opt, level, inner) ==
    CASE v[1] = "obj" ->
            OutputArrayOrObj([i \in DOMAIN v[2] |-> OutputMember(v[2][i], opt, inner)],
                             "{", "}", opt, level)
      [] v[1] = "arr"  -> OutputArray(v[2], opt, level, inner)
      [] v[1] = "str"  -> <<Quoted(AddEscChars(v[2], opt))>>
      [] v[1] = "bool" -> <<Word(IF v[2] THEN "true" ELSE "false")>>
      [] v[1] = "null" -> <<Word("null")>>
      [] v[1] = "real" -> <<RealNumber(v[2])>>
      [] OTHER         -> <<OutputInt(v)>>

\* At a level, containers can be nested n deep if level + n = MaxNesting.
WriteString(v, opt) ==
    LET output[n \in 0..MaxNesting] ==
          [x \in Values[n] |->
              Output(x, opt, MaxNesting - n, IF n = 0 THEN <<>> ELSE output[n - 1])]
    IN  output[MaxNesting][v]
=============================================================================
