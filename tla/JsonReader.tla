----------------------------- MODULE JsonReader -----------------------------
(***************************************************************************)
(* json_spirit_reader_template.h: read_string as a machine that takes the  *)
(* tokens of a text one by one.  The grammar is the stack frames: what it  *)
(* expects next, for each container that is open.  The semantic actions    *)
(* build the value in place through plain pointers: current_p_ and those   *)
(* in stack_.  A pointer is the path of the value it points to, the index  *)
(* in each container on the way; &value_ is the empty path.                *)
(***************************************************************************)
EXTENDS JsonWriter

VARIABLES
    value,    \* value_
    current,  \* current_p_
    stack,    \* stack_
    name,     \* name_
    frames,   \* what the grammar expects
    text,     \* history: the tokens read, including the one refused
    outcome   \* of read_range: reading, done (true), failed (false)

readerVars == <<value, current, stack, name, frames, text, outcome>>

NullPointer == <<0>>
End         == <<"end", 0>>   \* the end of the text

ReaderInit ==
    /\ value = Null
    /\ current = NullPointer
    /\ stack = <<>>
    /\ name = <<>>
    /\ frames = <<"json">>
    /\ text = <<>>
    /\ outcome = "reading"

-----------------------------------------------------------------------------
\* substitute_esc_chars.
HexToNum(c) ==
    CASE c \in 48..57  -> c - 48
      [] c \in 97..102 -> c - 87
      [] c \in 65..70  -> c - 55
      [] OTHER         -> 0

\* The number two or four digits stand for, narrowed to a char.
HexPair(d, k) == 16 * HexToNum(d[k]) + HexToNum(d[k + 1])
HexToChar(d)  == (IF Len(d) = 2 THEN HexPair(d, 1) ELSE 256 * HexPair(d, 1) + HexPair(d, 3)) % 256

\* append_esc_char_and_incr_iter for what follows the backslash before k: the
\* character that is appended, if any, and where the string goes on.
EscapeAt(s, k) ==
    LET short == {c \in DOMAIN ShortEscape : ShortEscape[c] = s[k]}
                   \cup {c \in {Slash} : s[k] = Slash}
        digits == CASE s[k] = LetterX -> 2 [] s[k] = LetterU -> 4 [] OTHER -> 0
    IN  IF short # {} THEN [chars |-> <<CHOOSE c \in short : TRUE>>, next |-> k + 1]
        ELSE IF digits > 0 /\ k + digits <= Len(s)
        THEN [chars |-> <<HexToChar(SubSeq(s, k + 1, k + digits))>>, next |-> k + digits + 1]
        ELSE [chars |-> <<>>, next |-> k + 1]

\* substitute_esc_chars: what becomes of the last n characters.
SubstituteEscChars(s) ==
    LET from[n \in 0..Len(s)] ==
          LET i == Len(s) - n + 1
              e == EscapeAt(s, i + 1)
          IN  IF n < 2 THEN SubSeq(s, i, Len(s))
              ELSE IF s[i] = Backslash THEN e.chars \o from[Len(s) + 1 - e.next]
              ELSE <<s[i]>> \o from[n - 1]
    IN  from[Len(s)]

\* get_str: a string without its escapes.
GetStr(s) == SubstituteEscChars(s)

-----------------------------------------------------------------------------
\* Memory: the value a pointer points to, and the whole value with x put there.
At(v, p) ==
    LET at[k \in 0..Len(p)] == IF k = 0 THEN v ELSE Children(at[k - 1])[p[k]]
    IN  at[Len(p)]

\* The container c with x as its i-th value.
Replaced(c, i, x) ==
    IF Type(c) = "obj" THEN Obj([c[2] EXCEPT ![i][2] = x]) ELSE Arr([c[2] EXCEPT ![i] = x])

Put(v, p, x) ==
    LET put[k \in 0..Len(p)] ==   \* the value k levels above
          LET n == Len(p) - k
          IN  IF k = 0 THEN x ELSE Replaced(At(v, SubSeq(p, 1, n)), p[n + 1], put[k - 1])
    IN  put[Len(p)]

\* add_to_current: value_ with x added, and the pointer that is returned.
Added(x) ==
    LET c == At(value, current)
        more == IF Type(c) = "arr" THEN AddElement(c, x) ELSE AddMember(c, name, x)
    IN  IF current = NullPointer THEN x ELSE Put(value, current, more)
AddedAt ==
    IF current = NullPointer THEN <<>>
    ELSE Append(current, Len(Children(At(value, current))) + 1)

\* Slip: the value that is begun is pushed, and not the one it is in.
BeginInStack(x) ==
    /\ value' = Added(x)
    /\ current' = AddedAt
    /\ stack' = IF current = NullPointer THEN stack ELSE Append(stack, AddedAt)
BeginCompound(x) ==
    /\ value' = Added(x)
    /\ current' = AddedAt
    /\ stack' = IF current = NullPointer THEN stack ELSE Append(stack, current)

\* Slip: the oldest pointer is taken up again, and not the last.
EndToFront ==
    IF current = <<>> THEN UNCHANGED <<current, stack>>
    ELSE current' = Head(stack) /\ stack' = Front(stack)
EndCompound ==
    IF current = <<>> THEN UNCHANGED <<current, stack>>
    ELSE current' = Last(stack) /\ stack' = Front(stack)

\* new_str, new_true, new_false, new_null, new_int, new_uint64, new_real.
NewScalar(x) ==
    /\ value' = Added(x)
    /\ current' = IF current = NullPointer THEN <<>> ELSE current
    /\ UNCHANGED stack

-----------------------------------------------------------------------------
\* The grammar.

Expects == Last(frames)

\* Where a value may begin, where a name may, and where a container may end.
BeforeValue == {"json", "pair_value", "first_element", "next_element"}
BeforePair  == {"first_pair", "next_pair"}
ObjEnds     == {"first_pair", "after_pair"}
ArrEnds     == {"first_element", "after_element"}

Expect(what) == frames' = Append(Front(frames), what)

AfterValue ==
    CASE Expects = "json"       -> "end"
      [] Expects = "pair_value" -> "after_pair"
      [] OTHER                  -> "after_element"

\* number_: int64_p, or else uint64_p, or else no number.
NumberValue(n) == IF n \in Int64 THEN IntVal(n) ELSE UintVal(n)

IsScalar(t) ==
    \/ t[1] \in {"quoted", "word", "real"}
    \/ t[1] = "number" /\ t[2] \in Int64 \cup Uint64

\* Slip: a number beyond int64_t is cut to one.
ScalarNarrow(t) ==
    CASE t[1] = "quoted" -> Str(GetStr(t[2]))
      [] t[1] = "number" -> IntVal(ToInt64(ToUint64(t[2])))
      [] t[1] = "real"   -> <<"real", t[2]>>
      [] OTHER           -> IF t[2] = "null" THEN Null ELSE BoolVal(t[2] = "true")
Scalar(t) ==
    CASE t[1] = "quoted" -> Str(GetStr(t[2]))
      [] t[1] = "number" -> NumberValue(t[2])
      [] t[1] = "real"   -> <<"real", t[2]>>
      [] OTHER           -> IF t[2] = "null" THEN Null ELSE BoolVal(t[2] = "true")

ReadScalar(t) ==
    /\ Expects \in BeforeValue
    /\ IsScalar(t)
    /\ NewScalar(Scalar(t))
    /\ Expect(AfterValue)
    /\ UNCHANGED name

BeginObj(t) ==
    /\ Expects \in BeforeValue
    /\ t = Mark("{")
    /\ BeginCompound(Obj(<<>>))
    /\ frames' = Front(frames) \o <<AfterValue, "first_pair">>
    /\ UNCHANGED name

BeginArray(t) ==
    /\ Expects \in BeforeValue
    /\ t = Mark("[")
    /\ BeginCompound(Arr(<<>>))
    /\ frames' = Front(frames) \o <<AfterValue, "first_element">>
    /\ UNCHANGED name

\* Slip: a comma may stand before the end.
EndsLenient(t) ==
    \/ t = Mark("}") /\ Expects \in ObjEnds \cup {"next_pair"}
    \/ t = Mark("]") /\ Expects \in ArrEnds
Ends(t) ==
    \/ t = Mark("}") /\ Expects \in ObjEnds
    \/ t = Mark("]") /\ Expects \in ArrEnds

\* end_obj, end_array.
ReadEnd(t) ==
    /\ Ends(t)
    /\ EndCompound
    /\ frames' = Front(frames)
    /\ UNCHANGED <<value, name>>

NewName(t) ==
    /\ Expects \in BeforePair
    /\ t[1] = "quoted"
    /\ name' = GetStr(t[2])
    /\ Expect("colon")
    /\ UNCHANGED <<value, current, stack>>

ReadMark(t) ==
    /\ \/ t = Mark(":") /\ Expects = "colon" /\ Expect("pair_value")
       \/ t = Mark(",") /\ Expects = "after_pair" /\ Expect("next_pair")
       \/ t = Mark(",") /\ Expects = "after_element" /\ Expect("next_element")
    /\ UNCHANGED <<value, current, stack, name>>

\* The skipper.
Skip(t) == t = Blank /\ UNCHANGED <<value, current, stack, name, frames>>

Accept(t) ==
    \/ ReadScalar(t)
    \/ BeginObj(t)
    \/ BeginArray(t)
    \/ ReadEnd(t)
    \/ NewName(t)
    \/ ReadMark(t)
    \/ Skip(t)

Accepts(t) ==
    \/ Expects \in BeforeValue /\ (IsScalar(t) \/ t \in {Mark("{"), Mark("[")})
    \/ Expects \in BeforePair /\ t[1] = "quoted"
    \/ Ends(t)
    \/ t = Mark(":") /\ Expects = "colon"
    \/ t = Mark(",") /\ Expects \in {"after_pair", "after_element"}
    \/ t = Blank

\* One token.  What no rule accepts ends in one of the throw_not functions,
\* and read_range returns false; a complete value ends the reading, whatever
\* follows it.
Read(t) ==
    /\ outcome = "reading"
    /\ text' = Append(text, t)
    /\ \/ Accept(t) /\ outcome' = IF frames' = <<"end">> THEN "done" ELSE "reading"
       \/ /\ ~Accepts(t)
          /\ outcome' = "failed"
          /\ UNCHANGED <<value, current, stack, name, frames>>

=============================================================================
