------------------------------ MODULE JsonText ------------------------------
(***************************************************************************)
(* A text and its reader.  Either a document is written, by this program   *)
(* for a gateway or by a server for it, and read; or the reader is given   *)
(* any tokens at all, one by one.  The gateways' readers are external; the *)
(* reader of json_spirit stands for them.                                  *)
(***************************************************************************)
EXTENDS JsonReader, Messages

CONSTANTS
    Documents,  \* what is written: records, see Valued
    OptionsOf,  \* the options a document may be written with
    Tokens,     \* the tokens of any text
    MaxTokens   \* bound on its length

VARIABLES
    doc,   \* the document
    opt,   \* the options it was written with
    rest   \* tokens of its text not read yet

textVars == <<readerVars, doc, opt, rest>>

AnyText == [kind |-> "any"]

\* The members of an answer of the GCM server (external).
AnswerMembers(a) ==
    LET entry(e) == Obj(Text("message_id", e.message_id) \o Text("registration_id", e.registration_id)
                          \o Text("error", e.error))
    IN  <<<<N("multicast_id"), a.multicast_id>>, <<N("success"), a.success>>,
          <<N("failure"), a.failure>>, <<N("canonical_ids"), a.canonical_ids>>,
          <<N("results"), Arr([i \in DOMAIN a.results |-> entry(a.results[i])])>>>>

ServerAnswer ==
    [multicast_id : ({"int"} \X Int64) \cup ({"uint"} \X Uint64), success : {"uint"} \X Uint64,
     failure : {"uint"} \X Uint64, canonical_ids : {"uint"} \X Uint64,
     results : Seq([message_id : Seq(Nat), registration_id : Seq(Nat), error : Seq(Nat)])]

\* No document is nested deeper than the bound, and no locale prints what
\* is below the space.
ASSUME DocumentsAssumption ==
    /\ MaxNesting >= 4   \* as the messages are
    /\ \A d \in Documents :
         \/ d.kind \in {"value", "nested"} /\ d.value \in Values[MaxNesting]
         \/ d.kind = "foreign" /\ d.text[1][2] \in Seq(Nat) /\ d.text = <<Quoted(d.text[1][2])>>
         \/ d.kind = "apns" /\ d.msg \in ApnsMessage
         \/ d.kind = "gcm" /\ d.msg \in GcmMessage /\ d.tokens \in Seq(Seq(Nat)) \ {<<>>}
         \/ d.kind = "answer" /\ d.answer \in ServerAnswer /\ d.reversed \in BOOLEAN
ASSUME OptionsAssumption ==
    \A d \in Documents : \A o \in OptionsOf[d.kind] : \A c \in o.printable : c >= 32

\* The options of a call without options, in the locale of C.
PlainOptions == [pretty |-> FALSE, raw_utf8 |-> FALSE, esc_nonascii |-> FALSE,
                 single_line_arrays |-> FALSE, printable |-> 32..126]

\* The tokens of any text: marks, words, and numbers and strings as they are
\* written; and the values of a text are nested no deeper than the bound.
ASSUME TokensAssumption ==
    /\ MaxTokens \in Nat /\ MaxTokens <= 2 * MaxNesting + 1
    /\ \A t \in Tokens :
         CASE t[1] = "mark"   -> t \in {Mark(c) : c \in {"{", "}", "[", "]", ":", ","}}
           [] t[1] = "word"   -> t \in {Word(w) : w \in {"true", "false", "null"}}
           [] t[1] = "real"   -> t \in {RealNumber(x) : x \in Real}
           [] t[1] = "number" -> t[2] \in Int /\ t = Number(t[2])
           [] OTHER           -> /\ GetStr(t[2]) \in Seq(Nat)
                                 /\ t = Quoted(AddEscChars(GetStr(t[2]), PlainOptions))

\* The value a document is.
Valued(d) ==
    CASE d.kind \in {"value", "nested"} -> d.value
      [] d.kind = "apns"   -> ApnsToJson(d.msg)
      [] d.kind = "gcm"    -> PostToAll(d.msg, d.tokens)
      [] d.kind = "answer" ->
            Obj(IF d.reversed THEN Reverse(AnswerMembers(d.answer)) ELSE AnswerMembers(d.answer))

\* Its text; that of a foreign document has been written by another program.
TextOf(d, o) == IF d.kind = "foreign" THEN d.text ELSE WriteString(Valued(d), o)

TextInit ==
    /\ ReaderInit
    /\ \/ doc = AnyText /\ opt = [pretty |-> FALSE] /\ rest = <<>>
       \/ /\ doc \in Documents
          /\ opt \in OptionsOf[doc.kind]
          /\ rest = TextOf(doc, opt)

ReadDocument ==
    /\ doc # AnyText
    /\ Read(IF rest = <<>> THEN End ELSE Head(rest))
    /\ rest' = IF rest = <<>> THEN rest ELSE Tail(rest)
    /\ UNCHANGED <<doc, opt>>

ReadAnything ==
    /\ doc = AnyText
    /\ Len(text) < MaxTokens
    /\ \E t \in Tokens \cup {End} : Read(t)
    /\ UNCHANGED <<doc, opt, rest>>

TextNext == ReadDocument \/ ReadAnything
=============================================================================
