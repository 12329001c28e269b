----------------------------- MODULE MCFormats -----------------------------
(* Documents, options and tokens for TLC. *)
EXTENDS FormatsProperties

a == <<97>>
b == <<98, 34>>

\* C, and a locale that prints characters beyond ASCII.
Locales == {32..126, (32..126) \cup (160..255)}

AllOptions == [pretty : BOOLEAN, raw_utf8 : BOOLEAN, esc_nonascii : BOOLEAN,
               single_line_arrays : BOOLEAN, printable : Locales]
Flat     == {o \in AllOptions : ~o.pretty /\ ~o.single_line_arrays}
Library  == {[PlainOptions EXCEPT !.printable = p] : p \in Locales}

Special == {QuoteMark, Backslash, Slash, 8, 48, 98, LetterU, LetterX, 200}
Strings1 == {<<c>> : c \in 0..255}
Strings2 == {<<c, d>> : c, d \in Special}
Strings3 == {<<c, d, 52, 49, 48, 48>> : c, d \in {Backslash, LetterU, LetterX}}

\* Escapes this program does not write: \/, lower case digits, characters
\* beyond a byte; and some that are not of the standard.
Foreign ==
    {<<Backslash, Slash>>, <<97, Backslash, Slash, 97>>,
     <<Backslash, LetterU, 48, 48, 55, 101>>, <<Backslash, LetterU, 48, 49, 52, 49>>,
     <<Backslash, LetterU, 50, 48, 65, 99>>, <<Backslash, 113>>, <<Backslash, LetterX, 52, 49>>}

Numbers == {IntVal(n) : n \in Int64} \cup {UintVal(n) : n \in Uint64}
Nested ==
    {Arr(<<Str(a), Obj(<<<<b, Arr(<<>>)>>, <<a, Null>>>>), Arr(<<Arr(<<Arr(<<>>), Null>>), Null>>)>>),
     Obj(<<<<a, BoolVal(TRUE)>>, <<a, Obj(<<<<a, <<"real", "r">>>>>>)>>, <<a, Obj(<<>>)>>>>),
     Arr(<<Arr(<<Arr(<<Arr(<<>>)>>)>>), Null>>)}

MCOptionsOf ==
    [value |-> Flat, foreign |-> {PlainOptions}, nested |-> AllOptions, apns |-> Library, gcm |-> Library,
     answer |-> {PlainOptions, [PlainOptions EXCEPT !.pretty = TRUE]}]

NoApns ==
    [alert |-> <<>>, title |-> <<>>, body |-> <<>>, title_loc_key |-> <<>>, title_loc_args |-> <<>>,
     loc_key |-> <<>>, loc_args |-> <<>>, badge |-> BadgeMax, sound |-> <<>>,
     action_loc_key |-> <<>>, launch_image |-> <<>>, custom |-> <<>>]

Maybe == {<<>>, a}
Customs == {<<>>, AddCustom(AddCustom(AddCustom(AddCustom(<<>>, b, a), N("aps"), b), b, b), N("data"), a)}

ApnsMessages ==
    {[NoApns EXCEPT !.alert = s1, !.title = s2, !.body = s3, !.title_loc_key = s4, !.loc_key = s5,
                    !.title_loc_args = args, !.loc_args = args, !.custom = c] :
        s1, s2, s3, s4, s5 \in Maybe, args \in {<<>>, <<a, b>>}, c \in Customs}
      \cup {[NoApns EXCEPT !.badge = n, !.sound = s1, !.action_loc_key = s2, !.launch_image = s3] :
        n \in 0..BadgeMax, s1, s2, s3 \in Maybe}

GcmMessages ==
    [registration_ids : {<<>>, <<b>>}, notification_key : {<<>>}, notification_key_name : Maybe,
     collapse_key : {a}, time_to_live : {0, 2 ^ (W - 1), UINT64_MAX}, delay_while_idle : BOOLEAN,
     restricted_package_name : Maybe, dry_run : {FALSE}, custom : Customs]
      \cup [registration_ids : {<<>>}, notification_key : {a}, notification_key_name : {<<>>},
            collapse_key : {<<>>}, time_to_live : {UINT64_MAX}, delay_while_idle : {FALSE},
            restricted_package_name : {<<>>}, dry_run : {TRUE}, custom : {<<>>}]

EntrySet ==
    {[message_id |-> a, registration_id |-> <<>>, error |-> <<>>],
     [message_id |-> b, registration_id |-> a, error |-> <<>>],
     [message_id |-> <<>>, registration_id |-> <<>>, error |-> N("NotRegistered")],
     [message_id |-> <<>>, registration_id |-> <<>>, error |-> a]}

Answers ==
    [multicast_id : {IntVal(7), UintVal(2 ^ W - 1)}, success : {UintVal(0), UintVal(2)},
     failure : {UintVal(0), UintVal(2 ^ W - 1)}, canonical_ids : {UintVal(1)},
     results : {<<>>} \cup {<<x, y>> : x, y \in EntrySet}]

MCDocuments ==
    {[kind |-> "value", value |-> Str(s)] : s \in Strings1 \cup Strings2 \cup Strings3}
      \cup {[kind |-> "value", value |-> Obj(<<<<s, Str(s)>>>>)] : s \in Strings2}
      \cup {[kind |-> "value", value |-> n] : n \in Numbers}
      \cup {[kind |-> "foreign", text |-> <<Quoted(s)>>] : s \in Foreign}
      \cup {[kind |-> "nested", value |-> v] : v \in Nested}
      \cup {[kind |-> "apns", msg |-> m] : m \in ApnsMessages}
      \cup {[kind |-> "gcm", msg |-> m, tokens |-> t] : m \in GcmMessages, t \in {<<a>>, <<b, a>>}}
      \cup {[kind |-> "answer", answer |-> x, reversed |-> r] : x \in Answers, r \in BOOLEAN}

MCTokens ==
    {Mark(c) : c \in {"{", "}", "[", "]", ":", ","}}
      \cup {Quoted(a), Number(1), Number(2 ^ W)}
=============================================================================
