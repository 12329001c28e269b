------------------------- MODULE FormatsProperties -------------------------
(***************************************************************************)
(* What holds of the texts and frames on the wire.                         *)
(***************************************************************************)
EXTENDS Formats

-----------------------------------------------------------------------------
\* The reference: the texts of JSON, and the elements and the pairs that may
\* stand between brackets, of n tokens; g has those of fewer.
TextRow(g, n) ==
    IF n = 1 THEN {<<t>> : t \in {x \in Tokens : IsScalar(x)}}
    ELSE {<<Mark("[")>> \o e \o <<Mark("]")>> : e \in g[n - 2].elements}
           \cup {<<Mark("{")>> \o e \o <<Mark("}")>> : e \in g[n - 2].pairs}

ElementRow(g, n) ==
    TextRow(g, n)
      \cup UNION {{t \o <<Mark(",")>> \o e : t \in g[m].texts, e \in g[n - 1 - m].elements} : m \in 1..(n - 2)}

PairRow(g, n) ==
    LET names   == {x \in Tokens : x[1] = "quoted"}
        pair(m) == {<<x, Mark(":")>> \o t : x \in names, t \in g[m - 2].texts}
    IN  IF n < 3 THEN {}
        ELSE pair(n) \cup UNION {{p \o <<Mark(",")>> \o q : p \in pair(m), q \in g[n - 1 - m].pairs} : m \in 3..(n - 2)}

\* For each number of tokens up to n.
Grammar[n \in 0..MaxTokens] ==
    LET g == Grammar[n - 1]
        row(m) ==
          IF m = 0 THEN [texts |-> {}, elements |-> {<<>>}, pairs |-> {<<>>}]
          ELSE IF m < n THEN g[m]
          ELSE [texts |-> TextRow(g, n), elements |-> ElementRow(g, n), pairs |-> PairRow(g, n)]
    IN  [m \in 0..n |-> row(m)]

JsonTexts == UNION {Grammar[MaxTokens][n].texts : n \in 1..MaxTokens}
JsonPrefixes == UNION {{SubSeq(t, 1, n) : n \in DOMAIN t} : t \in JsonTexts}

\* Whatever the tokens, the reader accepts a text if it is JSON, and then
\* its value is the one that is written so; it gives up only at a token with
\* which no JSON text of this length goes on.
AcceptsExactlyJson ==
    doc = AnyText =>
        /\ outcome = "done" => text \in JsonTexts /\ WriteString(value, PlainOptions) = text
        /\ outcome = "failed" => text \notin JsonPrefixes

Pointers == Append(stack, current)
Open     == Tail(frames)   \* what the grammar expects in each open container

\* The semantic actions build where the grammar is: each container that is
\* open has its pointer, and is an object or an array as the grammar expects
\* (the assertions of new_name and add_to_current hold); with none open,
\* current_p_ is null or the whole value.
GrammarAndPointersAgree ==
    IF Open = <<>> THEN stack = <<>> /\ current \in {NullPointer, <<>>}
    ELSE /\ Len(Pointers) = Len(Open)
         /\ Pointers[1] = <<>>
         /\ \A i \in DOMAIN Open :
              /\ Len(Pointers[i]) = i - 1
              /\ Type(At(value, Pointers[i])) =
                    IF Open[i] \in {"first_element", "next_element", "after_element"}
                    THEN "arr" ELSE "obj"

\* Nothing was added, since a pointer was taken, to a vector that what it
\* points to is stored in: push_back may move the elements.
NoDanglingPointer ==
    \A i \in DOMAIN Pointers :
        LET p == Pointers[i]
        IN  p # NullPointer =>
              \A k \in DOMAIN p : p[k] = Len(Children(At(value, SubSeq(p, 1, k - 1))))

-----------------------------------------------------------------------------
\* A value with its integers as the reader makes them: those that fit
\* are int64_t.
AsRead(v) ==
    LET read[n \in 0..MaxNesting] == [x \in Values[n] |->
          CASE x[1] = "obj" -> Obj([i \in DOMAIN x[2] |-> <<x[2][i][1], read[n - 1][x[2][i][2]]>>])
            [] x[1] = "arr" -> Arr([i \in DOMAIN x[2] |-> read[n - 1][x[2][i]]])
            [] IsUint64(x)  -> NumberValue(x[2])
            [] OTHER        -> x]
    IN  read[MaxNesting][v]

\* Every document is read back as it was written: any byte in a string or a
\* name, in any locale and with any of the options, and any integer of either
\* width.
WhatIsWrittenIsRead ==
    doc.kind \notin {"any", "none", "foreign"} =>
        /\ outcome # "failed"
        /\ (rest = <<>>) <=> (outcome = "done")
        /\ outcome = "done" => value = AsRead(Valued(doc))

\* A string as a reader that follows the standard takes it: \u stands for
\* a whole character, what is below 32 must be escaped, and no other escapes
\* exist; -1 is what it refuses.
StandardStr(s) ==
    LET from[n \in 0..Len(s)] ==   \* the last n characters
          LET i == Len(s) - n + 1
          IN  IF n = 0 THEN <<>>
              ELSE IF s[i] # Backslash THEN <<IF s[i] < 32 THEN -1 ELSE s[i]>> \o from[n - 1]
              ELSE IF n >= 6 /\ s[i + 1] = LetterU
              THEN <<256 * HexPair(s, i + 2) + HexPair(s, i + 4)>> \o from[n - 6]
              ELSE IF n >= 2 /\ s[i + 1] \in Range(ShortEscape) \cup {Slash}
              THEN EscapeAt(s, i + 1).chars \o from[n - 2]
              ELSE <<-1>> \o from[n - 1]
    IN  from[Len(s)]

IsAscii(s) == \A i \in DOMAIN s : s[i] \in 0..127

\* Other programs need not read and write as json_spirit does.  An ASCII
\* string that is written without raw_utf8 is the same for them, and one that
\* they write, with any escapes of the standard, is the same here.  (Of other
\* strings, each byte that the locale cannot print becomes a character of its
\* own, and a character read keeps its low byte.)
StandardReadersAgree ==
    (doc.kind \in {"value", "foreign"} /\ outcome = "done" /\ Type(value) = "str") =>
        LET s == StandardStr(text[1][2])
        IN  /\ (doc.kind = "value" /\ ~opt.raw_utf8 /\ IsAscii(value[2])) => s = value[2]
            /\ (doc.kind = "foreign" /\ IsAscii(s)) => value[2] = s

-----------------------------------------------------------------------------
StrOf(v, w)  == LastNamed(v, w, Str(<<>>))[2]
StrsOf(v, w) == LET a == LastNamed(v, w, Arr(<<>>)) IN [i \in DOMAIN a[2] |-> a[2][i][2]]
NumOf(v, w, default) == LastNamed(v, w, IntVal(default))[2]
FlagOf(v, w) == LastNamed(v, w, BoolVal(FALSE))[2]
Pairings(v, places) == {<<v[2][i][1], v[2][i][2][2]>> : i \in places}

\* The message a gateway finds in a text, which takes the last of members
\* with the same name.
ApnsReceived(v) ==
    LET said  == LastNamed(v, "aps", Null)
        aps   == IF Type(said) = "obj" THEN said ELSE Obj(<<>>)
        alert == LastNamed(aps, "alert", Str(<<>>))
        parts == IF Type(alert) = "obj" THEN alert ELSE Obj(<<>>)
    IN  [alert |-> IF Type(alert) = "str" THEN alert[2] ELSE <<>>,
         title |-> StrOf(parts, "title"), body |-> StrOf(parts, "body"),
         title_loc_key |-> StrOf(parts, "title-loc-key"),
         title_loc_args |-> StrsOf(parts, "title-loc-args"),
         loc_key |-> StrOf(parts, "loc-key"), loc_args |-> StrsOf(parts, "loc-args"),
         badge |-> NumOf(aps, "badge", BadgeMax), sound |-> StrOf(aps, "sound"),
         action_loc_key |-> StrOf(aps, "action-loc-key"),
         launch_image |-> StrOf(aps, "launch_image"),
         custom |-> Pairings(v, DOMAIN v[2] \ Named(v, "aps"))]

\* The gateway finds the message the client has filled in, whatever its
\* custom members are named, but for what to_json drops: an alert next to a
\* title, a body or a key, arguments without their key, and a custom "aps".
ApnsMessageArrives ==
    doc.kind = "apns" /\ outcome = "done" =>
        LET m == doc.msg
        IN  ApnsReceived(value) =
              [m EXCEPT
                 !.alert = IF m.title \o m.body \o m.loc_key \o m.title_loc_key = <<>> THEN @ ELSE <<>>,
                 !.title_loc_args = IF m.title_loc_key = <<>> THEN <<>> ELSE @,
                 !.loc_args = IF m.loc_key = <<>> THEN <<>> ELSE @,
                 !.custom = {p \in Range(@) : p[1] # N("aps")}]

\* A message posted to several devices in turn reaches each with the
\* registration ids the client has added and that of this device, not with
\* those of the posts before; the rest is as the client filled it in.
GcmMessageArrives ==
    doc.kind = "gcm" /\ outcome = "done" =>
        LET m    == doc.msg
            data == LastNamed(value, "data", Obj(<<>>))
        IN  [registration_ids |-> StrsOf(value, "registration_ids"),
             notification_key |-> StrOf(value, "notification_key"),
             notification_key_name |-> StrOf(value, "notification_key_name"),
             collapse_key |-> StrOf(value, "collapse_key"),
             time_to_live |-> NumOf(value, "time_to_live", UINT64_MAX),
             delay_while_idle |-> FlagOf(value, "delay_while_idle"),
             restricted_package_name |-> StrOf(value, "restricted_package_name"),
             dry_run |-> FlagOf(value, "dry_run"),
             custom |-> Pairings(data, DOMAIN data[2])]
            = [m EXCEPT !.registration_ids = Append(@, Last(doc.tokens)),
                        !.custom = Range(@)]

\* An answer of the server means what the server says, with its members in
\* any order: the counts, and one entry for each device, in their order, so
\* that an entry can be told to belong to a device.
AnswerUnderstood ==
    doc.kind = "answer" /\ outcome = "done" =>
        LET a == doc.answer
            r == GcmResponse(value)
        IN  /\ ~ResponseThrows(value)
            /\ r.multicast_id = GetInt64(a.multicast_id)
            /\ <<r.success, r.failure, r.canonical_ids>> =
                 <<a.success[2], a.failure[2], a.canonical_ids[2]>>
            /\ Len(r.results) = Len(a.results)
            /\ \A i \in DOMAIN a.results :
                 /\ r.results[i].message_id = a.results[i].message_id
                 /\ r.results[i].registration_id = a.results[i].registration_id
                 /\ (r.results[i].status = "successful") <=> (a.results[i].error = <<>>)
=============================================================================
