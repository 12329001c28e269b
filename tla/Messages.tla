------------------------------ MODULE Messages ------------------------------
(***************************************************************************)
(* The messages as JSON values: apns_message::to_json (apns.cpp),          *)
(* gcm_message::to_json and gcm::post (gcm.cpp); and what gcm_response.cpp *)
(* makes of the value it has read.                                         *)
(***************************************************************************)
EXTENDS JsonValue, SequencesExt

CONSTANT BadgeMax   \* UINT16_MAX, scaled

ASSUME BadgeAssumption == BadgeMax > 0 /\ 0..BadgeMax \subseteq Int64

UINT64_MAX == 2 ^ W - 1

\* The errors gcm_response_entry knows, and the status of each.
EntryStatus ==
    [MissingRegistration |-> "missing_registration",
     InvalidRegistration |-> "invalid_registration",
     MismatchSenderId    |-> "mismatch_sender_id",
     NotRegistered       |-> "not_registered",
     MessageTooBig       |-> "message_too_big",
     InvalidDataKey      |-> "invalid_data_key",
     InvalidTtl          |-> "invalid_ttl",
     Unavailable         |-> "unavailable",
     InternalServerError |-> "internal_server_error",
     InvalidPackageName  |-> "invalid_package_name"]

\* The words of the texts; each is a character beyond the bytes.
Words ==
    <<"aps", "alert", "title", "body", "title-loc-key", "title-loc-args", "loc-key",
      "loc-args", "badge", "sound", "action-loc-key", "launch_image",
      "registration_ids", "notification_key", "notification_key_name", "collapse_key",
      "time_to_live", "delay_while_idle", "restricted_package_name", "dry_run", "data",
      "multicast_id", "success", "failure", "canonical_ids", "results",
      "message_id", "error", "registration_id", "MissingRegistration",
      "InvalidRegistration", "MismatchSenderId", "NotRegistered", "MessageTooBig",
      "InvalidDataKey", "InvalidTtl", "Unavailable", "InternalServerError",
      "InvalidPackageName">>

WordIndex == [w \in ToSet(Words) |-> 255 + CHOOSE i \in DOMAIN Words : Words[i] = w]

N(w) == <<WordIndex[w]>>

\* The messages, by the types of their members.
Custom == Seq(Seq(Nat) \X Seq(Nat))
ApnsMessage ==
    [alert : Seq(Nat), title : Seq(Nat), body : Seq(Nat), title_loc_key : Seq(Nat),
     title_loc_args : Seq(Seq(Nat)), loc_key : Seq(Nat), loc_args : Seq(Seq(Nat)),
     badge : 0..BadgeMax, sound : Seq(Nat), action_loc_key : Seq(Nat),
     launch_image : Seq(Nat), custom : Custom]
GcmMessage ==
    [registration_ids : Seq(Seq(Nat)), notification_key : Seq(Nat),
     notification_key_name : Seq(Nat), collapse_key : Seq(Nat), time_to_live : Uint64,
     delay_while_idle : BOOLEAN, restricted_package_name : Seq(Nat), dry_run : BOOLEAN,
     custom : Custom]

-----------------------------------------------------------------------------
\* Members.

\* emplace_back of a member, under a condition.
Member(cond, w, v) == IF cond THEN <<<<N(w), v>>>> ELSE <<>>
Text(w, s)         == Member(s # <<>>, w, Str(s))
Strings(w, ss)     == Member(ss # <<>>, w, Arr([i \in DOMAIN ss |-> Str(ss[i])]))

\* custom_, a std::map from keys to strings, in the order of its keys.  insert
\* leaves a key alone that is there.
AddCustom(custom, k, s) ==
    IF \E i \in DOMAIN custom : custom[i][1] = k THEN custom
    ELSE SortSeq(Append(custom, <<k, s>>), LAMBDA x, y : x[1][1] < y[1][1])

CustomMembers(custom) == [i \in DOMAIN custom |-> <<custom[i][1], Str(custom[i][2])>>]

-----------------------------------------------------------------------------
\* apns_message.
AlertToJson(m) ==
    Obj(Text("title", m.title)
          \o Text("body", m.body)
          \o Text("title-loc-key", m.title_loc_key)
          \o (IF m.title_loc_key = <<>> THEN <<>> ELSE Strings("title-loc-args", m.title_loc_args))
          \o Text("loc-key", m.loc_key)
          \o (IF m.loc_key = <<>> THEN <<>> ELSE Strings("loc-args", m.loc_args)))

HasAlertObject(m) == \E s \in {m.title, m.body, m.loc_key, m.title_loc_key} : s # <<>>

ApsObject(m) ==
    Obj(Member(HasAlertObject(m), "alert", AlertToJson(m))
          \o (IF HasAlertObject(m) THEN <<>> ELSE Text("alert", m.alert))
          \o Member(m.badge # BadgeMax, "badge", IntVal(m.badge))
          \o Text("sound", m.sound)
          \o Text("action-loc-key", m.action_loc_key)
          \o Text("launch_image", m.launch_image))

\* Slip: the custom members come last.
ApnsCustomLast(m) == Obj(<<<<N("aps"), ApsObject(m)>>>> \o CustomMembers(m.custom))
ApnsToJson(m) == Obj(Append(CustomMembers(m.custom), <<N("aps"), ApsObject(m)>>))

-----------------------------------------------------------------------------
\* gcm_message.
GcmToJson(m) ==
    Obj(<<<<N("registration_ids"), Arr([i \in DOMAIN m.registration_ids |->
                                          Str(m.registration_ids[i])])>>>>
          \o Text("notification_key", m.notification_key)
          \o Text("notification_key_name", m.notification_key_name)
          \o Text("collapse_key", m.collapse_key)
          \o Member(m.time_to_live # UINT64_MAX, "time_to_live", UintVal(m.time_to_live))
          \o Member(m.delay_while_idle, "delay_while_idle", BoolVal(TRUE))
          \o Text("restricted_package_name", m.restricted_package_name)
          \o Member(m.dry_run, "dry_run", BoolVal(TRUE))
          \o Member(m.custom # <<>>, "data", Obj(CustomMembers(m.custom))))

AddRegId(m, token) == [m EXCEPT !.registration_ids = Append(@, token)]

\* gcm::post: what is sent, and the client's message afterwards.  Slip: the
\* token is added to the message itself.
PostToShared(m, token) == [sent |-> GcmToJson(AddRegId(m, token)), msg |-> AddRegId(m, token)]
PostGcm(m, token) == [sent |-> GcmToJson(AddRegId(m, token)), msg |-> m]

\* What is sent for the last of some tokens the message is posted to in turn.
PostToAll(m, tokens) ==
    LET before[n \in DOMAIN tokens] ==
            IF n = 1 THEN m ELSE PostGcm(before[n - 1], tokens[n - 1]).msg
    IN  PostGcm(before[Len(tokens)], Last(tokens)).sent

-----------------------------------------------------------------------------
\* gcm_response.  Its loops over members keep the last of a name.
Named(v, w) == {i \in DOMAIN v[2] : v[2][i][1] = N(w)}
LastNamed(v, w, default) ==
    IF Named(v, w) = {} THEN default ELSE v[2][Max(Named(v, w))][2]

\* status_from_error.
StatusFromError(s) ==
    IF \E e \in DOMAIN EntryStatus : N(e) = s
    THEN EntryStatus[CHOOSE e \in DOMAIN EntryStatus : N(e) = s]
    ELSE "unknown_entry_error"

EntryFields == {"message_id", "error", "registration_id"}
Counts      == {"multicast_id", "success", "failure", "canonical_ids"}

\* gcm_response_entry throws at a value that is no object of strings.
EntryThrows(v) ==
    \/ Type(v) # "obj"
    \/ \E f \in EntryFields : \E i \in Named(v, f) : Type(v[2][i][2]) # "str"

Entry(v) ==
    [status |-> IF Named(v, "error") = {} THEN "successful"
                ELSE StatusFromError(LastNamed(v, "error", Null)[2]),
     message_id |-> LastNamed(v, "message_id", Str(<<>>))[2],
     registration_id |-> LastNamed(v, "registration_id", Str(<<>>))[2]]

ResponseThrows(v) ==
    \/ Type(v) # "obj"
    \/ \E f \in Counts : \E i \in Named(v, f) : Type(v[2][i][2]) # "int"
    \/ \E i \in Named(v, "results") :
          LET r == v[2][i][2]
          IN  Type(r) # "arr" \/ \E j \in DOMAIN r[2] : EntryThrows(r[2][j])

\* The entries of all members results.  Slip: entries are read until one is
\* an error.
EntriesUntilError(v) ==
    LET all == FlattenSeq([i \in DOMAIN v[2] |->
                  IF i \in Named(v, "results") THEN v[2][i][2][2] ELSE <<>>])
    IN  [i \in 1..SelectInSeq(all, LAMBDA e : Named(e, "error") # {}) |-> Entry(all[i])]
Entries(v) ==
    LET all == FlattenSeq([i \in DOMAIN v[2] |->
                  IF i \in Named(v, "results") THEN v[2][i][2][2] ELSE <<>>])
    IN  [i \in DOMAIN all |-> Entry(all[i])]

\* The response made of a value that was read; with a text that could not be
\* read, status_ is json_parsing_error.
GcmResponse(v) ==
    [multicast_id  |-> GetInt64(LastNamed(v, "multicast_id", IntVal(-1))),
     success       |-> GetUint64(LastNamed(v, "success", UintVal(0))),
     failure       |-> GetUint64(LastNamed(v, "failure", UintVal(0))),
     canonical_ids |-> GetUint64(LastNamed(v, "canonical_ids", UintVal(0))),
     results       |-> Entries(v)]
=============================================================================
