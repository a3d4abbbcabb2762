---------------------------- MODULE MCAlgorithms ----------------------------
(***************************************************************************)
(* The inputs of Algorithms and of TextDiff for TLC.                       *)
(***************************************************************************)
EXTENDS TextDiff

UpTo(S, n) == UNION {[1 .. k -> S] : k \in 0 .. n}

\* Texts of up to five lines of two kinds, and shorter ones that have empty
\* lines and a last line without an end.
Text(lines) == FlattenSeq(lines)
LongTexts == {Text(l) : l \in UpTo({<<"x", NL>>, <<"y", NL>>}, 5)}
ShortTexts == {Text(l) \o last : l \in UpTo({<<"x", NL>>, <<"y", NL>>, <<NL>>}, 3), last \in {<<>>, <<"x">>}}
MCDiffInputs ==
    [a : LongTexts, b : LongTexts, work : {1000, 6}] \cup [a : ShortTexts, b : ShortTexts, work : {1000, 4}]

\* Bases that a product too large for its type has made negative are among them.
MCDelayInputs ==
    [policy : [BaseDelay : {-5, 0, 1, 99, 150, 999, 1000, 5000}, MaxDelay : {1, 150, 1000, 30000},
               percent : {75, 76, 99, 100, 101, 125}],
     attempt : 0 .. 8]

MCHeaderValues == UpTo({0, 1, 2, 9, Other}, 4)

\* Every way to cut a stream of up to five bytes.
Cut(stream, cuts) ==
    LET ends == SetToSortSeq(cuts \cup {Len(stream)}, <)
    IN  [n \in DOMAIN ends |-> SubSeq(stream, IF n = 1 THEN 1 ELSE ends[n - 1] + 1, ends[n])]
MCStreams ==
    UNION {[chunks : {Cut(s, cuts) : cuts \in SUBSET (1 .. Len(s) - 1)}, refuses : {0, 1}] :
              s \in UpTo({"e", "d", "v", "R", "N"}, 5)}

MCNumbers ==
    [kind : {"duration", "tokens", "size"}, unit : {"", "ms", "s", "m", "h", "k"},
     n : -9 .. 9 \cup {-141, -140, -139, 139, 140}]
    \cup [kind : {"tokens"}, unit : {"", "k"}, n : {-8389, -8388, 8388, 8389}]
    \cup [kind : {"size"}, unit : {"", "k"}, n : {-8193, -8192, 8191, 8192}]
    \cup [kind : {"tokens"}, unit : {""}, n : {-8388609, -8388608, 8388607, 8388608}]

Usages ==
    [input : {-1, 0, 2}, output : {-1, 1}, cached : {-1}, cost : {-1, 3}, fast : {"unknown"}]
    \cup [input : {1}, output : {-1}, cached : {-1, 4}, cost : {5}, fast : {"unknown", "yes", "no"}]
MCUsageSequences == UpTo(Usages, 3)

\* Up to three members of two names in two spellings; the defaults have no empty value.
Members(values) == [name : {"a"}, spelling : {1, 2}, value : values] \cup [name : {"b"}, spelling : {1}, value : values]
Objects(n, values) ==
    {o \in UpTo(Members(values), n) :
        \A i, j \in DOMAIN o : i # j => <<o[i].name, o[i].spelling>> # <<o[j].name, o[j].spelling>>}
MCHeaderInputs ==
    [defaults : Objects(2, {"v", "bad"}), configured : Objects(3, {"w", "", "$SET", "$UNSET", "bad"})]

\* A turn: what the user said, what the model answered, perhaps with an item of
\* another kind after it, and a result for each call.
MCItem(kind, id, image, own) == [kind |-> kind, id |-> id, image |-> image, own |-> own]
Numbered(kinds, from) == [n \in DOMAIN kinds |-> MCItem(kinds[n], from + n, FALSE, n = 1)]
Results(kinds, from, images) ==
    LET calls == SetToSortSeq({n \in DOMAIN kinds : kinds[n] = "call"}, <)
    IN  [n \in DOMAIN calls |-> MCItem("result", from + calls[n], calls[n] \in images, FALSE)]
Turn(kinds, from, images, extra) ==
    Numbered(kinds, from) \o extra \o Results(kinds, from, images)
Extras == {<<>>, <<MCItem("usage", 0, FALSE, FALSE)>>}
User == <<MCItem("user", 0, FALSE, FALSE)>>
Answers == UpTo({"text", "call", "reasoning", "details"}, 3)
MCConversations ==
    [items : {User \o Turn(k, 0, images, extra) : k \in Answers, images \in SUBSET {1, 2, 3}, extra \in Extras}
             \cup {User \o Turn(k, 0, {1}, extra) \o between \o Turn(j, 10, {2}, <<>>) :
                      k \in UpTo({"text", "call"}, 2), j \in Answers, extra \in Extras, between \in {<<>>, User}},
     images : BOOLEAN, field : BOOLEAN]
=============================================================================
