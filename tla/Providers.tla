----------------------------- MODULE Providers -----------------------------
(***************************************************************************)
(* What the providers compute of settings and of a conversation, without   *)
(* waiting for anything: numbers with units, the accounting of a stream,   *)
(* the headers of a request, and the messages of the chat wire format.     *)
(*                                                                         *)
(* No string is put together.  Names stand for themselves, and spellings   *)
(* of a header are pairs of a name and a variant.                          *)
(***************************************************************************)
EXTENDS Words, SequencesExt

CONSTANT
    numberWidth  \* 64, the bits of an int64

ASSUME ProvidersAssumption == numberWidth \in Nat \ {0}

Int64 == MinInt(numberWidth) .. MaxInt(numberWidth)

-----------------------------------------------------------------------------
(* config.go: parseScaled of a number with a unit, "" when it has none.    *)

Multiplier(kind) ==
    CASE kind = "duration" -> [ms |-> 1, s |-> 1000, m |-> 60000, h |-> 3600000]
      [] kind = "tokens"   -> [k |-> 1000, m |-> 1000000]
      [] OTHER             -> [k |-> 1024, m |-> 1048576]

Scale(kind, unit) ==
    IF unit # "" THEN Multiplier(kind)[unit] ELSE IF kind = "duration" THEN 1000 ELSE 1

\* Mutant: only the number before the unit is compared with the integers.
FitsUnscaled(n, scale) == n \in Int64

\* The quotient of the smallest integer rounds towards zero, as in Go.
Fits(n, scale) ==
    n \in -((-MinInt(numberWidth)) \div scale) .. MaxInt(numberWidth) \div scale

Refused == [ok |-> FALSE, n |-> 0]

\* The product is an int64.
ParseScaled(kind, n, unit) ==
    IF \/ unit # "" /\ unit \notin DOMAIN Multiplier(kind)
       \/ n \notin Int64
       \/ ~Fits(n, Scale(kind, unit))
    THEN Refused
    ELSE [ok |-> TRUE, n |-> Wrapped(n * Scale(kind, unit), numberWidth)]

-----------------------------------------------------------------------------
(* provider.go: StreamUsage.  -1 is a count or a cost nobody reported.     *)

Counts == {"input", "output", "cached"}

NewStreamUsage == [input |-> -1, output |-> -1, cached |-> -1, cost |-> -1, fast |-> "unknown"]

Unpriced(u) == u.cost < 0 /\ (u.input >= 0 \/ u.output >= 0)

\* -1 counts for nothing.
Sum2(x, y) == IF y < 0 THEN x ELSE Max({x, 0}) + y

\* Mutant: a cost that was unknown is forgotten as soon as another is known.
AddForgiving(u, extra) ==
    [c \in DOMAIN u |->
        CASE c \in Counts -> Sum2(u[c], extra[c])
          [] c = "fast" -> IF extra.fast = "unknown" THEN u.fast ELSE extra.fast
          [] c = "cost" -> IF Unpriced(extra) THEN -1 ELSE Sum2(u.cost, extra.cost)]

Add(u, extra) ==
    [c \in DOMAIN u |->
        CASE c \in Counts -> Sum2(u[c], extra[c])
          [] c = "fast" -> IF extra.fast = "unknown" THEN u.fast ELSE extra.fast
          [] c = "cost" -> IF Unpriced(u) \/ Unpriced(extra) THEN -1 ELSE Sum2(u.cost, extra.cost)]

-----------------------------------------------------------------------------
(* providerconfig.go: the headers of a JSON object, whose members come in  *)
(* any order, and their merge.  A member has a name, the spelling of it    *)
(* and a value; "$SET" is a variable that holds "v", "$UNSET" one that is  *)
(* unset or empty, and "bad" a member no header can be made of.            *)

resolveHeaderValue(value) == IF value = "$SET" THEN "v" ELSE value

Values(headers, name) == IF name \in DOMAIN headers THEN headers[name] ELSE <<>>

\* The headers with these values under a name.
With(headers, name, values) ==
    [n \in DOMAIN headers \cup {name} |-> IF n = name THEN values ELSE headers[n]]

\* Mutant: the mark of a removal joins the values that are there.
WithMemberMarked(headers, member, keepEmpty) ==
    IF member.value \in {"bad", "$UNSET"} \/ (member.value = "" /\ ~keepEmpty) THEN headers
    ELSE With(headers, member.name, Append(Values(headers, member.name), resolveHeaderValue(member.value)))

\* An empty value replaces what other spellings gave.
WithMember(headers, member, keepEmpty) ==
    CASE member.value \in {"bad", "$UNSET"} \/ (member.value = "" /\ ~keepEmpty) -> headers
      [] member.value = "" /\ keepEmpty -> With(headers, member.name, <<"">>)
      [] OTHER -> With(headers, member.name,
                       Append(Values(headers, member.name), resolveHeaderValue(member.value)))

headersFromMap(members, keepEmpty) ==
    FoldLeft(LAMBDA headers, member : WithMember(headers, member, keepEmpty), <<>>, members)

MergeHeaders(defaults, overrides) ==
    LET removed == {n \in DOMAIN overrides : Head(overrides[n]) = ""}
    IN  [n \in (DOMAIN defaults \cup DOMAIN overrides) \ removed |->
            IF n \in DOMAIN overrides THEN overrides[n] ELSE defaults[n]]

DefaultHeaders(defaults, configured) ==
    MergeHeaders(headersFromMap(defaults, TRUE), headersFromMap(configured, TRUE))

-----------------------------------------------------------------------------
(* openai.go: messages.  An item has a kind, the id of its call, whether   *)
(* it has an image, and whether reasoning is this model's own; `details`   *)
(* is reasoning that comes with details in JSON.                           *)

OfAssistant == {"text", "call", "reasoning", "details"}

\* The kinds of items that an item of this kind makes messages with.
Together(kind) ==
    CASE kind = "result" -> {"result"}
      [] kind \in OfAssistant -> OfAssistant
      [] OTHER -> {}

\* An item joins the last group when the two go together, or starts one.
Grouped(groups, x) ==
    IF groups # <<>> /\ x.kind \in Together(Last(groups)[1].kind)
    THEN Append(Front(groups), Append(Last(groups), x))
    ELSE Append(groups, <<x>>)

Groups(items) == FoldLeft(Grouped, <<>>, items)

\* The ids of the calls in a group, and how many of its items have an image.
ToolCalls(group) == FoldLeft(LAMBDA ids, x : IF x.kind = "call" THEN Append(ids, x.id) ELSE ids, <<>>, group)
Pictures(group) == FoldLeft(LAMBDA n, x : IF x.image THEN n + 1 ELSE n, 0, group)

ToolMessages(group) == [n \in DOMAIN group |-> [role |-> "tool", id |-> group[n].id]]

ImageMessage(group, images) ==
    IF images /\ Pictures(group) > 0 THEN <<[role |-> "user", images |-> Pictures(group)]>> ELSE <<>>

\* Mutant: each image directly after its result.
ResultMessagesOneByOne(group, images) ==
    FoldLeft(LAMBDA out, x : out \o ToolMessages(<<x>>) \o ImageMessage(<<x>>, images), <<>>, group)

ResultMessages(group, images) == ToolMessages(group) \o ImageMessage(group, images)

\* One message of everything, if there is anything to say; `field`: there is a field to
\* repeat reasoning in.  Details have one of their own.
AssistantMessage(group, field) ==
    LET Has(kind) == \E n \in DOMAIN group : group[n].kind = kind
        Own(kind) == \E n \in DOMAIN group : group[n].kind = kind /\ group[n].own
    IN  IF ToolCalls(group) # <<>> \/ Has("text") \/ Own("details") \/ (field /\ Own("reasoning"))
        THEN <<[role |-> "assistant", tool_calls |-> ToolCalls(group)]>>
        ELSE <<>>

GroupMessages(group, images, field) ==
    LET kind == group[1].kind
    IN  CASE kind = "user" -> <<[role |-> "user", images |-> 0]>>
          [] kind = "result" -> ResultMessages(group, images)
          [] kind \in OfAssistant -> AssistantMessage(group, field)
          [] OTHER -> <<>>

Messages(items, images, field) ==
    FoldLeft(LAMBDA out, group : out \o GroupMessages(group, images, field), <<>>, Groups(items))
=============================================================================
