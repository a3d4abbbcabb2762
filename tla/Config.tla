------------------------------- MODULE Config -------------------------------
(***************************************************************************)
(* internal/herbie/config: settings come from six places, the strongest    *)
(* first: this run, the conversation, the environment, state.json,         *)
(* config.json and the defaults.  Provider and model are chosen together,  *)
(* by a preset, a recorded conversation or the user, and a choice of a     *)
(* weaker place must not be torn apart by a stronger one.  Several         *)
(* processes share the two files: each reads them once, when it starts,    *)
(* and writes a whole file anew from what it remembers.                    *)
(*                                                                         *)
(* `model` stands for model, effort and fast, which the code treats alike; *)
(* `retries` for the settings whose key has a dot, http.max_retries, found *)
(* in a file under the whole key or as a member of the object http.  A     *)
(* preset's prompt is told by the preset's name.  A process uses its       *)
(* Config from one goroutine, and sets the selection of a conversation     *)
(* only as a whole.                                                        *)
(*                                                                         *)
(* Failures: a write fails at any step, a process is killed, the power     *)
(* fails; what is not synced is torn then, and a rename may be undone.     *)
(***************************************************************************)
EXTENDS Naturals

CONSTANTS
    Proc,         \* processes
    Provider,     \* spellings of provider ids
    Canonical,    \* CanonicalProviderID: "llama.cpp" is "llamacpp"
    Model,        \* model ids
    Home,         \* the provider that has the model
    Preset,       \* names of presets
    Retries,      \* texts a user may give for http.max_retries
    ConfigFiles,  \* what the user may have written to config.json
    Envs,         \* environments
    MaxOps        \* bound: starts, operations, crashes and power failures

None == "none"
Empty == ""
Default == "(default)"

ASSUME SpellingAssumption ==
    /\ None \notin Provider \cup Model \cup Preset \cup Retries
    /\ Empty \notin Provider \cup Model \cup Preset
    /\ Default \notin Provider \cup Model \cup Preset
    /\ Retries \subseteq {"", "-1", "0", "4", "100", "101", "junk"}
ASSUME ProviderAssumption ==
    /\ Canonical \in [Provider -> Provider]
    /\ Home \in [Model -> Provider]
ASSUME BoundAssumption == MaxOps \in Nat

VARIABLES
    mem,     \* the Config of each process
    op,      \* what it is writing, and how far it is
    disk,    \* the two files
    before,  \* the two files before their last rename
    ops      \* operations so far

vars == <<mem, op, disk, before, ops>>

-----------------------------------------------------------------------------
(* A tier: a map of settings, and the presets, which only config.json has. *)

PresetDef == [provider : Provider \cup {None}, model : Model \cup {None}, prompt : BOOLEAN]

Tier == [
    provider : Provider \cup {None},
    model : Model \cup {None, Default},
    preset : Preset \cup {None, Empty},
    system_prompt : Preset \cup {None},
    literal : Retries \cup {None},
    nested : Retries \cup {None},
    presets : UNION {[S -> PresetDef] : S \in SUBSET Preset}]

NoTier == [provider |-> None, model |-> None, preset |-> None, system_prompt |-> None,
           literal |-> None, nested |-> None, presets |-> [n \in {} |-> None]]

\* A file: JSON, or what a user wrote and is not, or what a power failure left.
File == {"state", "config"}
Json(t, synced) == [kind |-> "json", tier |-> t, synced |-> synced]
Unparsable == [kind |-> "unparsable", tier |-> NoTier, synced |-> TRUE]
Torn == [kind |-> "torn", tier |-> NoTier, synced |-> TRUE]

\* A model is only beside the provider that has it, in a tier and in its presets.
Together(t) == t.model \in Model => t.provider # None /\ Home[t.model] = Canonical[t.provider]
Coherent(t) == Together(t) /\ \A n \in DOMAIN t.presets : Together(t.presets[n])

\* What the user wrote: JSON or not, but no model beside the provider of another.
ASSUME FilesAssumption ==
    \A f \in ConfigFiles :
        f \in [kind : {"json", "unparsable"}, tier : Tier, synced : {TRUE}] /\ Coherent(f.tier)
ASSUME EnvsAssumption == Envs \subseteq Tier

ValueAt(t, k) ==
    IF k # "retries" THEN t[k] ELSE IF t.literal # None THEN t.literal ELSE t.nested

\* c.run[k] = v
SetLiteral(t, k, v) == IF k = "retries" THEN [t EXCEPT !.literal = v] ELSE [t EXCEPT ![k] = v]

\* Mutant: the whole key stays beside the member that is set.
SetNestedOnly(t, k, v) == IF k = "retries" THEN [t EXCEPT !.nested = v] ELSE [t EXCEPT ![k] = v]

\* persist: the whole key is deleted, the member set or, with None, deleted.
SetNested(t, k, v) ==
    IF k = "retries" THEN [t EXCEPT !.literal = None, !.nested = v] ELSE [t EXCEPT ![k] = v]

-----------------------------------------------------------------------------
(* Lookup *)

Sources == <<"run", "conversation", "env", "state", "config">>

\* The places whose model counts only with the provider they name.
Bound == {"conversation", "state", "config"}

\* present: an empty text counts where it means something.
Present(k, v) == v # None /\ (k = "retries" => v # Empty)

Strongest(S) == CHOOSE i \in S : \A j \in S : i <= j

\* Lookup("provider"), which is bound to nothing.
ActiveProvider(c) ==
    LET S == {i \in DOMAIN Sources : Present("provider", ValueAt(c[Sources[i]], "provider"))}
    IN  IF S = {} THEN Empty ELSE ValueAt(c[Sources[Strongest(S)]], "provider")

SameProvider(a, b) == a # Empty /\ Canonical[a] = Canonical[b]

\* Mutant: a model counts with any provider.
AlwaysAllowed(c, s, k) == TRUE

Allowed(c, s, k) ==
    \/ k # "model"
    \/ s \notin Bound
    \/ c[s].provider = None
    \/ SameProvider(ActiveProvider(c), c[s].provider)

DefaultOf(k) == IF k = "retries" THEN "4" ELSE Empty

Lookup(c, k) ==
    LET S == {i \in DOMAIN Sources :
                 Present(k, ValueAt(c[Sources[i]], k)) /\ Allowed(c, Sources[i], k)}
    IN  IF S = {}
        THEN [value |-> DefaultOf(k), source |-> "default"]
        ELSE LET s == Sources[Strongest(S)]
                 v == ValueAt(c[s], k)
             IN  [value |-> IF v = Default THEN DefaultOf(k) ELSE v, source |-> s]

\* typed: an integer, no less than 0 and at most 100, or the default; Retry adds one.
MaxAttempts(c) ==
    LET v == Lookup(c, "retries").value IN
    CASE v = "0" -> 1 [] v = "100" -> 101 [] v \in {"4", "junk", "-1", "101"} -> 5

-----------------------------------------------------------------------------
(* The operations on one Config. *)

Target(conversation) == IF conversation THEN "conversation" ELSE "run"

\* Mutant: the prompt of the preset that is left stays.
LeaveKeepsPrompt(t) == [t EXCEPT !.preset = Empty]

Leave(t) == [t EXCEPT !.preset = Empty, !.system_prompt = None]

PresetExit(c, conversation) ==
    IF conversation
    THEN [c EXCEPT !.conversation = Leave(@)]
    ELSE [c EXCEPT !.run = Leave(@),
                   !.conversation = IF @ = NoTier THEN @ ELSE Leave(@)]

\* Preset: it is defined, names a provider, and its prompt can be read.
ValidPreset(c, name, readable) ==
    /\ name \in DOMAIN c.config.presets
    /\ c.config.presets[name].provider # None
    /\ c.config.presets[name].prompt => readable

\* Mutant: a preset without a model leaves an empty one.
AdoptEmptyModel(t, name, p) ==
    [t EXCEPT !.provider = p.provider, !.model = IF p.model # None THEN p.model ELSE Empty,
              !.system_prompt = IF p.prompt THEN name ELSE @, !.preset = name]

\* What a preset sets in a tier; without a model the provider's default counts.
Adopt(t, name, p) ==
    [t EXCEPT !.provider = p.provider, !.model = IF p.model # None THEN p.model ELSE Default,
              !.system_prompt = IF p.prompt THEN name ELSE @, !.preset = name]

PresetApply(c, name, conversation) ==
    LET d == PresetExit(c, conversation)
        s == Target(conversation)
    IN  [d EXCEPT ![s] = Adopt(d[s], name, c.config.presets[name])]

\* Before the preset, which may turn out invalid.
RestoreSelection(c, conversation, provider, model) ==
    PresetExit([c EXCEPT ![Target(conversation)] =
        IF provider = None THEN @
        ELSE [@ EXCEPT !.provider = provider,
                       !.model = IF model # None THEN model ELSE Default]], conversation)

\* TaskSelection: the Config of a task, of which only the two files and the
\* environment are those of the process.
TaskSelection(c, provider, model) ==
    [c EXCEPT !.conversation = NoTier,
              !.run = [NoTier EXCEPT !.provider = provider,
                                     !.model = IF model # None THEN model ELSE Default]]

\* Mutant: a change of the provider keeps the model.
NextSelectionKeeps(t, provider, model) ==
    [t EXCEPT !.preset = None, !.provider = provider,
              !.model = IF model # None THEN model ELSE @]

\* PersistSelection: a new provider without a model gets its default model.
NextSelection(t, provider, model) ==
    [t EXCEPT !.preset = None, !.provider = provider,
              !.model = IF model # None THEN model
                        ELSE IF t.provider # provider THEN Default ELSE @]

\* SavePreset: a preset that exists is replaced, its prompt is lost.
WithPreset(t, name, provider, model) ==
    [t EXCEPT !.presets =
        [n \in DOMAIN @ \cup {name} |->
            IF n = name THEN [provider |-> provider, model |-> model, prompt |-> FALSE]
                        ELSE @[n]]]

-----------------------------------------------------------------------------
(* The processes *)

Idle == [phase |-> "idle", call |-> None, file |-> "state", next |-> NoTier,
         key |-> None, value |-> None]
Off == [Idle EXCEPT !.phase = "off"]
NoConfig == [env |-> NoTier, run |-> NoTier, conversation |-> NoTier,
             state |-> NoTier, config |-> NoTier, unusable |-> FALSE]

\* A model is chosen with the provider that has it, or left to the provider.
Selections == {s \in Provider \X (Model \cup {None}) :
                  s[2] = None \/ Home[s[2]] = Canonical[s[1]]}

Settings == [env : Tier, run : Tier, conversation : Tier, state : Tier, config : Tier,
             unusable : BOOLEAN]
Writes == [phase : {"off", "idle", "start", "temp", "synced"},
           call : {None, "Persist", "PersistState", "PersistSelection", "SavePreset"},
           file : File, next : Tier,
           key : {None, "retries", "preset", "provider"},
           value : Retries \cup Preset \cup Provider \cup {None}]
Contents == [kind : {"json", "unparsable", "torn"}, tier : Tier, synced : BOOLEAN]

TypeOK ==
    /\ mem \in [Proc -> Settings]
    /\ op \in [Proc -> Writes]
    /\ disk \in [File -> Contents]
    /\ before \in [File -> Contents]
    /\ ops \in 0..MaxOps
    /\ \A p \in Proc : MaxAttempts(mem[p]) \in 1..101

Init ==
    /\ mem = [p \in Proc |-> NoConfig]
    /\ op = [p \in Proc |-> Off]
    /\ \E written \in ConfigFiles :
           disk = [f \in File |-> IF f = "config" THEN written ELSE Json(NoTier, TRUE)]
    /\ before = disk
    /\ ops = 0

Count == ops < MaxOps /\ ops' = ops + 1

\* New, NewWithEnv, Init: a file that cannot be parsed counts as empty.
Start(p, env) ==
    /\ Count
    /\ op[p].phase = "off"
    /\ op' = [op EXCEPT ![p] = Idle]
    /\ mem' = [mem EXCEPT ![p] = [NoConfig EXCEPT
           !.env = env,
           !.state = disk["state"].tier,
           !.config = disk["config"].tier,
           !.unusable = disk["config"].kind # "json"]]
    /\ UNCHANGED <<disk, before>>

\* What an operation in memory does to the Config of a process.
Change(p, c) ==
    /\ Count
    /\ op[p].phase = "idle"
    /\ mem' = [mem EXCEPT ![p] = c]
    /\ UNCHANGED <<op, disk, before>>

SetRun(p, k, v) == Change(p, [mem[p] EXCEPT !.run = SetLiteral(@, k, v)])

ClearRun(p, k) == Change(p, [mem[p] EXCEPT !.run = SetLiteral(@, k, None)])

ApplyPreset(p, name, conversation, readable) ==
    /\ ValidPreset(mem[p], name, readable)
    /\ Change(p, PresetApply(mem[p], name, conversation))

ExitPreset(p, conversation) == Change(p, PresetExit(mem[p], conversation))

\* The selection stands even when the preset that is asked for is invalid.
Restore(p, conversation, selection, name, readable) ==
    LET c == RestoreSelection(mem[p], conversation, selection[1], selection[2])
    IN  Change(p, IF name # None /\ ValidPreset(c, name, readable)
                  THEN PresetApply(c, name, conversation) ELSE c)

ApplyStartupPreset(p, explicitSelection, readable) ==
    LET v == Lookup(mem[p], "preset") IN
    /\ v.value # Empty
    /\ explicitSelection => v.source = "run"
    /\ ValidPreset(mem[p], v.value, readable)
    /\ Change(p, PresetApply(mem[p], v.value, FALSE))

-----------------------------------------------------------------------------
(* Writing: the next content is made of what is remembered, the file is    *)
(* replaced by a temporary file that is written and synced, and memory     *)
(* follows when all of it succeeded.                                       *)

Begin(p, call, file, next, key, value) ==
    /\ Count
    /\ op[p].phase = "idle"
    /\ op' = [op EXCEPT ![p] = [phase |-> "start", call |-> call, file |-> file,
                                next |-> next, key |-> key, value |-> value]]
    /\ UNCHANGED <<mem, disk, before>>

\* Mutant: a config.json that could not be parsed is written over.
PersistAlways(p, v) ==
    Begin(p, "Persist", "config", SetNested(mem[p].config, "retries", v), "retries", v)

Persist(p, v) ==
    /\ ~mem[p].unusable
    /\ Begin(p, "Persist", "config", SetNested(mem[p].config, "retries", v), "retries", v)

PersistState(p, k, v) ==
    Begin(p, "PersistState", "state", SetNested(mem[p].state, k, v), k, v)

PersistSelection(p, selection) ==
    Begin(p, "PersistSelection", "state",
          NextSelection(mem[p].state, selection[1], selection[2]), "provider", selection[1])

SavePreset(p, name, selection) ==
    Begin(p, "SavePreset", "config",
          WithPreset(mem[p].config, name, selection[1], selection[2]), None, None)

WriteTemp(p) ==
    /\ op[p].phase = "start"
    /\ op' = [op EXCEPT ![p].phase = "temp"]
    /\ UNCHANGED <<mem, disk, before, ops>>

Sync(p) ==
    /\ op[p].phase = "temp"
    /\ op' = [op EXCEPT ![p].phase = "synced"]
    /\ UNCHANGED <<mem, disk, before, ops>>

Replace(p) ==
    LET f == op[p].file IN
    /\ disk' = [disk EXCEPT ![f] = Json(op[p].next, op[p].phase = "synced")]
    /\ before' = [before EXCEPT ![f] = disk[f]]
    /\ mem' = [mem EXCEPT ![p][f] = op[p].next]
    /\ op' = [op EXCEPT ![p] = Idle]
    /\ UNCHANGED ops

\* Mutant: the temporary file is not synced first.
RenameUnsynced(p) == op[p].phase \in {"temp", "synced"} /\ Replace(p)

Rename(p) == op[p].phase = "synced" /\ Replace(p)

Fail(p) ==
    /\ op[p].phase \in {"start", "temp", "synced"}
    /\ op' = [op EXCEPT ![p] = Idle]
    /\ UNCHANGED <<mem, disk, before, ops>>

\* The process is killed, between any two steps of a write.
Crash(p) ==
    /\ Count
    /\ op[p].phase # "off"
    /\ op' = [op EXCEPT ![p] = Off]
    /\ mem' = [mem EXCEPT ![p] = NoConfig]
    /\ UNCHANGED <<disk, before>>

\* The directory is not synced: the last rename may be undone.
PowerLoss ==
    /\ Count
    /\ op' = [p \in Proc |-> Off]
    /\ mem' = [p \in Proc |-> NoConfig]
    /\ \E kept \in SUBSET File :
           disk' = [f \in File |-> IF f \notin kept THEN before[f]
                                   ELSE IF disk[f].synced THEN disk[f] ELSE Torn]
    /\ before' = disk'

RunSettings == ({"provider"} \X Provider) \cup ({"model"} \X Model) \cup ({"retries"} \X Retries)

Memory(p) ==
    \/ \E s \in RunSettings : SetRun(p, s[1], s[2])
    \/ \E k \in {"provider", "model", "retries"} : ClearRun(p, k)
    \/ \E n \in Preset, conversation, readable \in BOOLEAN : ApplyPreset(p, n, conversation, readable)
    \/ \E conversation \in BOOLEAN : ExitPreset(p, conversation)
    \/ \E s \in Selections \cup {<<None, None>>}, n \in Preset \cup {None},
          conversation, readable \in BOOLEAN : Restore(p, conversation, s, n, readable)
    \/ \E explicitSelection, readable \in BOOLEAN : ApplyStartupPreset(p, explicitSelection, readable)

Write(p) ==
    \/ \E v \in Retries \cup {None} : Persist(p, v) \/ PersistState(p, "retries", v)
    \/ \E n \in Preset \cup {None} : PersistState(p, "preset", n)
    \/ \E s \in Selections : PersistSelection(p, s)
    \/ \E n \in Preset, s \in Selections : SavePreset(p, n, s)
    \/ WriteTemp(p) \/ Sync(p) \/ Rename(p) \/ Fail(p)

Next ==
    \/ \E p \in Proc : (\E env \in Envs : Start(p, env)) \/ Memory(p) \/ Write(p) \/ Crash(p)
    \/ PowerLoss

Spec == Init /\ [][Next]_vars

-----------------------------------------------------------------------------
(* Properties *)

\* A model is stored only beside the provider that has it: in both files, in
\* what a process remembers of them or is about to write, and in a
\* conversation, after any sequence of presets, selections and failed writes.
StoredTogether ==
    /\ \A f \in File : Together(disk[f].tier) /\ Together(before[f].tier)
    /\ \A p \in Proc : /\ \A s \in Bound : Together(mem[p][s])
                       /\ Together(op[p].next)

InUseFits(c) ==
    LET m == Lookup(c, "model")
        a == ActiveProvider(c)
    IN  m.source \in Bound /\ m.value \in Model => a # Empty /\ Home[m.value] = Canonical[a]

\* Whatever is set elsewhere, a model that comes from a conversation or a file
\* is one of the provider in use (Lookup asks allowed), and so is never sent
\* to another provider; and the Config of a task uses the selection of the task
\* whatever the run, the conversation, the environment and the files say.
ModelFitsProvider ==
    \A p \in Proc :
        /\ InUseFits(mem[p])
        /\ \A s \in Selections :
               LET t == TaskSelection(mem[p], s[1], s[2])
               IN  /\ Lookup(t, "provider").value = s[1]
                   /\ Lookup(t, "model").value = IF s[2] # None THEN s[2] ELSE Empty

\* A conversation or a run keeps no prompt of a preset it has left or
\* replaced, also when the preset that follows brings none or is refused.
PromptOfItsPreset ==
    \A p \in Proc, s \in {"run", "conversation"} :
        mem[p][s].system_prompt # None => mem[p][s].system_prompt = mem[p][s].preset

\* No crash, failed write or power failure leaves half of a file behind.
NeverTorn == \A f \in File : disk[f].kind # "torn"

ReadBack(p) ==
    /\ Rename(p) => /\ disk'[op[p].file].tier = mem'[p][op[p].file]
                    /\ op[p].key # None => ValueAt(mem'[p][op[p].file], op[p].key) = op[p].value
    /\ \A f \in File :
           op[p].phase # "off" /\ op'[p].phase # "off" /\ mem'[p][f] # mem[p][f]
               => disk'[f].kind = "json" /\ disk'[f].tier = mem'[p][f]

\* A write that succeeds is read back, from memory and from the file, and a
\* running process takes a content for the file's only then: after a failed
\* write it still remembers the old one.
WrittenIsRead == [][\A p \in Proc : ReadBack(p)]_vars

\* A config.json that cannot be parsed is the user's to mend: among several
\* processes, some of which started before it was mended, only SavePreset, which
\* does not ask, replaces it.
UnparsableKept ==
    [][disk["config"].kind = "unparsable" /\ disk'["config"].kind # "unparsable"
           => \E p \in Proc : Rename(p) /\ op[p].call = "SavePreset"]_vars
=============================================================================
