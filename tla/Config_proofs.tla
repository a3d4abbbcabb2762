---------------------------- MODULE Config_proofs ----------------------------
(***************************************************************************)
(* The properties of Config, for any processes, providers, models, presets *)
(* and files, and any number of operations, crashes and power failures.    *)
(***************************************************************************)
EXTENDS Config, TLAPS

PromptKept(t) == t.system_prompt # None => t.system_prompt = t.preset

\* What holds of the Config of a process between any two operations.
Sound(c) ==
    /\ c \in Settings
    /\ Coherent(c.conversation) /\ Coherent(c.state) /\ Coherent(c.config)
    /\ PromptKept(c.run) /\ PromptKept(c.conversation)

\* What no operation in memory changes.
Kept(c, d) == d.state = c.state /\ d.config = c.config /\ d.unusable = c.unusable

\* A tier where nothing is set is one that holds together.
LEMMA NoTierSound == NoTier \in Tier /\ Coherent(NoTier) /\ PromptKept(NoTier)
<1>1. [n \in {} |-> None] \in UNION {[S -> PresetDef] : S \in SUBSET Preset}
  <2>1. [n \in {} |-> None] \in [{} -> PresetDef]
    OBVIOUS
  <2> QED
    BY <2>1
<1>2. NoTier \in Tier
  BY <1>1 DEF NoTier, Tier
<1> QED
  BY <1>2, SpellingAssumption DEF NoTier, Coherent, Together, PromptKept

\* Leaving a preset concerns its name and its prompt.
LEMMA LeaveSound ==
    ASSUME NEW t \in Tier
    PROVE  /\ Leave(t) \in Tier /\ PromptKept(Leave(t))
           /\ Leave(t).system_prompt = None
           /\ Leave(t).provider = t.provider /\ Leave(t).model = t.model
           /\ Leave(t).presets = t.presets
BY DEF Leave, Tier, PromptKept

\* Leaving a preset keeps a configuration sound, and leaves no prompt of a preset.
LEMMA ExitSound ==
    ASSUME NEW c, Sound(c), NEW conversation \in BOOLEAN
    PROVE  /\ Sound(PresetExit(c, conversation))
           /\ PresetExit(c, conversation)[Target(conversation)].system_prompt = None
           /\ PresetExit(c, conversation).config = c.config
<1>1. CASE conversation
  <2> DEFINE d == [c EXCEPT !.conversation = Leave(@)]
  <2>1. d \in Settings /\ d.conversation = Leave(c.conversation) /\ d.config = c.config
        /\ d.run = c.run /\ d.state = c.state
    BY LeaveSound DEF Sound, Settings
  <2>2. Coherent(d.conversation) /\ PromptKept(d.conversation)
    BY <2>1, LeaveSound DEF Sound, Settings, Coherent, Together
  <2>3. d.conversation.system_prompt = None
    BY <2>1, LeaveSound DEF Sound, Settings
  <2> QED
    BY <1>1, <2>1, <2>2, <2>3 DEF PresetExit, Target, Sound
<1>2. CASE ~conversation
  <2> DEFINE d == [c EXCEPT !.run = Leave(@),
                            !.conversation = IF @ = NoTier THEN @ ELSE Leave(@)]
  <2>1. d \in Settings /\ d.config = c.config /\ d.run = Leave(c.run) /\ d.state = c.state
        /\ d.conversation = IF c.conversation = NoTier THEN c.conversation ELSE Leave(c.conversation)
    BY LeaveSound DEF Sound, Settings
  <2>2. Coherent(d.conversation) /\ PromptKept(d.conversation)
    BY <2>1, LeaveSound DEF Sound, Settings, Coherent, Together
  <2>3. PromptKept(d.run) /\ d.run.system_prompt = None
    BY <2>1, LeaveSound DEF Sound, Settings
  <2> QED
    BY <1>2, <2>1, <2>2, <2>3 DEF PresetExit, Target, Sound
<1> QED
  BY <1>1, <1>2

\* A tier that takes a sound preset over names the provider and model of it, and its prompt.
LEMMA AdoptSound ==
    ASSUME NEW t \in Tier, t.system_prompt = None, NEW name \in Preset,
           NEW p \in PresetDef, p.provider # None, Together(p)
    PROVE  LET u == Adopt(t, name, p)
           IN  u \in Tier /\ Together(u) /\ PromptKept(u) /\ u.presets = t.presets
<1> DEFINE u == Adopt(t, name, p)
<1>1. /\ u.provider = p.provider /\ u.preset = name /\ u.presets = t.presets
      /\ u.model = (IF p.model # None THEN p.model ELSE Default)
      /\ u.system_prompt = (IF p.prompt THEN name ELSE t.system_prompt)
  BY DEF Adopt, Tier
<1>2. u \in Tier
  <2>1. /\ p.provider \in Provider \cup {None} /\ p.model \in Model \cup {None} /\ p.prompt \in BOOLEAN
        /\ t.system_prompt \in Preset \cup {None}
    BY DEF PresetDef, Tier
  <2> DEFINE m == IF p.model # None THEN p.model ELSE Default
             s == IF p.prompt THEN name ELSE t.system_prompt
  <2>2. m \in Model \cup {None, Default} /\ s \in Preset \cup {None}
    BY <2>1
  <2>3. u = [t EXCEPT !.provider = p.provider, !.model = m, !.system_prompt = s, !.preset = name]
    BY DEF Adopt
  <2> HIDE DEF m, s, u
  <2> QED
    BY <2>1, <2>2, <2>3 DEF Tier
<1>3. Together(u)
  BY <1>1, SpellingAssumption DEF PresetDef, Together
<1>4. PromptKept(u)
  BY <1>1 DEF PromptKept
<1> QED
  BY <1>1, <1>2, <1>3, <1>4

\* Applying a valid preset keeps a configuration sound.
LEMMA ApplySound ==
    ASSUME NEW c, Sound(c), NEW name \in Preset, NEW readable, ValidPreset(c, name, readable),
           NEW conversation \in BOOLEAN
    PROVE  Sound(PresetApply(c, name, conversation))
<1> DEFINE p == c.config.presets[name]
           d == PresetExit(c, conversation)
<1>1. p \in PresetDef /\ p.provider # None /\ Together(p)
  BY DEF Sound, Settings, Tier, ValidPreset, Coherent
<1>2. Sound(d) /\ d[Target(conversation)].system_prompt = None
  BY ExitSound
<1> HIDE DEF p, d
<1>3. CASE conversation
  <2> DEFINE u == Adopt(d.conversation, name, p)
             e == [d EXCEPT !.conversation = u]
  <2>1. d.conversation \in Tier /\ d.conversation.system_prompt = None
    BY <1>2, <1>3 DEF Target, Sound, Settings
  <2>2. u \in Tier /\ Together(u) /\ PromptKept(u) /\ u.presets = d.conversation.presets
    BY <1>1, <2>1, AdoptSound
  <2> HIDE DEF u
  <2>3. e \in Settings /\ e.conversation = u /\ e.config = d.config
        /\ e.run = d.run /\ e.state = d.state
    BY <1>2, <2>2 DEF Sound, Settings
  <2>4. Sound(e)
    BY <1>2, <2>2, <2>3 DEF Sound, Coherent
  <2> QED
    BY <1>3, <2>4 DEF PresetApply, Target, p, d, u
<1>4. CASE ~conversation
  <2> DEFINE u == Adopt(d.run, name, p)
             e == [d EXCEPT !.run = u]
  <2>1. d.run \in Tier /\ d.run.system_prompt = None
    BY <1>2, <1>4 DEF Target, Sound, Settings
  <2>2. u \in Tier /\ PromptKept(u)
    BY <1>1, <2>1, AdoptSound
  <2> HIDE DEF u
  <2>3. e \in Settings /\ e.conversation = d.conversation /\ e.config = d.config
        /\ e.run = u /\ e.state = d.state
    BY <1>2, <2>2 DEF Sound, Settings
  <2>4. Sound(e)
    BY <1>2, <2>2, <2>3 DEF Sound
  <2> QED
    BY <1>4, <2>4 DEF PresetApply, Target, p, d, u
<1> QED
  BY <1>3, <1>4

\* Restoring the selection of a conversation keeps a configuration sound.
LEMMA RestoreSound ==
    ASSUME NEW c, Sound(c), NEW conversation \in BOOLEAN,
           NEW selection \in Selections \cup {<<None, None>>}
    PROVE  Sound(RestoreSelection(c, conversation, selection[1], selection[2]))
<1> DEFINE provider == selection[1]
           model == selection[2]
           Chosen(t) == [t EXCEPT !.provider = provider,
                                  !.model = IF model # None THEN model ELSE Default]
<1>1. \/ provider = None
      \/ /\ provider \in Provider /\ provider # None /\ model \in Model \cup {None}
         /\ model # None => Home[model] = Canonical[provider]
  <2>1. CASE selection = <<None, None>>
    BY <2>1
  <2>2. CASE selection \in Selections
    <3>1. selection \in Provider \X (Model \cup {None})
      BY <2>2 DEF Selections
    <3>2. provider \in Provider /\ model \in Model \cup {None}
      BY <3>1
    <3>3. model # None => Home[model] = Canonical[provider]
      BY <2>2 DEF Selections
    <3> QED
      BY <3>2, <3>3, SpellingAssumption
  <2> QED
    BY <2>1, <2>2
<1>2. ASSUME NEW t \in Tier, provider # None
      PROVE  /\ Chosen(t) \in Tier /\ Together(Chosen(t)) /\ Chosen(t).presets = t.presets
             /\ Chosen(t).preset = t.preset /\ Chosen(t).system_prompt = t.system_prompt
  <2> DEFINE u == Chosen(t)
  <2>1. /\ u.provider = provider /\ u.presets = t.presets
        /\ u.preset = t.preset /\ u.system_prompt = t.system_prompt
        /\ u.model = (IF model # None THEN model ELSE Default)
    BY DEF Tier
  <2>2. u \in Tier
    BY <1>1, <1>2 DEF Tier
  <2>3. Together(u)
    BY <1>1, <1>2, <2>1, SpellingAssumption DEF Together
  <2> QED
    BY <2>1, <2>2, <2>3
<1> HIDE DEF provider, model, Chosen
<1>3. CASE provider = None
  <2>1. [c EXCEPT ![Target(conversation)] = @] = c
    BY DEF Sound, Settings
  <2>2. RestoreSelection(c, conversation, provider, model) = PresetExit(c, conversation)
    BY <1>3, <2>1 DEF RestoreSelection
  <2> QED
    BY <2>2, ExitSound DEF provider, model
<1>4. CASE provider # None /\ conversation
  <2> DEFINE u == Chosen(c.conversation)
             e == [c EXCEPT !.conversation = u]
  <2>1. /\ u \in Tier /\ Together(u) /\ u.presets = c.conversation.presets
        /\ u.preset = c.conversation.preset /\ u.system_prompt = c.conversation.system_prompt
    BY <1>2, <1>4 DEF Sound, Settings
  <2> HIDE DEF u
  <2>2. e \in Settings /\ e.conversation = u /\ e.config = c.config
        /\ e.run = c.run /\ e.state = c.state
    BY <2>1 DEF Sound, Settings
  <2>3. Sound(e)
    BY <2>1, <2>2 DEF Sound, Coherent, PromptKept
  <2>4. RestoreSelection(c, conversation, provider, model) = PresetExit(e, conversation)
    BY <1>4 DEF RestoreSelection, Target, u, Chosen
  <2> QED
    BY <2>3, <2>4, ExitSound DEF provider, model
<1>5. CASE provider # None /\ ~conversation
  <2> DEFINE u == Chosen(c.run)
             e == [c EXCEPT !.run = u]
  <2>1. u \in Tier /\ u.preset = c.run.preset /\ u.system_prompt = c.run.system_prompt
    BY <1>2, <1>5 DEF Sound, Settings
  <2> HIDE DEF u
  <2>2. e \in Settings /\ e.conversation = c.conversation /\ e.config = c.config
        /\ e.run = u /\ e.state = c.state
    BY <2>1 DEF Sound, Settings
  <2>3. Sound(e)
    BY <2>1, <2>2 DEF Sound, PromptKept
  <2>4. RestoreSelection(c, conversation, provider, model) = PresetExit(e, conversation)
    BY <1>5 DEF RestoreSelection, Target, u, Chosen
  <2> QED
    BY <2>3, <2>4, ExitSound DEF provider, model
<1> QED
  BY <1>3, <1>4, <1>5

\* None of these changes what is remembered of the files.
LEMMA ExitKeeps ==
    ASSUME NEW c \in Settings, NEW conversation \in BOOLEAN
    PROVE  Kept(c, PresetExit(c, conversation))
BY DEF PresetExit, Kept, Settings

\* Nor does applying a preset.
LEMMA ApplyKeeps ==
    ASSUME NEW c, Sound(c), NEW name, NEW conversation \in BOOLEAN
    PROVE  Kept(c, PresetApply(c, name, conversation))
<1> DEFINE d == PresetExit(c, conversation)
           u == Adopt(d[Target(conversation)], name, c.config.presets[name])
<1>1. Kept(c, d) /\ d \in Settings
  BY ExitKeeps, ExitSound DEF Sound
<1>2. PresetApply(c, name, conversation) = [d EXCEPT ![Target(conversation)] = u]
  BY DEF PresetApply
<1> HIDE DEF d, u
<1> QED
  BY <1>1, <1>2 DEF Kept, Settings, Target

\* Nor does restoring a selection.
LEMMA RestoreKeeps ==
    ASSUME NEW c, Sound(c), NEW conversation \in BOOLEAN, NEW provider, NEW model
    PROVE  Kept(c, RestoreSelection(c, conversation, provider, model))
<1> DEFINE Chosen(t) == IF provider = None THEN t
                        ELSE [t EXCEPT !.provider = provider,
                                       !.model = IF model # None THEN model ELSE Default]
           u == Chosen(c[Target(conversation)])
           e == [c EXCEPT ![Target(conversation)] = u]
<1>1. RestoreSelection(c, conversation, provider, model) = PresetExit(e, conversation)
  BY DEF RestoreSelection
<1> HIDE DEF u
<1>2. Kept(c, e)
  BY DEF Kept, Sound, Settings, Target
<1>3. Kept(e, PresetExit(e, conversation))
  BY DEF PresetExit, Kept, Sound, Settings, Target
<1> QED
  BY <1>1, <1>2, <1>3 DEF Kept

\* A value given for this run alone keeps a configuration sound.
LEMMA RunSound ==
    ASSUME NEW c, Sound(c), NEW k \in {"provider", "model", "retries"}, NEW v,
           \/ v = None
           \/ k = "provider" /\ v \in Provider
           \/ k = "model" /\ v \in Model
           \/ k = "retries" /\ v \in Retries
    PROVE  LET d == [c EXCEPT !.run = SetLiteral(@, k, v)] IN Sound(d) /\ Kept(c, d)
<1> DEFINE u == SetLiteral(c.run, k, v)
           d == [c EXCEPT !.run = u]
<1>1. u \in Tier /\ PromptKept(u)
  BY DEF SetLiteral, Sound, Settings, Tier, PromptKept
<1> HIDE DEF u
<1>2. Sound(d) /\ Kept(c, d)
  BY <1>1 DEF Sound, Settings, Kept
<1> QED
  BY <1>2 DEF u

-----------------------------------------------------------------------------
(* The contents that are written *)

\* Writing a setting keeps a tier coherent, and the setting is found there.
LEMMA NestedSound ==
    ASSUME NEW t \in Tier, Coherent(t), NEW k, NEW v,
           \/ k = "retries" /\ v \in Retries \cup {None}
           \/ k = "preset" /\ v \in Preset \cup {None}
    PROVE  LET u == SetNested(t, k, v) IN u \in Tier /\ Coherent(u) /\ ValueAt(u, k) = v
<1>1. CASE k = "retries" /\ v \in Retries \cup {None}
  <2> DEFINE u == [t EXCEPT !.literal = None, !.nested = v]
  <2>1. /\ u \in Tier /\ u.model = t.model /\ u.provider = t.provider /\ u.presets = t.presets
        /\ u.literal = None /\ u.nested = v
    BY <1>1 DEF Tier
  <2>2. SetNested(t, k, v) = u
    BY <1>1 DEF SetNested
  <2> HIDE DEF u
  <2> QED
    BY <1>1, <2>1, <2>2 DEF Coherent, Together, ValueAt
<1>2. CASE k = "preset" /\ v \in Preset \cup {None}
  <2> DEFINE u == [t EXCEPT !.preset = v]
  <2>1. /\ u \in Tier /\ u.model = t.model /\ u.provider = t.provider /\ u.presets = t.presets
        /\ u.preset = v
    BY <1>2 DEF Tier
  <2>2. SetNested(t, k, v) = u
    BY <1>2 DEF SetNested
  <2> HIDE DEF u
  <2> QED
    BY <1>2, <2>1, <2>2 DEF Coherent, Together, ValueAt
<1> QED
  BY <1>1, <1>2

\* What is selected is a provider, with a model of it or none.
LEMMA SelectionChosen ==
    ASSUME NEW s \in Selections
    PROVE  /\ s[1] \in Provider /\ s[1] # None /\ s[2] \in Model \cup {None}
           /\ s[2] # None => Home[s[2]] = Canonical[s[1]]
<1>1. s \in Provider \X (Model \cup {None})
  BY DEF Selections
<1>2. s[1] \in Provider /\ s[2] \in Model \cup {None}
  BY <1>1
<1>3. s[2] # None => Home[s[2]] = Canonical[s[1]]
  BY DEF Selections
<1> QED
  BY <1>2, <1>3, SpellingAssumption

\* The selection that is written names a model of its provider.
LEMMA NextSelectionSound ==
    ASSUME NEW t \in Tier, Coherent(t), NEW s \in Selections
    PROVE  LET u == NextSelection(t, s[1], s[2])
           IN  u \in Tier /\ Coherent(u) /\ ValueAt(u, "provider") = s[1]
<1> DEFINE provider == s[1]
           model == s[2]
           m == IF model # None THEN model ELSE IF t.provider # provider THEN Default ELSE t.model
           u == [t EXCEPT !.preset = None, !.provider = provider, !.model = m]
<1>1. /\ provider \in Provider /\ provider # None /\ model \in Model \cup {None}
      /\ model # None => Home[model] = Canonical[provider]
  BY SelectionChosen
<1>2. NextSelection(t, s[1], s[2]) = u
  BY DEF NextSelection
<1> HIDE DEF provider, model
<1>3. m \in Model \cup {None, Default}
  BY <1>1 DEF Tier
<1>4. m \in Model => Home[m] = Canonical[provider]
  BY <1>1, SpellingAssumption DEF Coherent, Together
<1> HIDE DEF m
<1>5. u \in Tier /\ u.provider = provider /\ u.model = m /\ u.presets = t.presets
  BY <1>1, <1>3 DEF Tier
<1> HIDE DEF u
<1>6. Coherent(u) /\ ValueAt(u, "provider") = provider
  BY <1>1, <1>4, <1>5 DEF Coherent, Together, ValueAt
<1> QED
  BY <1>2, <1>5, <1>6 DEF provider

\* A preset that is saved keeps a tier coherent.
LEMMA WithPresetSound ==
    ASSUME NEW t \in Tier, Coherent(t), NEW name \in Preset, NEW s \in Selections
    PROVE  LET u == WithPreset(t, name, s[1], s[2]) IN u \in Tier /\ Coherent(u)
<1> DEFINE new == [provider |-> s[1], model |-> s[2], prompt |-> FALSE]
           q == [n \in DOMAIN t.presets \cup {name} |-> IF n = name THEN new ELSE t.presets[n]]
           u == [t EXCEPT !.presets = q]
<1>1. new \in PresetDef /\ Together(new)
  <2>1. new.model \in Model => new.provider # None /\ Home[new.model] = Canonical[new.provider]
    BY SelectionChosen, SpellingAssumption
  <2>2. new \in PresetDef
    BY SelectionChosen DEF PresetDef
  <2> QED
    BY <2>1, <2>2 DEF Together
<1>2. WithPreset(t, name, s[1], s[2]) = u
  BY DEF WithPreset
<1> HIDE DEF new
<1>3. PICK S \in SUBSET Preset : t.presets \in [S -> PresetDef]
  BY DEF Tier
<1>4. q \in [S \cup {name} -> PresetDef]
  BY <1>1, <1>3
<1>5. q \in UNION {[R -> PresetDef] : R \in SUBSET Preset}
  <2>1. S \cup {name} \in SUBSET Preset
    OBVIOUS
  <2> QED
    BY <1>4, <2>1
<1>6. \A n \in DOMAIN q : Together(q[n])
  BY <1>1, <1>3 DEF Coherent
<1> HIDE DEF q
<1>7. u \in Tier /\ u.provider = t.provider /\ u.model = t.model /\ u.presets = q
  BY <1>5 DEF Tier
<1> HIDE DEF u
<1> QED
  BY <1>2, <1>6, <1>7 DEF Coherent, Together

-----------------------------------------------------------------------------
(* The inductive invariant *)

TypeInv ==
    /\ mem \in [Proc -> Settings]
    /\ op \in [Proc -> Writes]
    /\ disk \in [File -> Contents]
    /\ before \in [File -> Contents]
    /\ ops \in 0..MaxOps

MemoryInv == \A p \in Proc : Sound(mem[p])

\* A file, and what a power failure may make of it.
Whole(f) == f.kind # "torn" /\ f.synced = TRUE /\ Coherent(f.tier)
FilesInv == \A f \in File : Whole(disk[f]) /\ Whole(before[f])

WriteInv(p) ==
    /\ Coherent(op[p].next)
    /\ op[p].key # None => ValueAt(op[p].next, op[p].key) = op[p].value
    /\ op[p].file = "config" => op[p].call \in {"Persist", "SavePreset"}
    /\ op[p].call = "Persist" => ~mem[p].unusable
WritesInv == \A p \in Proc : WriteInv(p)

\* A config.json that cannot be parsed was there from the beginning, and every
\* process that runs has found it.
UserInv ==
    disk["config"].kind = "unparsable" =>
        /\ before["config"].kind = "unparsable"
        /\ \A p \in Proc : op[p].phase # "off" => mem[p].unusable

IInv == TypeInv /\ MemoryInv /\ FilesInv /\ WritesInv /\ UserInv

\* A process that is off or idle writes nothing.
LEMMA StartingPoints ==
    /\ Idle \in Writes /\ Off \in Writes
    /\ Off.phase = "off" /\ Off.next = NoTier /\ Off.key = None /\ Off.call = None
    /\ Off.file = "state"
    /\ Idle.phase = "idle" /\ Idle.next = NoTier /\ Idle.key = None /\ Idle.call = None
    /\ Idle.file = "state"
BY NoTierSound DEF Idle, Off, Writes, File

\* The configuration of a process that has not read the files is sound.
LEMMA NoConfigSound ==
    Sound(NoConfig) /\ NoConfig.unusable = FALSE
BY NoTierSound DEF NoConfig, Sound, Settings

\* The invariant holds at first.
LEMMA InitInv == Init => IInv
<1> SUFFICES ASSUME Init PROVE IInv
  OBVIOUS
<1>1. PICK f \in ConfigFiles :
          disk = [x \in File |-> IF x = "config" THEN f ELSE Json(NoTier, TRUE)]
  BY DEF Init
<1>2. f \in Contents /\ f.kind \in {"json", "unparsable"} /\ f.synced = TRUE /\ Coherent(f.tier)
  BY FilesAssumption DEF Contents
<1>3. disk["config"] = f /\ disk["state"] = Json(NoTier, TRUE) /\ disk \in [File -> Contents]
  BY <1>1, <1>2, NoTierSound DEF File, Json, Contents
<1>4. Whole(disk["config"]) /\ Whole(disk["state"])
  BY <1>2, <1>3, NoTierSound DEF Whole, Json
<1>5. before = disk /\ ops = 0 /\ mem = [p \in Proc |-> NoConfig] /\ op = [p \in Proc |-> Off]
  BY DEF Init
<1>6. TypeInv
  BY <1>3, <1>5, NoConfigSound, StartingPoints, BoundAssumption DEF TypeInv, Sound
<1>7. MemoryInv
  BY <1>5, NoConfigSound DEF MemoryInv
<1>8. FilesInv
  BY <1>4, <1>5 DEF FilesInv, File
<1>9. WritesInv
  BY <1>5, StartingPoints, NoTierSound DEF WritesInv, WriteInv, None
<1>10. UserInv
  BY <1>5, StartingPoints DEF UserInv
<1> QED
  BY <1>6, <1>7, <1>8, <1>9, <1>10 DEF IInv

\* A change in memory keeps it.
LEMMA ChangeInv ==
    ASSUME IInv, NEW p \in Proc, NEW c, Sound(c), Kept(mem[p], c), Change(p, c)
    PROVE  IInv'
<1>1. /\ ops' = ops + 1 /\ ops < MaxOps /\ mem' = [mem EXCEPT ![p] = c]
      /\ UNCHANGED <<op, disk, before>>
  BY DEF Change, Count
<1>2. TypeInv'
  BY <1>1, BoundAssumption DEF IInv, TypeInv, Sound
<1>3. MemoryInv'
  BY <1>1 DEF IInv, TypeInv, MemoryInv
<1>4. FilesInv'
  BY <1>1 DEF IInv, FilesInv
<1>5. \A q \in Proc : mem'[q].unusable = mem[q].unusable
  BY <1>1 DEF IInv, TypeInv, Kept
<1>6. WritesInv'
  BY <1>1, <1>5 DEF IInv, WritesInv, WriteInv
<1>7. UserInv'
  BY <1>1, <1>5 DEF IInv, UserInv
<1> QED
  BY <1>2, <1>3, <1>4, <1>6, <1>7 DEF IInv

\* Beginning to write a coherent tier keeps it.
LEMMA BeginInv ==
    ASSUME IInv, NEW p \in Proc, NEW call, NEW file, NEW next, NEW key, NEW value,
           Begin(p, call, file, next, key, value),
           call \in {"Persist", "PersistState", "PersistSelection", "SavePreset"},
           file \in File, next \in Tier, Coherent(next),
           key \in {None, "retries", "preset", "provider"},
           value \in Retries \cup Preset \cup Provider \cup {None},
           key # None => ValueAt(next, key) = value,
           file = "config" => call \in {"Persist", "SavePreset"},
           call = "Persist" => ~mem[p].unusable
    PROVE  IInv'
<1> DEFINE w == [phase |-> "start", call |-> call, file |-> file,
                 next |-> next, key |-> key, value |-> value]
<1>1. /\ ops' = ops + 1 /\ ops < MaxOps /\ op' = [op EXCEPT ![p] = w]
      /\ UNCHANGED <<mem, disk, before>> /\ op[p].phase = "idle"
  BY DEF Begin, Count
<1>2. /\ w \in Writes /\ w.phase = "start" /\ w.call = call /\ w.file = file /\ w.next = next
      /\ w.key = key /\ w.value = value
  BY DEF Writes
<1> HIDE DEF w
<1>3. TypeInv'
  BY <1>1, <1>2, BoundAssumption DEF IInv, TypeInv
<1>4. MemoryInv'
  BY <1>1 DEF IInv, MemoryInv
<1>5. FilesInv'
  BY <1>1 DEF IInv, FilesInv
<1>6. \A q \in Proc : op'[q] = IF q = p THEN w ELSE op[q]
  BY <1>1 DEF IInv, TypeInv
<1>7. WritesInv'
  BY <1>1, <1>2, <1>6 DEF IInv, WritesInv, WriteInv
<1>8. UserInv'
  BY <1>1, <1>2, <1>6 DEF IInv, UserInv
<1> QED
  BY <1>3, <1>4, <1>5, <1>7, <1>8 DEF IInv

\* How far a write is does not matter to the invariant.
LEMMA PhaseInv ==
    ASSUME IInv, NEW p \in Proc, NEW phase \in {"temp", "synced"}, op[p].phase # "off",
           op' = [op EXCEPT ![p].phase = phase], UNCHANGED <<mem, disk, before, ops>>
    PROVE  IInv'
<1>1. \A q \in Proc :
          /\ op'[q].next = op[q].next /\ op'[q].key = op[q].key /\ op'[q].value = op[q].value
          /\ op'[q].file = op[q].file /\ op'[q].call = op[q].call
          /\ op'[q].phase # "off" => op[q].phase # "off"
  BY DEF IInv, TypeInv, Writes
<1>2. TypeInv'
  BY DEF IInv, TypeInv, Writes
<1>3. MemoryInv' /\ FilesInv'
  BY DEF IInv, MemoryInv, FilesInv
<1>4. WritesInv'
  BY <1>1 DEF IInv, WritesInv, WriteInv
<1>5. UserInv'
  BY <1>1 DEF IInv, UserInv
<1> QED
  BY <1>2, <1>3, <1>4, <1>5 DEF IInv

\* A write that fails keeps it.
LEMMA FailInv ==
    ASSUME IInv, NEW p \in Proc, Fail(p)
    PROVE  IInv'
<1>1. op' = [op EXCEPT ![p] = Idle] /\ UNCHANGED <<mem, disk, before, ops>> /\ op[p].phase # "off"
  BY DEF Fail
<1>2. \A q \in Proc : op'[q] = IF q = p THEN Idle ELSE op[q]
  BY <1>1 DEF IInv, TypeInv
<1>3. TypeInv'
  BY <1>1, StartingPoints DEF IInv, TypeInv
<1>4. MemoryInv' /\ FilesInv'
  BY <1>1 DEF IInv, MemoryInv, FilesInv
<1>5. WritesInv'
  BY <1>1, <1>2, StartingPoints, NoTierSound DEF IInv, WritesInv, WriteInv, None
<1>6. UserInv'
  BY <1>1, <1>2 DEF IInv, UserInv
<1> QED
  BY <1>3, <1>4, <1>5, <1>6 DEF IInv

\* The file that is replaced was synced; what is remembered of it follows.
LEMMA RenameInv ==
    ASSUME IInv, NEW p \in Proc, Rename(p)
    PROVE  IInv'
<1> DEFINE f == op[p].file
           w == Json(op[p].next, TRUE)
           c == [mem[p] EXCEPT ![f] = op[p].next]
<1>1. /\ f \in File /\ op[p].next \in Tier /\ Coherent(op[p].next) /\ op[p].phase = "synced"
      /\ f = "config" => op[p].call \in {"Persist", "SavePreset"}
  BY DEF IInv, TypeInv, Writes, WritesInv, WriteInv, Rename
<1>2. /\ disk' = [disk EXCEPT ![f] = w] /\ before' = [before EXCEPT ![f] = disk[f]]
      /\ mem' = [mem EXCEPT ![p] = c] /\ op' = [op EXCEPT ![p] = Idle] /\ ops' = ops
  BY <1>1 DEF Rename, Replace, IInv, TypeInv
<1>3. w \in Contents /\ Whole(w) /\ w.kind = "json"
  BY <1>1 DEF Json, Contents, Whole
<1>4. Sound(c) /\ c.unusable = mem[p].unusable
  BY <1>1 DEF IInv, MemoryInv, Sound, Settings, File
<1> HIDE DEF f, w, c
<1>5. /\ \A q \in Proc : op'[q] = IF q = p THEN Idle ELSE op[q]
      /\ \A q \in Proc : mem'[q] = IF q = p THEN c ELSE mem[q]
      /\ \A x \in File : disk'[x] = IF x = f THEN w ELSE disk[x]
      /\ \A x \in File : before'[x] = IF x = f THEN disk[x] ELSE before[x]
  BY <1>2 DEF IInv, TypeInv
<1>6. TypeInv'
  BY <1>1, <1>2, <1>3, <1>4, StartingPoints DEF IInv, TypeInv, Sound
<1>7. MemoryInv'
  BY <1>4, <1>5 DEF IInv, MemoryInv
<1>8. FilesInv'
  BY <1>3, <1>5 DEF IInv, FilesInv
<1>9. WritesInv'
  BY <1>5, StartingPoints, NoTierSound DEF IInv, WritesInv, WriteInv, None
<1>10. UserInv'
  BY <1>1, <1>3, <1>4, <1>5 DEF IInv, UserInv, File
<1> QED
  BY <1>6, <1>7, <1>8, <1>9, <1>10 DEF IInv

\* A process that starts reads what keeps it.
LEMMA StartInv ==
    ASSUME IInv, NEW p \in Proc, NEW env \in Envs, Start(p, env)
    PROVE  IInv'
<1> DEFINE c == [NoConfig EXCEPT !.env = env, !.state = disk["state"].tier,
                                 !.config = disk["config"].tier,
                                 !.unusable = disk["config"].kind # "json"]
<1>1. /\ ops' = ops + 1 /\ ops < MaxOps /\ op' = [op EXCEPT ![p] = Idle]
      /\ mem' = [mem EXCEPT ![p] = c] /\ UNCHANGED <<disk, before>>
  BY DEF Start, Count
<1>2. /\ env \in Tier /\ disk["state"].tier \in Tier /\ disk["config"].tier \in Tier
      /\ Coherent(disk["state"].tier) /\ Coherent(disk["config"].tier)
  BY EnvsAssumption DEF IInv, TypeInv, FilesInv, Whole, Contents, File
<1>3. /\ c \in Settings /\ c.conversation = NoTier /\ c.run = NoTier /\ c.state = disk["state"].tier
      /\ c.config = disk["config"].tier
  BY <1>2, NoConfigSound DEF Sound, Settings, NoConfig
<1>10. disk["config"].kind # "json" => c.unusable
  BY Zenon DEF NoConfig
<1> HIDE DEF c
<1>4. Sound(c)
  BY <1>2, <1>3, NoTierSound DEF Sound
<1>5. /\ \A q \in Proc : op'[q] = IF q = p THEN Idle ELSE op[q]
      /\ \A q \in Proc : mem'[q] = IF q = p THEN c ELSE mem[q]
  BY <1>1 DEF IInv, TypeInv
<1>6. TypeInv'
  BY <1>1, <1>3, StartingPoints, BoundAssumption DEF IInv, TypeInv
<1>7. MemoryInv' /\ FilesInv'
  BY <1>1, <1>4, <1>5 DEF IInv, MemoryInv, FilesInv
<1>8. WritesInv'
  BY <1>5, StartingPoints, NoTierSound DEF IInv, WritesInv, WriteInv, None
<1>9. UserInv'
  BY <1>1, <1>5, <1>10 DEF IInv, UserInv
<1> QED
  BY <1>6, <1>7, <1>8, <1>9 DEF IInv

\* A process that crashes keeps it.
LEMMA CrashInv ==
    ASSUME IInv, NEW p \in Proc, Crash(p)
    PROVE  IInv'
<1>1. /\ ops' = ops + 1 /\ ops < MaxOps /\ op' = [op EXCEPT ![p] = Off]
      /\ mem' = [mem EXCEPT ![p] = NoConfig] /\ UNCHANGED <<disk, before>>
  BY DEF Crash, Count
<1>2. /\ \A q \in Proc : op'[q] = IF q = p THEN Off ELSE op[q]
      /\ \A q \in Proc : mem'[q] = IF q = p THEN NoConfig ELSE mem[q]
  BY <1>1 DEF IInv, TypeInv
<1>3. TypeInv'
  BY <1>1, NoConfigSound, StartingPoints, BoundAssumption DEF IInv, TypeInv, Sound
<1>4. MemoryInv' /\ FilesInv'
  BY <1>1, <1>2, NoConfigSound DEF IInv, MemoryInv, FilesInv
<1>5. WritesInv'
  BY <1>2, StartingPoints, NoTierSound DEF IInv, WritesInv, WriteInv, None
<1>6. UserInv'
  BY <1>1, <1>2, StartingPoints DEF IInv, UserInv
<1> QED
  BY <1>3, <1>4, <1>5, <1>6 DEF IInv

\* Both contents that may be left of a file are whole, so none of them is torn.
LEMMA PowerLossInv ==
    ASSUME IInv, PowerLoss
    PROVE  IInv'
<1>1. /\ ops' = ops + 1 /\ ops < MaxOps /\ op' = [p \in Proc |-> Off]
      /\ mem' = [p \in Proc |-> NoConfig] /\ before' = disk'
  BY DEF PowerLoss, Count
<1>2. PICK kept \in SUBSET File :
          disk' = [f \in File |-> IF f \notin kept THEN before[f]
                                  ELSE IF disk[f].synced THEN disk[f] ELSE Torn]
  BY DEF PowerLoss
<1>3. \A f \in File : disk'[f] = IF f \notin kept THEN before[f] ELSE disk[f]
  BY <1>2 DEF IInv, FilesInv, Whole
<1>4. disk' \in [File -> Contents]
  BY <1>2, <1>3 DEF IInv, TypeInv
<1>5. TypeInv'
  BY <1>1, <1>4, NoConfigSound, StartingPoints, BoundAssumption DEF IInv, TypeInv, Sound
<1>6. MemoryInv'
  BY <1>1, NoConfigSound DEF MemoryInv
<1>7. FilesInv'
  BY <1>1, <1>3 DEF IInv, FilesInv
<1>8. WritesInv'
  BY <1>1, StartingPoints, NoTierSound DEF WritesInv, WriteInv, None
<1>9. UserInv'
  BY <1>1, StartingPoints DEF UserInv
<1> QED
  BY <1>5, <1>6, <1>7, <1>8, <1>9 DEF IInv

\* Every operation in memory keeps it.
LEMMA MemoryStep ==
    ASSUME IInv, NEW p \in Proc, Memory(p)
    PROVE  IInv'
<1>1. Sound(mem[p])
  BY DEF IInv, MemoryInv
<1>2. ASSUME NEW name, NEW c, Sound(c), NEW readable, ValidPreset(c, name, readable)
      PROVE  name \in Preset
  BY <1>2 DEF ValidPreset, Sound, Settings, Tier
<1>3. CASE \E s \in RunSettings : SetRun(p, s[1], s[2])
  <2>1. PICK s \in RunSettings : SetRun(p, s[1], s[2])
    BY <1>3
  <2> DEFINE k == s[1]
             v == s[2]
  <2>2. \/ k = "provider" /\ v \in Provider
        \/ k = "model" /\ v \in Model
        \/ k = "retries" /\ v \in Retries
    BY DEF RunSettings
  <2>3. Change(p, [mem[p] EXCEPT !.run = SetLiteral(@, k, v)])
    BY <2>1 DEF SetRun
  <2> HIDE DEF k, v
  <2> QED
    BY <1>1, <2>2, <2>3, RunSound, ChangeInv
<1>4. CASE \E k \in {"provider", "model", "retries"} : ClearRun(p, k)
  <2>1. PICK k \in {"provider", "model", "retries"} : ClearRun(p, k)
    BY <1>4
  <2>2. Change(p, [mem[p] EXCEPT !.run = SetLiteral(@, k, None)])
    BY <2>1 DEF ClearRun
  <2> QED
    BY <1>1, <2>2, RunSound, ChangeInv
<1>5. CASE \E n \in Preset, conversation, readable \in BOOLEAN : ApplyPreset(p, n, conversation, readable)
  <2>1. PICK n \in Preset, conversation \in BOOLEAN, readable \in BOOLEAN :
            ApplyPreset(p, n, conversation, readable)
    BY <1>5
  <2> QED
    BY <1>1, <2>1, ApplySound, ApplyKeeps, ChangeInv DEF ApplyPreset
<1>6. CASE \E conversation \in BOOLEAN : ExitPreset(p, conversation)
  <2>1. PICK conversation \in BOOLEAN : ExitPreset(p, conversation)
    BY <1>6
  <2> QED
    BY <1>1, <2>1, ExitSound, ExitKeeps, ChangeInv DEF ExitPreset, Sound
<1>7. CASE \E s \in Selections \cup {<<None, None>>}, n \in Preset \cup {None},
              conversation, readable \in BOOLEAN : Restore(p, conversation, s, n, readable)
  <2>1. PICK s \in Selections \cup {<<None, None>>}, n \in Preset \cup {None},
             conversation \in BOOLEAN, readable \in BOOLEAN : Restore(p, conversation, s, n, readable)
    BY <1>7
  <2> DEFINE c == RestoreSelection(mem[p], conversation, s[1], s[2])
             d == IF n # None /\ ValidPreset(c, n, readable) THEN PresetApply(c, n, conversation) ELSE c
  <2>2. Change(p, d)
    BY <2>1 DEF Restore
  <2>3. Sound(c) /\ Kept(mem[p], c)
    BY <1>1, RestoreSound, RestoreKeeps
  <2> HIDE DEF c
  <2>4. Sound(d) /\ Kept(mem[p], d)
    BY <1>2, <2>3, ApplySound, ApplyKeeps DEF Kept
  <2> HIDE DEF d
  <2> QED
    BY <2>2, <2>4, ChangeInv
<1>8. CASE \E explicitSelection, readable \in BOOLEAN : ApplyStartupPreset(p, explicitSelection, readable)
  <2>1. PICK explicitSelection \in BOOLEAN, readable \in BOOLEAN :
            ApplyStartupPreset(p, explicitSelection, readable)
    BY <1>8
  <2> DEFINE n == Lookup(mem[p], "preset").value
  <2>2. ValidPreset(mem[p], n, readable) /\ Change(p, PresetApply(mem[p], n, FALSE))
    BY <2>1 DEF ApplyStartupPreset
  <2> HIDE DEF n
  <2>3. n \in Preset
    BY <1>1, <1>2, <2>2
  <2> QED
    BY <1>1, <2>2, <2>3, ApplySound, ApplyKeeps, ChangeInv
<1> QED
  BY <1>3, <1>4, <1>5, <1>6, <1>7, <1>8 DEF Memory

\* Every step of a write keeps it.
LEMMA WriteStep ==
    ASSUME IInv, NEW p \in Proc, Write(p)
    PROVE  IInv'
<1>1. /\ mem[p].config \in Tier /\ Coherent(mem[p].config)
      /\ mem[p].state \in Tier /\ Coherent(mem[p].state)
  BY DEF IInv, MemoryInv, Sound, Settings
<1>2. CASE \E v \in Retries \cup {None} : Persist(p, v)
  <2>1. PICK v \in Retries \cup {None} : Persist(p, v)
    BY <1>2
  <2> QED
    BY <1>1, <2>1, NestedSound, BeginInv DEF Persist, File
<1>3. ASSUME NEW k \in {"retries", "preset"}, NEW v, PersistState(p, k, v),
             \/ k = "retries" /\ v \in Retries \cup {None}
             \/ k = "preset" /\ v \in Preset \cup {None}
      PROVE  IInv'
  <2>1. Begin(p, "PersistState", "state", SetNested(mem[p].state, k, v), k, v)
    BY <1>3 DEF PersistState
  <2>2. LET u == SetNested(mem[p].state, k, v) IN u \in Tier /\ Coherent(u) /\ ValueAt(u, k) = v
    BY <1>1, <1>3, NestedSound
  <2>3. k \in {None, "retries", "preset", "provider"} /\ v \in Retries \cup Preset \cup Provider \cup {None}
    BY <1>3
  <2> QED
    BY <2>1, <2>2, <2>3, BeginInv DEF File
<1>4. CASE \E v \in Retries \cup {None} : PersistState(p, "retries", v)
  BY <1>3, <1>4
<1>5. CASE \E n \in Preset \cup {None} : PersistState(p, "preset", n)
  BY <1>3, <1>5
<1>6. CASE \E s \in Selections : PersistSelection(p, s)
  <2>1. PICK s \in Selections : PersistSelection(p, s)
    BY <1>6
  <2>2. Begin(p, "PersistSelection", "state", NextSelection(mem[p].state, s[1], s[2]), "provider", s[1])
    BY <2>1 DEF PersistSelection
  <2>3. LET u == NextSelection(mem[p].state, s[1], s[2])
        IN  u \in Tier /\ Coherent(u) /\ ValueAt(u, "provider") = s[1]
    BY <1>1, NextSelectionSound
  <2>4. s[1] \in Provider
    BY SelectionChosen
  <2> QED
    BY <2>2, <2>3, <2>4, BeginInv DEF File
<1>7. CASE \E n \in Preset, s \in Selections : SavePreset(p, n, s)
  <2>1. PICK n \in Preset, s \in Selections : SavePreset(p, n, s)
    BY <1>7
  <2>2. Begin(p, "SavePreset", "config", WithPreset(mem[p].config, n, s[1], s[2]), None, None)
    BY <2>1 DEF SavePreset
  <2>3. LET u == WithPreset(mem[p].config, n, s[1], s[2]) IN u \in Tier /\ Coherent(u)
    BY <1>1, WithPresetSound
  <2> QED
    BY <2>2, <2>3, BeginInv DEF File
<1>8. CASE WriteTemp(p)
  BY <1>8, PhaseInv DEF WriteTemp
<1>9. CASE Sync(p)
  BY <1>9, PhaseInv DEF Sync
<1> QED
  BY <1>2, <1>4, <1>5, <1>6, <1>7, <1>8, <1>9, RenameInv, FailInv DEF Write

\* Every step keeps it.
LEMMA NextInv == IInv /\ [Next]_vars => IInv'
<1> SUFFICES ASSUME IInv, [Next]_vars PROVE IInv'
  OBVIOUS
<1>1. CASE UNCHANGED vars
  BY <1>1 DEF vars, IInv, TypeInv, MemoryInv, FilesInv, Whole, WritesInv, WriteInv, UserInv
<1>2. CASE Next
  BY <1>2, StartInv, MemoryStep, WriteStep, CrashInv, PowerLossInv DEF Next
<1> QED
  BY <1>1, <1>2

\* The invariant of Config (config.go, persist.go, presets.go): every Config and
\* every content of a file, present or to come, is sound, whoever writes next.
THEOREM Inductive == Spec => []IInv
BY InitInv, NextInv, PTL DEF Spec

\* No crash, failed write or power failure leaves half of a file (persist.go):
\* the file is synced before it takes the place of the old one.
THEOREM WholeFiles == Spec => []NeverTorn
<1>1. IInv => NeverTorn
  BY DEF IInv, FilesInv, Whole, NeverTorn
<1> QED
  BY <1>1, Inductive, PTL

\* A model is stored only beside the provider that has it (presets.go,
\* PersistSelection, Restore), for any user's file that was so.
THEOREM AlwaysTogether == Spec => []StoredTogether
<1>1. IInv => StoredTogether
  BY DEF IInv, MemoryInv, Sound, FilesInv, Whole, WritesInv, WriteInv, StoredTogether, Coherent, Bound
<1> QED
  BY <1>1, Inductive, PTL

\* A prompt does not outlive its preset (presets.go, Exit and Apply).
THEOREM PromptFollows == Spec => []PromptOfItsPreset
<1>1. IInv => PromptOfItsPreset
  BY DEF IInv, MemoryInv, Sound, PromptKept, PromptOfItsPreset
<1> QED
  BY <1>1, Inductive, PTL

-----------------------------------------------------------------------------
(* Lookup *)

\* The strongest of some tiers is one of them.
LEMMA StrongestIsMember ==
    ASSUME NEW S \in SUBSET (1..5), S # {}
    PROVE  Strongest(S) \in S
<1>1. \E i \in S : \A j \in S : i <= j
  <2>1. \A j \in S : j = 1 \/ j = 2 \/ j = 3 \/ j = 4 \/ j = 5
    OBVIOUS
  <2>2. CASE 1 \in S
    BY <2>1, <2>2
  <2>3. CASE 1 \notin S /\ 2 \in S
    BY <2>1, <2>3
  <2>4. CASE 1 \notin S /\ 2 \notin S /\ 3 \in S
    BY <2>1, <2>4
  <2>5. CASE 1 \notin S /\ 2 \notin S /\ 3 \notin S /\ 4 \in S
    BY <2>1, <2>5
  <2>6. CASE 1 \notin S /\ 2 \notin S /\ 3 \notin S /\ 4 \notin S
    <3>1. \A j \in S : j = 5
      BY <2>1, <2>6
    <3>2. 5 \in S
      <4>1. PICK x \in S : TRUE
        OBVIOUS
      <4> QED
        BY <3>1, <4>1
    <3> QED
      BY <3>1, <3>2
  <2> QED
    BY <2>2, <2>3, <2>4, <2>5, <2>6
<1> QED
  BY <1>1 DEF Strongest

\* There are five tiers.
LEMMA SourcesAre ==
    /\ DOMAIN Sources = 1..5
    /\ \A i \in 1..5 : Sources[i] \in {"run", "conversation", "env", "state", "config"}
BY DEF Sources

\* What is looked up is set where it is found, may count there, and is no
\* request for the default; or it is the default.
LEMMA Found ==
    ASSUME NEW c, NEW k
    PROVE  LET l == Lookup(c, k) IN
           \/ l.value = DefaultOf(k) /\ l.source \in {"default", "run", "conversation", "env", "state", "config"}
           \/ /\ l.source \in {"run", "conversation", "env", "state", "config"}
              /\ l.value = ValueAt(c[l.source], k)
              /\ Present(k, l.value) /\ l.value # Default /\ Allowed(c, l.source, k)
<1> DEFINE S == {i \in DOMAIN Sources : Present(k, ValueAt(c[Sources[i]], k)) /\ Allowed(c, Sources[i], k)}
           s == Sources[Strongest(S)]
           v == ValueAt(c[s], k)
<1>1. CASE S = {}
  <2>1. Lookup(c, k) = [value |-> DefaultOf(k), source |-> "default"]
    BY <1>1 DEF Lookup
  <2> QED
    BY <2>1
<1>2. CASE S # {}
  <2>1. Lookup(c, k) = [value |-> IF v = Default THEN DefaultOf(k) ELSE v, source |-> s]
    BY <1>2 DEF Lookup
  <2>2. Strongest(S) \in S
    BY <1>2, SourcesAre, StrongestIsMember
  <2>3. /\ s \in {"run", "conversation", "env", "state", "config"}
        /\ Present(k, v) /\ Allowed(c, s, k)
    BY <2>2, SourcesAre
  <2> HIDE DEF s, v
  <2> QED
    BY <2>1, <2>3 DEF v
<1> QED
  BY <1>1, <1>2

\* Whatever is configured, there are from 1 to 101 attempts.
LEMMA AttemptsInRange ==
    ASSUME NEW c \in Settings
    PROVE  MaxAttempts(c) \in 1..101
<1> DEFINE l == Lookup(c, "retries")
<1>1. \/ l.value = "4"
      \/ /\ l.source \in {"run", "conversation", "env", "state", "config"}
         /\ l.value = ValueAt(c[l.source], "retries")
         /\ Present("retries", l.value)
  BY Found DEF DefaultOf
<1> HIDE DEF l
<1>2. l.value \in {"-1", "0", "4", "100", "101", "junk"}
  <2>1. CASE l.value = "4"
    BY <2>1
  <2>2. CASE /\ l.source \in {"run", "conversation", "env", "state", "config"}
             /\ l.value = ValueAt(c[l.source], "retries")
             /\ Present("retries", l.value)
    <3>1. c[l.source] \in Tier
      BY <2>2 DEF Settings
    <3>2. ValueAt(c[l.source], "retries") \in Retries \cup {None}
      BY <3>1 DEF ValueAt, Tier
    <3>3. l.value # None /\ l.value # Empty
      BY <2>2 DEF Present
    <3>4. l.value \in Retries
      BY <2>2, <3>2, <3>3
    <3> QED
      BY <3>3, <3>4, SpellingAssumption DEF Empty
  <2> QED
    BY <1>1, <2>1, <2>2
<1> QED
  BY <1>2 DEF MaxAttempts, l

\* Types, and the retries that http.max_retries asks for (config.go, typed): a
\* request is tried at least once and at most 101 times whatever is written there.
THEOREM TypeCorrect == Spec => []TypeOK
<1>1. IInv => TypeOK
  BY AttemptsInRange DEF IInv, TypeInv, TypeOK
<1> QED
  BY <1>1, Inductive, PTL

\* In a sound configuration the model in use is one of the provider in use.
LEMMA InUse ==
    ASSUME NEW c, Sound(c)
    PROVE  InUseFits(c)
<1> DEFINE m == Lookup(c, "model")
           a == ActiveProvider(c)
<1> SUFFICES ASSUME m.source \in Bound, m.value \in Model
             PROVE  a # Empty /\ Home[m.value] = Canonical[a]
  BY DEF InUseFits
<1>1. /\ m.value = ValueAt(c[m.source], "model") /\ Allowed(c, m.source, "model")
  BY Found, SpellingAssumption DEF DefaultOf
<1> HIDE DEF m, a
<1>2. m.value = c[m.source].model /\ Together(c[m.source])
  BY <1>1 DEF ValueAt, Bound, Sound, Coherent
<1>3. c[m.source].provider # None /\ Home[m.value] = Canonical[c[m.source].provider]
  BY <1>2 DEF Together
<1>4. SameProvider(a, c[m.source].provider)
  BY <1>1, <1>3 DEF Allowed, a
<1> QED
  BY <1>3, <1>4 DEF SameProvider

\* What the run says of a key comes first.
LEMMA RunFirst ==
    ASSUME NEW c, NEW k, k \in {"provider", "model"}, Present(k, c.run[k])
    PROVE  Lookup(c, k).value = IF c.run[k] = Default THEN DefaultOf(k) ELSE c.run[k]
<1> DEFINE S == {i \in DOMAIN Sources : Present(k, ValueAt(c[Sources[i]], k)) /\ Allowed(c, Sources[i], k)}
<1>1. Sources[1] = "run" /\ ValueAt(c["run"], k) = c.run[k] /\ Allowed(c, "run", k)
  BY DEF Sources, ValueAt, Allowed, Bound
<1>2. 1 \in S /\ S \subseteq 1..5
  BY <1>1, SourcesAre
<1>3. Strongest(S) = 1
  BY <1>2 DEF Strongest
<1>4. S # {}
  BY <1>2
<1> QED
  BY <1>1, <1>3, <1>4 DEF Lookup

\* A task runs with the selection it asks for.
LEMMA TaskUses ==
    ASSUME NEW c \in Settings, NEW s \in Selections
    PROVE  LET t == TaskSelection(c, s[1], s[2])
           IN  /\ Lookup(t, "provider").value = s[1]
               /\ Lookup(t, "model").value = IF s[2] # None THEN s[2] ELSE Empty
<1> DEFINE t == TaskSelection(c, s[1], s[2])
<1>1. t.run.provider = s[1] /\ t.run.model = IF s[2] # None THEN s[2] ELSE Default
  BY DEF TaskSelection, Settings, NoTier
<1>2. s[1] \in Provider /\ s[1] # None /\ s[2] \in Model \cup {None}
  BY SelectionChosen
<1> HIDE DEF t
<1>3. Default # None
  BY DEF Default, None
<1>4. Present("provider", t.run["provider"]) /\ Present("model", t.run["model"])
  BY <1>1, <1>2, <1>3 DEF Present
<1>5. Lookup(t, "provider").value = IF t.run.provider = Default THEN Empty ELSE t.run.provider
  BY <1>4, RunFirst DEF DefaultOf
<1>6. Lookup(t, "model").value = IF t.run.model = Default THEN Empty ELSE t.run.model
  BY <1>4, RunFirst DEF DefaultOf
<1> QED
  BY <1>1, <1>2, <1>5, <1>6, SpellingAssumption DEF t

\* A model that a file or a conversation names is never used with a provider
\* that does not have it (config.go, Lookup and allowed), and a task uses its own
\* selection (TaskSelection), whatever the six places say.
THEOREM ModelFits == Spec => []ModelFitsProvider
<1>1. IInv => ModelFitsProvider
  BY InUse, TaskUses DEF IInv, MemoryInv, Sound, ModelFitsProvider
<1> QED
  BY <1>1, Inductive, PTL

-----------------------------------------------------------------------------
(* What a step may do to the files *)

\* Each process changes the Config of itself only; a running one keeps what it
\* remembers of the files, unless it ends a write.
LEMMA MemoryKeeps ==
    ASSUME IInv, NEW p \in Proc, Memory(p)
    PROVE  /\ UNCHANGED <<op, disk, before>>
           /\ \A q \in Proc, f \in File : mem'[q][f] = mem[q][f]
<1>1. Sound(mem[p])
  BY DEF IInv, MemoryInv
<1>2. ASSUME NEW c, Kept(mem[p], c), Change(p, c)
      PROVE  /\ UNCHANGED <<op, disk, before>>
             /\ \A q \in Proc, f \in File : mem'[q][f] = mem[q][f]
  BY <1>2 DEF Change, Kept, File, IInv, TypeInv
<1> DEFINE Goal == /\ UNCHANGED <<op, disk, before>>
                   /\ \A q \in Proc, f \in File : mem'[q][f] = mem[q][f]
<1>3. ASSUME NEW k, NEW v, Change(p, [mem[p] EXCEPT !.run = SetLiteral(@, k, v)])
      PROVE  Goal
  <2> DEFINE u == SetLiteral(mem[p].run, k, v)
             c == [mem[p] EXCEPT !.run = u]
  <2>1. Change(p, c)
    BY <1>3
  <2> HIDE DEF u
  <2>2. Kept(mem[p], c)
    BY <1>1 DEF Sound, Settings, Kept
  <2> QED
    BY <1>2, <2>1, <2>2
<1>4. CASE \E s \in RunSettings : SetRun(p, s[1], s[2])
  BY <1>3, <1>4 DEF SetRun
<1>5. CASE \E k \in {"provider", "model", "retries"} : ClearRun(p, k)
  BY <1>3, <1>5 DEF ClearRun
<1>6. CASE \E n \in Preset, conversation, readable \in BOOLEAN : ApplyPreset(p, n, conversation, readable)
  BY <1>1, <1>2, <1>6, ApplyKeeps DEF ApplyPreset
<1>7. CASE \E conversation \in BOOLEAN : ExitPreset(p, conversation)
  BY <1>1, <1>2, <1>7, ExitKeeps DEF ExitPreset, Sound
<1>8. CASE \E s \in Selections \cup {<<None, None>>}, n \in Preset \cup {None},
              conversation, readable \in BOOLEAN : Restore(p, conversation, s, n, readable)
  <2>1. PICK s \in Selections \cup {<<None, None>>}, n \in Preset \cup {None},
             conversation \in BOOLEAN, readable \in BOOLEAN : Restore(p, conversation, s, n, readable)
    BY <1>8
  <2> DEFINE c == RestoreSelection(mem[p], conversation, s[1], s[2])
             d == IF n # None /\ ValidPreset(c, n, readable) THEN PresetApply(c, n, conversation) ELSE c
  <2>2. Change(p, d)
    BY <2>1 DEF Restore
  <2>3. Sound(c) /\ Kept(mem[p], c)
    BY <1>1, RestoreSound, RestoreKeeps
  <2> HIDE DEF c
  <2>4. Kept(mem[p], d)
    BY <2>3, ApplyKeeps DEF Kept
  <2> HIDE DEF d
  <2> QED
    BY <1>2, <2>2, <2>4
<1>9. CASE \E explicitSelection, readable \in BOOLEAN : ApplyStartupPreset(p, explicitSelection, readable)
  <2>1. Change(p, PresetApply(mem[p], Lookup(mem[p], "preset").value, FALSE))
    BY <1>9 DEF ApplyStartupPreset
  <2> QED
    BY <1>1, <1>2, <2>1, ApplyKeeps
<1> QED
  BY <1>4, <1>5, <1>6, <1>7, <1>8, <1>9 DEF Memory

\* No step of a write but the rename touches memory or files.
LEMMA WriteKeeps ==
    ASSUME NEW p \in Proc, Write(p)
    PROVE  UNCHANGED <<mem, disk, before>> \/ Rename(p)
BY DEF Write, Persist, PersistState, PersistSelection, SavePreset, Begin, WriteTemp, Sync, Fail

\* The rename makes the written tier that of its file, on the disk and in memory.
LEMMA RenameReads ==
    ASSUME IInv, NEW q \in Proc, Rename(q)
    PROVE  /\ \A p \in Proc, f \in File :
                  mem'[p][f] = IF p = q /\ f = op[q].file THEN op[q].next ELSE mem[p][f]
           /\ \A f \in File :
                  disk'[f] = IF f = op[q].file THEN Json(op[q].next, TRUE) ELSE disk[f]
           /\ op[q].file \in File
           /\ op'[q].phase = "idle" /\ \A p \in Proc : p # q => op'[p] = op[p]
<1>1. op[q].file \in File /\ op[q].next \in Tier
  BY DEF IInv, TypeInv, Writes
<1>2. /\ disk' = [disk EXCEPT ![op[q].file] = Json(op[q].next, TRUE)]
      /\ mem' = [mem EXCEPT ![q] = [mem[q] EXCEPT ![op[q].file] = op[q].next]]
      /\ op' = [op EXCEPT ![q] = Idle]
  BY DEF Rename, Replace, IInv, TypeInv
<1>3. \A f \in File : disk'[f] = IF f = op[q].file THEN Json(op[q].next, TRUE) ELSE disk[f]
  BY <1>1, <1>2 DEF IInv, TypeInv
<1>4. op'[q].phase = "idle" /\ \A p \in Proc : p # q => op'[p] = op[p]
  BY <1>2, StartingPoints DEF IInv, TypeInv
<1>5. \A p \in Proc : mem'[p] = IF p = q THEN [mem[q] EXCEPT ![op[q].file] = op[q].next] ELSE mem[p]
  BY <1>2 DEF IInv, TypeInv
<1>6. mem[q] \in Settings
  BY DEF IInv, TypeInv
<1>7. \A f \in File : [mem[q] EXCEPT ![op[q].file] = op[q].next][f]
                          = IF f = op[q].file THEN op[q].next ELSE mem[q][f]
  BY <1>1, <1>6 DEF Settings, File
<1>8. \A p \in Proc, f \in File :
          mem'[p][f] = IF p = q /\ f = op[q].file THEN op[q].next ELSE mem[p][f]
  BY <1>5, <1>7
<1> QED
  BY <1>1, <1>3, <1>4, <1>8

\* No step has a process believe what the file does not say.
LEMMA StepReads ==
    ASSUME IInv, Next, NEW p \in Proc
    PROVE  ReadBack(p)
<1>1. Rename(p) => /\ disk'[op[p].file].tier = mem'[p][op[p].file]
                   /\ op[p].key # None => ValueAt(mem'[p][op[p].file], op[p].key) = op[p].value
  <2> SUFFICES ASSUME Rename(p)
               PROVE  /\ disk'[op[p].file].tier = mem'[p][op[p].file]
                      /\ op[p].key # None => ValueAt(mem'[p][op[p].file], op[p].key) = op[p].value
    OBVIOUS
  <2>1. /\ mem'[p][op[p].file] = op[p].next
        /\ disk'[op[p].file] = Json(op[p].next, TRUE)
    BY RenameReads
  <2>2. op[p].key # None => ValueAt(op[p].next, op[p].key) = op[p].value
    BY DEF IInv, WritesInv, WriteInv
  <2> QED
    BY <2>1, <2>2 DEF Json
<1> SUFFICES ASSUME NEW f \in File,
                    op[p].phase # "off", op'[p].phase # "off", mem'[p][f] # mem[p][f]
             PROVE  disk'[f].kind = "json" /\ disk'[f].tier = mem'[p][f]
  BY <1>1 DEF ReadBack
<1>2. mem \in [Proc -> Settings] /\ op \in [Proc -> Writes]
  BY DEF IInv, TypeInv
<1>3. CASE \E q \in Proc, env \in Envs : Start(q, env)
  BY <1>2, <1>3 DEF Start
<1>4. CASE \E q \in Proc : Memory(q)
  BY <1>4, MemoryKeeps
<1>5. CASE \E q \in Proc : Write(q)
  <2>1. PICK q \in Proc : Rename(q)
    BY <1>5, WriteKeeps
  <2>2. f = op[q].file /\ mem'[p][f] = op[q].next /\ disk'[f] = Json(op[q].next, TRUE)
    BY <2>1, RenameReads
  <2> QED
    BY <2>2 DEF Json
<1>6. CASE \E q \in Proc : Crash(q)
  BY <1>2, <1>6, StartingPoints DEF Crash
<1>7. CASE PowerLoss
  BY <1>7, StartingPoints DEF PowerLoss
<1> QED
  BY <1>3, <1>4, <1>5, <1>6, <1>7 DEF Next

\* A write that succeeds is read back, from memory and from the file, and only then
\* does a running process take a new content for that of the file (persist.go).
THEOREM WrittenRead == Spec => WrittenIsRead
<1>1. IInv /\ [Next]_vars => [\A p \in Proc : ReadBack(p)]_vars
  BY StepReads
<1> QED
  BY <1>1, Inductive, PTL DEF Spec, WrittenIsRead

\* Only a rename that saves a preset replaces a file that cannot be parsed.
LEMMA StepMends ==
    ASSUME IInv, Next, disk["config"].kind = "unparsable", disk'["config"].kind # "unparsable"
    PROVE  \E p \in Proc : Rename(p) /\ op[p].call = "SavePreset"
<1>1. disk'["config"] # disk["config"]
  OBVIOUS
<1>2. CASE \E p \in Proc : (\E env \in Envs : Start(p, env)) \/ Memory(p) \/ Crash(p)
  BY <1>1, <1>2, MemoryKeeps DEF Start, Crash
<1>3. CASE \E p \in Proc : Write(p)
  <2>1. PICK p \in Proc : Rename(p)
    BY <1>1, <1>3, WriteKeeps
  <2>2. op[p].file = "config"
    BY <1>1, <2>1, RenameReads DEF File
  <2>3. op[p].call \in {"Persist", "SavePreset"} /\ (op[p].call = "Persist" => ~mem[p].unusable)
    BY <2>2 DEF IInv, WritesInv, WriteInv
  <2>4. mem[p].unusable
    BY <2>1 DEF Rename, IInv, UserInv
  <2> QED
    BY <2>1, <2>3, <2>4
<1>4. CASE PowerLoss
  <2>1. PICK kept \in SUBSET File :
            disk' = [f \in File |-> IF f \notin kept THEN before[f]
                                    ELSE IF disk[f].synced THEN disk[f] ELSE Torn]
    BY <1>4 DEF PowerLoss
  <2>2. disk'["config"] = before["config"] \/ disk'["config"] = disk["config"]
    BY <2>1 DEF IInv, FilesInv, Whole, File
  <2> QED
    BY <2>2 DEF IInv, UserInv
<1> QED
  BY <1>2, <1>3, <1>4 DEF Next

\* A config.json that cannot be parsed is not written over by Persist (persist.go),
\* in any process, before or after others have found it; only SavePreset replaces it.
THEOREM UserFileKept == Spec => UnparsableKept
<1>1. IInv /\ [Next]_vars =>
        [disk["config"].kind = "unparsable" /\ disk'["config"].kind # "unparsable"
           => \E p \in Proc : Rename(p) /\ op[p].call = "SavePreset"]_vars
  BY StepMends
<1> QED
  BY <1>1, Inductive, PTL DEF Spec, UnparsableKept
=============================================================================
