------------------------------ MODULE MCConfig ------------------------------
(***************************************************************************)
(* Two processes that share config.json and state.json, for TLC.           *)
(***************************************************************************)
EXTENDS Config, TLC

CONSTANTS p1, p2

MCProvider == {"mock", "llamacpp", "llama.cpp"}
MCCanonical == [x \in MCProvider |-> IF x = "llama.cpp" THEN "llamacpp" ELSE x]
MCModel == {"m", "l"}
MCHome == [x \in MCModel |-> IF x = "m" THEN "mock" ELSE "llamacpp"]
MCPreset == {"A", "B"}

MCPresets ==
    [A |-> [provider |-> "mock", model |-> "m", prompt |-> TRUE],
     B |-> [provider |-> "llama.cpp", model |-> None, prompt |-> FALSE]]

MCConfigFiles ==
    {Unparsable,
     Json([NoTier EXCEPT !.provider = "llamacpp", !.model = "l", !.literal = "-1",
                         !.presets = MCPresets], TRUE)}

MCEnvs == {NoTier, [NoTier EXCEPT !.provider = "llama.cpp", !.model = "m"]}

Symmetry == Permutations(Proc)
=============================================================================
