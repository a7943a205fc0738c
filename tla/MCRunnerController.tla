------------------------- MODULE MCRunnerController -------------------------
(* Finite instances of RunnerController for TLC. *)
EXTENDS RunnerController

CONSTANTS plain, other, guarded, hPlain, hOther, hGuarded, key

\* Two specs without git auth: drift is possible, validation always succeeds.
MCPlainSpecs == {plain, other}

\* One spec of them needs a key of a Secret.
MCGuardedSpecs == {plain, guarded}

MCHashes == {hPlain, hOther, hGuarded}

hashOf(s) ==
  CASE s = plain -> hPlain [] s = other -> hOther [] s = guarded -> hGuarded

MCHash == [s \in Specs |-> hashOf(s)]
MCSecrets == {NoSecret, {}, {key}}
MCRequired == [s \in Specs |-> IF s = guarded THEN {key} ELSE {}]
=============================================================================
