---------------------------- MODULE Configuration ----------------------------
(***************************************************************************)
(* The configuration of the edge (ai_robot_edge.config) as its file has it *)
(* and as the program reads it.  Five settings stand for all:              *)
(*                                                                         *)
(*   onset, offset   vad.threshold and vad.negative_threshold, numbers     *)
(*                   that are checked against each other                   *)
(*   ops             admin.allow_remote_ops, a switch that is on when the  *)
(*                   file does not have it                                 *)
(*   engine          vad.engine, one of a few names                        *)
(*   welcome         voice.welcome_text, a text                            *)
(*                                                                         *)
(* and device for what the file must have and no console can write         *)
(* (device_id).                                                            *)
(***************************************************************************)
EXTENDS Naturals

CONSTANTS
  Missing,       \* what is not in the file
  Levels,        \* the values of a threshold; the first that is too high
  One,           \*   ends their range
  Onset, Offset  \* the values a threshold has when the file has none

\* The names by which create_utterance_vad knows an engine.
Engines == {"energy", "silero_onnx", "silero"}

\* No text, one without a quotation mark, and the same one with a quotation
\* behind it.
Texts == {"", "plain", "quoted"}

ASSUME LevelsAssumption ==
  /\ Levels \subseteq Nat /\ One \in Nat
  /\ Onset \in Levels /\ Offset \in Levels
  /\ Missing \notin Levels /\ Missing \notin BOOLEAN
  /\ Missing \notin Engines /\ Missing \notin Texts

Settings == {"onset", "offset", "ops", "engine", "welcome"}

Values(k) ==
  CASE k \in {"onset", "offset"} -> Levels
    [] k = "ops" -> BOOLEAN
    [] k = "engine" -> Engines
    [] k = "welcome" -> Texts

\* EdgeConfig: every setting has a value.
Configs == [onset : Levels, offset : Levels, ops : BOOLEAN,
            engine : Engines, welcome : Texts]

\* What a request names, or a file has, of the settings.
Patches == [onset : Levels \cup {Missing}, offset : Levels \cup {Missing},
            ops : BOOLEAN \cup {Missing}, engine : Engines \cup {Missing},
            welcome : Texts \cup {Missing}]

\* What a file may hold; Empty is the file a write has just truncated.
Files == [onset : Levels \cup {Missing}, offset : Levels \cup {Missing},
          ops : BOOLEAN \cup {Missing}, engine : Engines \cup {Missing},
          welcome : Texts \cup {Missing}, device : {TRUE, Missing}]
Empty == [k \in Settings \cup {"device"} |-> Missing]

Default(k) ==
  CASE k = "onset" -> Onset
    [] k = "offset" -> Offset
    [] k = "ops" -> TRUE
    [] k = "engine" -> "energy"
    [] k = "welcome" -> "plain"

\* _parse_config: what is missing gets its default.
Parse(f) ==
  [k \in Settings |-> IF f[k] = Missing THEN Default(k) ELSE f[k]]

\* Mutant: device_id may be missing.
ValidAnonymous(f, c) ==
  0 < c.offset /\ c.offset < c.onset /\ c.onset < One

\* _validate_config.
Valid(f, c) ==
  /\ f.device # Missing
  /\ 0 < c.offset /\ c.offset < c.onset /\ c.onset < One

\* load_config does not raise.
Loads(f) == Valid(f, Parse(f))
=============================================================================
