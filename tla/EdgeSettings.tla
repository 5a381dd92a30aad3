---------------------------- MODULE EdgeSettings ----------------------------
(***************************************************************************)
(* The configuration file of the robot and the processes that share it:    *)
(* the admin console (ai_robot_edge.admin.app), which reads the file for   *)
(* every request and rewrites it, the page somebody has open, and the edge *)
(* service, which reads it when it starts (ai_robot_edge.__main__) and is  *)
(* started again whenever it ends (deploy/ai-robot-edge.service).          *)
(*                                                                         *)
(* file     the file as it is on disk                                      *)
(* pending  what the console is about to write into the truncated file, or *)
(*          Missing                                                        *)
(* form     the fields of the page, or Missing                             *)
(* edge     is the service up, and with which configuration                *)
(*                                                                         *)
(* The console handles one request at a time: its handlers have no await   *)
(* between reading and writing.  A file of this size is truncated and then *)
(* written in one piece.  A request with a wrong token is refused and is   *)
(* no step.                                                                *)
(***************************************************************************)
EXTENDS Configuration

\* What others than the page send to PUT /config.
CONSTANT Requested

ASSUME RequestedAssumption == Requested \subseteq Patches

VARIABLES file, pending, form, edge, running

settingsVars == <<file, pending, form, edge, running>>

\* The options of the field for the engine; a select shows its first one
\* when none is selected.
Options == {"energy", "silero_onnx"}

\* The fields of the page; an empty field for a number is blank.
Forms == [onset : Levels \cup {Missing}, offset : Levels \cup {Missing},
          ops : BOOLEAN, engine : Options, welcome : Texts]

SettingsTypeOK ==
  /\ file \in Files
  /\ pending \in Files \cup {Missing}
  /\ form \in Forms \cup {Missing}
  /\ edge \in {"up", "down"}
  /\ running \in Configs

\* The file somebody has set up and the service was started with.  An older
\* file lacks the settings that came with an update.
SettingsInit ==
  /\ file \in {f \in Files : Loads(f)}
  /\ pending = Missing /\ form = Missing
  /\ edge = "up" /\ running = Parse(file)

\* require_admin loads the file before any request is handled, and fails
\* with the file.
Answers == pending = Missing /\ Loads(file)

\* Mutant: the select begins with the other engine.
OtherEngineFirst(f) ==
  [onset |-> f.onset, offset |-> f.offset,
   ops |-> f.ops = TRUE,
   engine |-> IF f.engine \in Options THEN f.engine ELSE "silero_onnx",
   welcome |-> IF f.welcome = Missing THEN ""
               ELSE IF f.welcome = "quoted" THEN "plain" ELSE f.welcome]

\* GET /parameters and the page's renderField: the values in the file, not
\* those in force, as their controls show them and saveParameters reads them
\* back.  A number that is missing is blank, a switch is off, a text is
\* empty; a text ends at its first quotation mark; a name that is not among
\* the options of its select becomes the first of them.
Shown(f) ==
  [onset |-> f.onset, offset |-> f.offset,
   ops |-> f.ops = TRUE,
   engine |-> IF f.engine \in Options THEN f.engine ELSE "energy",
   welcome |-> IF f.welcome = Missing THEN ""
               ELSE IF f.welcome = "quoted" THEN "plain" ELSE f.welcome]

LoadParameters ==
  /\ Answers
  /\ form' = Shown(file)
  /\ UNCHANGED <<file, pending, edge, running>>

Entries(k) == IF k = "engine" THEN Options ELSE Values(k)

EditField ==
  /\ form # Missing
  /\ \E k \in Settings : \E v \in Entries(k) : form' = [form EXCEPT ![k] = v]
  /\ UNCHANGED <<file, pending, edge, running>>

\* update_config_yaml: the patch over what the file has, the rest of its
\* sections kept; the file is opened for writing, and so emptied.  Whether
\* the outcome loads is looked at when it is written.
Update(p) ==
  /\ pending' = [k \in DOMAIN file |->
                   IF k \in Settings /\ p[k] # Missing THEN p[k] ELSE file[k]]
  /\ file' = Empty
  /\ UNCHANGED <<form, edge, running>>

\* _coerce_parameter_value raises for a blank number.
Converts(fields) == fields.onset # Missing /\ fields.offset # Missing

\* PUT /parameters with every field of the page, edited or not.
SaveParameters ==
  /\ Answers /\ form # Missing /\ Converts(form)
  /\ Update(form)

\* PUT /config, by a script or somebody else's page.
UpdateConfig ==
  /\ Answers
  /\ \E p \in Requested : Update(p)

WriteFinished ==
  /\ pending # Missing
  /\ file' = pending /\ pending' = Missing
  /\ UNCHANGED <<form, edge, running>>

\* The power fails while the file is written.
PowerFails ==
  /\ pending # Missing
  /\ pending' = Missing /\ edge' = "down" /\ form' = Missing
  /\ UNCHANGED <<file, running>>

\* restart_edge_service, at the console: by the file as it is now.
RestartByConsole ==
  /\ Answers /\ Parse(file).ops
  /\ edge' = "down"
  /\ UNCHANGED <<file, pending, form, running>>

\* The same command from the server, handled by the service: by the
\* configuration it has been running with.
RestartByServer ==
  /\ edge = "up" /\ running.ops
  /\ edge' = "down"
  /\ UNCHANGED <<file, pending, form, running>>

ServiceFails ==
  /\ edge = "up" /\ edge' = "down"
  /\ UNCHANGED <<file, pending, form, running>>

\* async_main: the file is read at the start, and only then.  A start that
\* fails with the file is tried again.
ServiceStarts ==
  /\ edge = "down" /\ Loads(file)
  /\ edge' = "up" /\ running' = Parse(file)
  /\ UNCHANGED <<file, pending, form>>

SettingsNext ==
  \/ LoadParameters \/ EditField \/ SaveParameters \/ UpdateConfig
  \/ WriteFinished \/ PowerFails
  \/ RestartByConsole \/ RestartByServer \/ ServiceFails \/ ServiceStarts

SettingsSpec == SettingsInit /\ [][SettingsNext]_settingsVars
-----------------------------------------------------------------------------

\* The service never starts with what it finds in a file that is being
\* written, or was left half-written: all the defaults, and no name.
NeverRunsTorn ==
  [][edge = "down" /\ edge' = "up" => file # Empty]_settingsVars

\* The control of a field cannot tell the value the file has: a switch or a
\* text that is missing, an engine under its other name, a text with a
\* quotation.
Unshowable(k, v) ==
  \/ k = "ops" /\ v = Missing
  \/ k = "engine" /\ v = "silero"
  \/ k = "welcome" /\ v \in {Missing, "quoted"}

\* Saving the page changes what somebody has changed there.  A field that
\* still shows what the file has is written back so that the service would
\* run with the same value as before, whether the file had the setting or
\* left it to its default, except for the values that a control cannot
\* show; and what the page does not show is kept.
SaveKeepsTheRest ==
  [][SaveParameters =>
       /\ pending'.device = file.device
       /\ \A k \in Settings :
            form[k] = Shown(file)[k] =>
              \/ Parse(pending')[k] = Parse(file)[k]
              \/ Unshowable(k, file[k])]_settingsVars

\* A request may leave a file that does not load; the console then refuses
\* all requests, the repairing ones too, so that no later step hides or
\* half-repairs it: the file stays until somebody mends it by hand.
BrokenIsLeftAlone ==
  [][pending = Missing /\ ~Loads(file) => UNCHANGED <<file, pending>>]_settingsVars
=============================================================================
