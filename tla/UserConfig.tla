----------------------------- MODULE UserConfig -----------------------------
(***************************************************************************)
(* The user's configuration file (pkg/config): named provider profiles and *)
(* analyzer filters with a default of each, their commands, the migration  *)
(* of a file of the old schema, and the resolution of the runtime          *)
(* configuration from flags, environment and file.                         *)
(*                                                                         *)
(* Every command is a process with a Store and a mutex of its own: nothing *)
(* but the rename keeps two of them apart.  A profile and a filter are     *)
(* their name and one value: the provider, the excluded namespace.         *)
(***************************************************************************)
EXTENDS Integers, FiniteSets

CONSTANTS Clients,      \* processes that run a command
          Names,        \* names of profiles and filters
          None,         \* nothing is set
          EmptyValue,   \* set, to the empty string
          Bad,          \* set to what cannot be parsed, blanks included
          UserFiles,    \* files a user may have: of the old schema, written by hand, of another schema
          Inputs,       \* what flags or environment may set: [interval, jitter, token]
          MaxCommands,
          DefaultInterval

ASSUME ConfigAssumption == MaxCommands \in Nat /\ DefaultInterval \in Nat \ {0}

Sections == {"profiles", "filters"}
Edits == [op : {"create", "update", "upsert", "delete", "default"}, section : Sections, name : Names, value : {1, 2}]
Reads == [op : {"list", "resolve"}, section : {"profiles"}, name : {CHOOSE n \in Names : TRUE}, value : {1}]
Settings == [interval |-> None, jitter |-> None, token |-> FALSE, exclude |-> 0]
NewUserConfig == [schema |-> "v1", entries |-> [s \in Sections |-> [n \in Names |-> 0]],
                  default |-> [s \in Sections |-> None], secrets |-> {}, settings |-> Settings, nested |-> Settings]
Absent == [NewUserConfig EXCEPT !.schema = "absent"]

\* Documents at the path or in memory, and what flags or environment may set.  The old
\* schema has settings at the top level and nested ones.
Durations == Int \cup {None, EmptyValue, Bad}
UserSettings == [interval : Durations, jitter : Durations, token : BOOLEAN, exclude : 0..2]
Document == [schema : {"absent", "v0", "v1", "other"}, entries : [Sections -> [Names -> 0..2]],
             default : [Sections -> Names \cup {None}], secrets : SUBSET Names,
             settings : UserSettings, nested : UserSettings]
Input == [interval : Durations, jitter : Durations, token : BOOLEAN \cup {None, EmptyValue, Bad}]

ASSUME DocumentAssumption ==
  /\ UserFiles \subseteq Document /\ Inputs \subseteq Input
  /\ Bad \notin BOOLEAN /\ EmptyValue \notin BOOLEAN
  /\ Bad # None /\ EmptyValue # None /\ Bad # EmptyValue

VARIABLES
  file,       \* the document at the path
  client,     \* what a process does: at, cmd, doc (in memory, then in its temporary file)
  commands,   \* how many were started
  resolved    \* the last runtime configuration, and the inputs it came from

configVars == <<file, client, commands, resolved>>

NoCommand == [op |-> "list", section |-> "profiles", name |-> CHOOSE n \in Names : TRUE, value |-> 1]
Idle == [at |-> "idle", cmd |-> NoCommand, doc |-> NewUserConfig]
Unresolved == [ok |-> FALSE, interval |-> 1, jitter |-> 0, token |-> TRUE, exclude |-> 0, provider |-> 0, from |-> None]

ConfigInit ==
  /\ file \in UserFiles \cup {Absent}
  /\ client = [c \in Clients |-> Idle]
  /\ commands = 0
  /\ resolved = Unresolved

-----------------------------------------------------------------------------
(* Documents. *)

Find(doc, s, n) == n # None /\ doc.entries[s][n] # 0

\* Fault: a default that names nothing passes.
NormalizesLoosely(doc) == doc.schema = "v1"

\* UserConfig.normalize refuses what it cannot repair.
Normalizes(doc) ==
  /\ doc.schema = "v1"
  /\ \A s \in Sections : doc.default[s] # None => Find(doc, s, doc.default[s])

SafeConfigCopy(doc) == [doc EXCEPT !.secrets = {}]

\* Text and lists are taken from the top level, then from the nested settings; a flag such
\* as require_api_token from the top level alone.
MigratedSettings(top, nested) ==
  [interval |-> IF top.interval # None THEN top.interval ELSE nested.interval,
   jitter |-> IF top.jitter # None THEN top.jitter ELSE nested.jitter,
   token |-> top.token,
   exclude |-> IF top.exclude # 0 THEN top.exclude ELSE nested.exclude]

\* The file of before: a first profile becomes the default, keys are not taken over.
MigrateLegacyConfig(doc) ==
  LET first == CHOOSE n \in Names : Find(doc, "profiles", n)
      noDefault == doc.default["profiles"] = None /\ \E n \in Names : Find(doc, "profiles", n)
  IN  [doc EXCEPT !.schema = "v1", !.secrets = {}, !.default["profiles"] = IF noDefault THEN first ELSE @,
                  !.settings = MigratedSettings(doc.settings, doc.nested), !.nested = Settings]

\* A profile is given with its credential, which only the memory holds.
Set(doc, cmd) == [doc EXCEPT !.entries[cmd.section][cmd.name] = cmd.value,
                             !.secrets = IF cmd.section = "profiles" THEN @ \cup {cmd.name} ELSE @]

Allowed(doc, cmd) ==
  CASE cmd.op = "create" -> ~Find(doc, cmd.section, cmd.name)
    [] cmd.op \in {"update", "delete", "default"} -> Find(doc, cmd.section, cmd.name)
    [] OTHER -> TRUE

Edited(doc, cmd) ==
  CASE cmd.op = "delete" ->
         [doc EXCEPT !.entries[cmd.section][cmd.name] = 0,
                     !.default[cmd.section] = IF @ = cmd.name THEN None ELSE @]
    [] cmd.op = "default" -> [doc EXCEPT !.default[cmd.section] = cmd.name]
    [] cmd.op \in {"list", "resolve"} -> doc
    [] OTHER -> Set(doc, cmd)

-----------------------------------------------------------------------------
(* ResolveConfig: flags over environment over the file. *)

\* The first source that has the key decides, also when it holds the empty string.
Precedence(flag, env, inFile) == IF flag # None THEN flag ELSE IF env # None THEN env ELSE inFile

DurationValue(v) == IF v \in {None, EmptyValue} THEN 0 ELSE v

\* For require-api-token: what cannot be parsed requires one, the empty string does not.
BoolValue(v) == v = TRUE \/ v = Bad

\* Fault: the jitter is compared with an interval that is still to be repaired.
ClampsEarly(interval, jitter) ==
  [interval |-> IF interval <= 0 THEN DefaultInterval ELSE interval,
   jitter |-> IF jitter < 0 \/ (interval > 0 /\ jitter >= interval) THEN 0 ELSE jitter]

Clamps(interval, jitter) ==
  LET i == IF interval <= 0 THEN DefaultInterval ELSE interval
  IN  [interval |-> i, jitter |-> IF jitter < 0 \/ jitter >= i THEN 0 ELSE jitter]

SelectedProfile(doc) == IF doc.default["profiles"] = None THEN 0 ELSE doc.entries["profiles"][doc.default["profiles"]]
SelectedFilter(doc) == IF doc.default["filters"] = None THEN 0 ELSE doc.entries["filters"][doc.default["filters"]]

\* A duration that cannot be parsed is an error, from whichever source it comes.
ResolveConfig(doc, flags, env) ==
  LET interval == Precedence(flags.interval, env.interval, doc.settings.interval)
      jitter == Precedence(flags.jitter, env.jitter, doc.settings.jitter)
      token == Precedence(flags.token, env.token, doc.settings.token)
      scan == Clamps(DurationValue(interval), DurationValue(jitter))
  IN  IF Bad \in {interval, jitter}
        THEN Unresolved
        ELSE [ok |-> TRUE, interval |-> scan.interval, jitter |-> scan.jitter,
              token |-> BoolValue(token),
              exclude |-> IF doc.settings.exclude # 0 THEN doc.settings.exclude ELSE SelectedFilter(doc),
              provider |-> SelectedProfile(doc),
              from |-> [flags |-> flags, env |-> env, token |-> doc.settings.token]]

-----------------------------------------------------------------------------
(* A command. *)

Becomes(c, place, doc) == client' = [client EXCEPT ![c].at = place, ![c].doc = doc]
Fails(c) == client' = [client EXCEPT ![c] = Idle]

RunCommand(c, cmd) ==
  /\ client[c].at = "idle" /\ commands < MaxCommands
  /\ client' = [client EXCEPT ![c] = [Idle EXCEPT !.at = "load", !.cmd = cmd]]
  /\ commands' = commands + 1
  /\ resolved' = Unresolved
  /\ UNCHANGED file

\* loadLocked: an old file is migrated, and the new one saved first.  A key written into a
\* file by hand is not decoded, and another schema is refused.
Load(c) ==
  /\ client[c].at = "load"
  /\ CASE file.schema = "absent" -> Becomes(c, "edit", NewUserConfig)
       [] file.schema = "v1" /\ Normalizes(file) -> Becomes(c, "edit", SafeConfigCopy(file))
       [] file.schema = "v0" /\ Normalizes(MigrateLegacyConfig(file)) -> Becomes(c, "migrated", MigrateLegacyConfig(file))
       [] OTHER -> Fails(c)
  /\ UNCHANGED <<file, commands, resolved>>

\* The migrated document goes to a temporary file and takes the file's place.
Migrate(c) ==
  /\ client[c].at = "migrated"
  /\ file' = SafeConfigCopy(client[c].doc)
  /\ Becomes(c, "edit", client[c].doc)
  /\ UNCHANGED <<commands, resolved>>

Edit(c) ==
  LET cmd == client[c].cmd
      doc == Edited(client[c].doc, cmd)
  IN  /\ client[c].at = "edit" /\ cmd.op # "resolve"
      /\ IF cmd.op # "list" /\ Allowed(client[c].doc, cmd) /\ Normalizes(doc)
           THEN Becomes(c, "rename", SafeConfigCopy(doc))
           ELSE Fails(c)
      /\ UNCHANGED <<file, commands, resolved>>

\* saveLocked ends with the rename of the temporary file.
Rename(c) ==
  /\ client[c].at = "rename"
  /\ file' = client[c].doc
  /\ Fails(c)
  /\ UNCHANGED <<commands, resolved>>

\* One of the settings not modelled may be in error, or Validate refuse their combination.
Resolve(c, flags, env) ==
  /\ client[c].at = "edit" /\ client[c].cmd.op = "resolve"
  /\ resolved' \in {ResolveConfig(client[c].doc, flags, env), Unresolved}
  /\ Fails(c)
  /\ UNCHANGED <<file, commands>>

\* The process is killed, or a write fails: the file stays as it was.
CommandDies(c) ==
  /\ client[c].at # "idle"
  /\ Fails(c)
  /\ UNCHANGED <<file, commands, resolved>>

ConfigNext ==
  \E c \in Clients :
    \/ \E cmd \in Edits \cup Reads : RunCommand(c, cmd)
    \/ Load(c) \/ Migrate(c) \/ Edit(c) \/ Rename(c) \/ CommandDies(c)
    \/ \E flags, env \in Inputs : Resolve(c, flags, env)

ConfigSpec == ConfigInit /\ [][ConfigNext]_configVars

-----------------------------------------------------------------------------
(* Properties. *)

\* Whatever commands run side by side and wherever one is killed, the file is the
\* user's own or one the next command can load: of the current schema, its defaults name
\* what is there, and it holds no credential (saveLocked writes a whole normalized document).
FileIsSound ==
  \/ file \in UserFiles \cup {Absent}
  \/ /\ file.schema = "v1" /\ file.secrets = {}
     /\ \A s \in Sections : file.default[s] \in {None} \cup {n \in Names : file.entries[s][n] # 0}

\* Whatever flags, environment and file say, scheduler.New accepts what was resolved
\* (a positive interval, a shorter jitter).  The first source that has the token's key
\* decides alone: the token is required by true and by what cannot be parsed, and neither
\* by false nor by a key that is set but empty (ResolveConfig, boolValue).
ResolvedIsUsable ==
  resolved.ok =>
    /\ resolved.interval > 0 /\ resolved.jitter \in 0..(resolved.interval - 1)
    /\ LET said == {s \in {"flags", "env"} : resolved.from[s].token # None}
       IN  resolved.token <=>
             CASE "flags" \in said -> resolved.from.flags.token \notin {FALSE, EmptyValue}
               [] said = {"env"} -> resolved.from.env.token \notin {FALSE, EmptyValue}
               [] OTHER -> resolved.from.token
=============================================================================
