------------------------------ MODULE Settings ------------------------------
(***************************************************************************)
(* How vlock.sh finds the value of every VLOCK_ variable: variables of the *)
(* environment, ~/.vlockrc, options and the configuration file, which      *)
(* vlock-config turns into set_default commands; the messages it composes, *)
(* and what vlock-main and the saver get to see.  A name leaves out VLOCK_, *)
(* and a variable has a value or is "unset".                               *)
(***************************************************************************)
EXTENDS Naturals, SequencesExt

CONSTANTS Values,             \* of variables and entries
          Environments, RCs,  \* functions from Names to Values and "unset"
          Files               \* sequences of Entries

VARIABLES
    environment, rc,    \* what the user has set where
    file,               \* what config.json says
    config,             \* "there", "absent", "no helper" or "unreadable"
    directory,          \* of config.json: "writable", "readonly" or "impossible"
    shell,              \* the variables of the shell
    exported,           \* the names of those with the export flag
    defaults,           \* the set_default commands still to be run
    step                \* how far main() is

sources == <<environment, rc, file, config, directory>>
settings == <<sources, shell, exported, defaults, step>>

Names == {"WAKE_KEY", "SAVER", "INFO_BOX", "TIMEOUT", "TRAIN_RANDOM", "PLUGINS",
          "ENTER_PROMPT", "ALL_MESSAGE", "MESSAGE"}
IsSet(values, n) == values[n] # "unset"

(* The environment becomes shell variables that are exported, and           *)
(* ~/.vlockrc assigns to variables, which leaves the flag as it is.         *)
Init == /\ environment \in Environments /\ rc \in RCs
        /\ config \in {"there", "absent", "no helper", "unreadable"}
        /\ file \in IF config = "there" THEN Files ELSE {<<>>}
        /\ directory \in IF config = "absent" THEN {"writable", "readonly", "impossible"}
                         ELSE {"writable"}
        /\ shell = environment
        /\ exported = {n \in Names : IsSet(environment, n)}
        /\ defaults = <<>>
        /\ step = "vlockrc"

ReadUserSettings ==
    /\ step = "vlockrc"
    /\ shell' = [n \in Names |-> IF IsSet(rc, n) THEN rc[n] ELSE shell[n]]
    /\ step' = "options"
    /\ UNCHANGED <<sources, exported, defaults>>

Options(opts) ==
    /\ step = "options"
    /\ shell' = [n \in Names |-> IF n \in DOMAIN opts /\ opts[n] # "unset"
                                 THEN opts[n] ELSE shell[n]]
    /\ step' = "config"
    /\ UNCHANGED <<sources, exported, defaults>>

(* The entries <<section, key, type, value>> that stand for one of these    *)
(* variables, scalars or not.                                               *)
Followed == {"general"} \X {"wake_key", "info_box", "saver", "plugins", "train_random"}
            \union {<<"train", "random">>}
Types == {"String", "Number", "True", "False", "NULL", "Array", "Object"}
Entries == {<<k[1], k[2], type, value>> : k \in Followed, type \in Types, value \in Values}
Scalar(entry) == entry[3] \in {"String", "Number", "True", "False"}

(* The variable a key stands for, and the text of a scalar.                 *)
Variable(section, key) ==
    CASE section # "general" \/ key = "train_random" -> "TRAIN_RANDOM"
      [] section = "general" /\ key = "wake_key" -> "WAKE_KEY"
      [] section = "general" /\ key = "info_box" -> "INFO_BOX"
      [] section = "general" /\ key = "saver" -> "SAVER"
      [] section = "general" /\ key = "plugins" -> "PLUGINS"
Text(type, value) == CASE type = "True" -> "true" [] type = "False" -> "false" [] OTHER -> value

(* emit_object() skips what is no scalar; the general section comes first,  *)
(* then those of the modules.                                               *)
Printed(out, e, general) ==
    IF Scalar(e) /\ ((e[1] = "general") = general)
    THEN Append(out, <<Variable(e[1], e[2]), Text(e[3], e[4])>>) ELSE out
Commands(entries, general) ==
    LET c[n \in 0..Len(entries)] ==
            IF n = 0 THEN <<>> ELSE Printed(c[n - 1], entries[n], general)
    IN  c
Emitted(entries) ==
    Commands(entries, TRUE)[Len(entries)] \o Commands(entries, FALSE)[Len(entries)]

BasicDefaults == << <<"general", "wake_key", "String", "any">>,
                    <<"general", "info_box", "Number", "0">>,
                    <<"train", "random", "False", "">> >>

(* read_config(): without the helper there is nothing to do; a file that is *)
(* not there is created, unless there can be no directory for it; set -e    *)
(* ends vlock when the file cannot be written.                              *)
ReadConfig ==
    /\ step = "config"
    /\ \/ /\ config \in {"no helper", "unreadable"} \/ (config = "absent" /\ directory = "impossible")
          /\ step' = "defaults"
          /\ UNCHANGED <<file, config, defaults>>
       \/ /\ config = "absent" /\ directory = "writable"
          /\ config' = "there" /\ file' = BasicDefaults
          /\ defaults' = Emitted(BasicDefaults) /\ step' = "defaults"
       \/ /\ config = "absent" /\ directory = "readonly"
          /\ step' = "aborted"
          /\ UNCHANGED <<file, config, defaults>>
       \/ /\ config = "there"
          /\ defaults' = Emitted(file) /\ step' = "defaults"
          /\ UNCHANGED <<file, config>>
    /\ UNCHANGED <<environment, rc, directory, shell, exported>>

(* Mutant: an empty value counts as none, with -z "${NAME}".                *)
SetDefault_Empty ==
    /\ step = "defaults" /\ defaults # <<>>
    /\ LET n == Head(defaults)[1] IN
       /\ shell' = IF shell[n] \in {"unset", ""} THEN [shell EXCEPT ![n] = Head(defaults)[2]] ELSE shell
       /\ exported' = exported \union {n}
    /\ defaults' = Tail(defaults)
    /\ UNCHANGED <<sources, step>>

SetDefault ==
    /\ step = "defaults" /\ defaults # <<>>
    /\ LET n == Head(defaults)[1] IN
       /\ shell' = IF IsSet(shell, n) THEN shell ELSE [shell EXCEPT ![n] = Head(defaults)[2]]
       /\ exported' = exported \union {n}
    /\ defaults' = Tail(defaults)
    /\ UNCHANGED <<sources, step>>

TrueValues == {"1", "y", "Y", "yes", "true", "on"}

(* Mutant: "return" is not taken for [ENTER].                               *)
wake_key_label_Return(key) ==
    CASE key = "enter" -> "enter" [] key = "space" -> "space"
      [] key = "backspace" -> "backspace" [] OTHER -> "any"
(* The key a message names.                                                 *)
wake_key_label(key) ==
    CASE key \in {"enter", "return"} -> "enter" [] key = "space" -> "space"
      [] key = "backspace" -> "backspace" [] OTHER -> "any"

(* build_messages(): a message of its own names a key; both messages end in *)
(* the prompt.                                                              *)
BuildMessages ==
    /\ step = "defaults" /\ defaults = <<>>
    /\ LET prompt == IF IsSet(shell, "ENTER_PROMPT") THEN shell["ENTER_PROMPT"]
                     ELSE IF shell["SAVER"] \in TrueValues THEN wake_key_label(shell["WAKE_KEY"])
                     ELSE "enter"
       IN  shell' = [shell EXCEPT !["ENTER_PROMPT"] = prompt,
                                  !["ALL_MESSAGE"] = IF @ = "unset" THEN prompt ELSE @]
    /\ step' = "export"
    /\ UNCHANGED <<sources, exported, defaults>>

Exports == {"TIMEOUT", "SAVER", "TRAIN_RANDOM", "INFO_BOX", "MESSAGE", "ALL_MESSAGE"}
Export == /\ step = "export"
          /\ exported' = exported \union {n \in Exports : IsSet(shell, n)}
          /\ step' = "exec"
          /\ UNCHANGED <<sources, shell, defaults>>

Next == ReadUserSettings \/ ReadConfig \/ SetDefault \/ BuildMessages \/ Export

-----------------------------------------------------------------------------
(* What the program started has in its environment, and makes of it.        *)
Seen(n) == IF n \in exported THEN shell[n] ELSE "unset"
env_is_true(n) == Seen(n) \in TrueValues
wake_key_charset ==
    LET k == Seen("WAKE_KEY")
    IN  CASE k \in {"unset", "any"} -> "any" [] k \in {"enter", "return"} -> "enter"
          [] k = "space" -> "space" [] k = "backspace" -> "backspace" [] OTHER -> "any"
wake_key_name ==
    LET k == Seen("WAKE_KEY")
    IN  CASE k \in {"unset", "any"} -> "any" [] k \in {"enter", "return"} -> "enter"
          [] k = "space" -> "space" [] k = "backspace" -> "backspace" [] OTHER -> "any"
message == IF Seen("MESSAGE") # "unset" THEN Seen("MESSAGE") ELSE Seen("ALL_MESSAGE")
=============================================================================
