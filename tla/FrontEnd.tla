------------------------------ MODULE FrontEnd ------------------------------
(***************************************************************************)
(* vlock.sh from its start to the exec of vlock-main: ~/.vlockrc is read,  *)
(* the command line is taken apart, and what neither they nor the          *)
(* environment has set comes from the configuration file.                  *)
(***************************************************************************)
EXTENDS Naturals, SequencesExt

CONSTANTS Symbols, CommandLines, Values, Environments, RCs, Files,
          FewLines  \* the command lines tried with every setting

VARIABLES
    words, args, plugins, saver, timeout, info_box, has_double_dash, parsing,
    environment, rc, file, config, directory, shell, exported, defaults, step,
    command     \* the arguments of vlock-main; <<>> before that

C == INSTANCE CommandLine
S == INSTANCE Settings

(* The dashes a word begins with are one symbol.  What expr would take for  *)
(* an operator of its own, such as a parenthesis alone, is no letter here.  *)
ASSUME CommandLinesAssumption ==
    /\ {"-", "--"} \subseteq Symbols
    /\ CommandLines \subseteq Seq(Seq(Symbols)) /\ FewLines \subseteq CommandLines
    /\ \A ws \in CommandLines : \A i \in DOMAIN ws : \A k \in DOMAIN ws[i] :
          k > 1 => ws[i][k] # "--" /\ (k = 2 /\ ws[i][1] = "-" => ws[i][k] # "-")
ASSUME ValuesAssumption ==
    {"true", "false", "any", "0", ""} \subseteq Values /\ "unset" \notin Values
ASSUME SourcesAssumption ==
    /\ Environments \subseteq [S!Names -> Values \union {"unset"}]
    /\ RCs \subseteq [S!Names -> Values \union {"unset"}]
    /\ Files \subseteq Seq(S!Entries)

line == <<words, args, plugins, saver, timeout, info_box, has_double_dash, parsing>>
sources == <<environment, rc, file, config, directory>>
settings == <<sources, shell, exported, defaults, step>>
vars == <<line, settings, command>>

Unset == [n \in S!Names |-> "unset"]

(* Every command line without settings, a few of them with all settings.    *)
Init == /\ C!Init
        /\ \/ words \in FewLines /\ S!Init
           \/ /\ words \notin FewLines
              /\ environment = Unset /\ rc = Unset /\ config = "no helper" /\ S!Init
        /\ command = <<>>

ReadUserSettings == S!ReadUserSettings /\ UNCHANGED <<line, command>>
Parse == step = "options" /\ C!Next /\ UNCHANGED <<settings, command>>

(* The word an option was given, as the value of its variable.              *)
Value(word) == IF word = C!Unset THEN "unset" ELSE IF word = <<>> THEN "" ELSE word[1]
Given == [SAVER |-> Value(saver), TIMEOUT |-> Value(timeout), INFO_BOX |-> Value(info_box)]
Parsed == /\ parsing = "over" /\ S!Options(Given)
          /\ UNCHANGED <<line, command>>

Configure == (S!ReadConfig \/ S!SetDefault \/ S!BuildMessages \/ S!Export)
             /\ UNCHANGED <<line, command>>

(* An unquoted variable that is unset or empty is no argument.              *)
Exec == /\ step = "exec"
        /\ command' = <<<<"vlock-main">>>> \o plugins
                      \o (IF shell["PLUGINS"] \in {"unset", ""} THEN <<>> ELSE <<<<shell["PLUGINS"]>>>>)
                      \o args
        /\ step' = "running"
        /\ UNCHANGED <<line, sources, shell, exported, defaults>>

Next == ReadUserSettings \/ Parse \/ Parsed \/ Configure \/ Exec
Spec == Init /\ [][Next]_vars

-----------------------------------------------------------------------------
(* A command line in which every argument follows its option means what its *)
(* words mean from the left to the right: clusters of letters, arguments in *)
(* the same or the next word, words that are no options moved to the end by *)
(* turns, and a double dash; a zero behind = is no argument to the loop.    *)
ParsedAsMeant == C!ParsedAsMeant

(* vlock-main and the savers see the value of the source that counts: an    *)
(* option before ~/.vlockrc before the environment before the configuration *)
(* file, in which the first entry counts.  An empty value is a value.       *)
(* A wake key from ~/.vlockrc is seen only if another source has one.       *)
First(n, commands) == LET own == {i \in DOMAIN commands : commands[i][1] = n}
                      IN  IF own = {} THEN "unset" ELSE commands[Min(own)][2]
Configured(n) == First(n, S!Emitted(file))
Wanted(n) ==
    LET given == IF n \in DOMAIN Given THEN Given[n] ELSE "unset"
    IN  CASE given # "unset" -> given
          [] given = "unset" /\ rc[n] # "unset" -> rc[n]
          [] given = "unset" /\ rc[n] = "unset" /\ environment[n] # "unset" -> environment[n]
          [] OTHER -> Configured(n)
KeyHidden == /\ rc["WAKE_KEY"] # "unset" /\ environment["WAKE_KEY"] = "unset"
             /\ Configured("WAKE_KEY") = "unset"
RightValueWins ==
    step = "running" =>
        /\ \A n \in {"SAVER", "INFO_BOX", "TIMEOUT", "TRAIN_RANDOM", "MESSAGE"} :
              S!Seen(n) = Wanted(n)
        /\ ~KeyHidden => S!Seen("WAKE_KEY") = Wanted("WAKE_KEY")
        /\ Wanted("ALL_MESSAGE") # "unset" => S!Seen("ALL_MESSAGE") = Wanted("ALL_MESSAGE")
        /\ Wanted("PLUGINS") \notin {"unset", ""} => <<Wanted("PLUGINS")>> \in ToSet(command)

(* The message names the key that brings up the password prompt, unless the *)
(* user has a message of their own: [ENTER], or with an immediate saver the *)
(* key that ends it; the box on the saver names that key too.               *)
MessageNamesKey ==
    step = "running" =>
        /\ S!wake_key_name = S!wake_key_charset
        /\ (\A n \in {"MESSAGE", "ALL_MESSAGE", "ENTER_PROMPT"} : Wanted(n) = "unset") /\ ~KeyHidden =>
              S!message = IF S!env_is_true("SAVER") THEN S!wake_key_charset ELSE "enter"
=============================================================================
