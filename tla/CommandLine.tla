---------------------------- MODULE CommandLine ----------------------------
(***************************************************************************)
(* The loop of main() in vlock.sh that takes the command line apart.  A    *)
(* word is a sequence of symbols: <<"-", "a", "t">> for -at,               *)
(* <<"--", "timeout", "=", "5">>, <<"--">> or <<"train">>; the empty word  *)
(* is <<>>.  A symbol is a character, the two dashes a word begins with,   *)
(* or the name of a long option.  The words are the positional parameters  *)
(* of the shell.                                                           *)
(***************************************************************************)
EXTENDS Naturals, SequencesExt

CONSTANTS Symbols,      \* that words are made of
          CommandLines  \* that are tried

VARIABLES
    words,              \* the command line as it was given
    args,               \* "$@"
    plugins,
    saver, timeout, info_box,   \* VLOCK_SAVER and so on; Unset at first
    has_double_dash,
    parsing             \* "on", "over", "help" or "error"

settings == <<saver, timeout, info_box>>
vars == <<words, args, plugins, settings, has_double_dash, parsing>>

Unset == <<"unset">>  \* no word

OneLetter == [a |-> "all", c |-> "current", n |-> "new", s |-> "disable-sysrq",
              S |-> "saver", t |-> "timeout", h |-> "help", v |-> "version"]
LongNames == {OneLetter[l] : l \in DOMAIN OneLetter} \union {"info-box"}
WithArgument == {"timeout", "info-box"}

(* The case patterns of the loop.                                           *)
IsCluster(w) == Len(w) > 2 /\ w[1] = "-"
IsAssigned(w) == Len(w) > 3 /\ w[1] = "--" /\ \E k \in 3..Len(w) - 1 : w[k] = "="
IsOption(w) == \/ Len(w) = 2 /\ w[1] \in {"-", "--"}
               \/ Len(w) > 2 /\ w[1] = "--" /\ ~IsAssigned(w)
IsDashes(w) == w = <<"--">>
IsPlain(w) == w \notin {<<>>, <<"-">>} => w[1] \notin {"-", "--"}

(* The option a word stands for, under its long name.                       *)
Option(w) == CASE Len(w) > 2 -> "unknown"
               [] w[1] = "--" /\ w[2] \in LongNames -> w[2]
               [] w[1] = "-" /\ w[2] \in DOMAIN OneLetter -> OneLetter[w[2]]
               [] OTHER -> "unknown"

Init == /\ words \in CommandLines
        /\ args = words
        /\ plugins = <<>>
        /\ saver = Unset /\ timeout = Unset /\ info_box = Unset
        /\ has_double_dash = FALSE
        /\ parsing = "on"

First == parsing = "on" /\ args # <<>>
Exit(how) == parsing' = how /\ UNCHANGED <<words, args, plugins, settings, has_double_dash>>

(* expr fails when what it puts out is empty or 0, and then set -e ends     *)
(* vlock.sh.                                                                *)
IsNull(w) == w = <<>> \/ ToSet(w) = {"0"} \/ (Head(w) = "-" /\ ToSet(Tail(w)) = {"0"})

(* -at5 becomes -a -t 5, and -at becomes -a -t followed by an empty word.   *)
LetterWord(l) == IF l = "-" THEN <<"--">> ELSE <<"-", l>>
Letters(w, from, to) == [i \in 1..to - from + 1 |-> LetterWord(w[from + i - 1])]
ArgumentLetter(w) == SelectInSeq(w, LAMBDA l : l = "t")
LastLetter(w) == IF ArgumentLetter(w) = 0 THEN Len(w) ELSE ArgumentLetter(w)
HasLetter(w, l) == \E k \in 2..LastLetter(w) : w[k] = l
Split_Backwards(w) ==   \* Mutant: the letters come out in the wrong order.
    LET at == ArgumentLetter(w)
    IN  IF at = 0 THEN Reverse(Letters(w, 2, Len(w)))
        ELSE Reverse(Letters(w, 2, at - 1)) \o <<<<"-", "t">>, SubSeq(w, at + 1, Len(w))>>
Split(w) ==
    LET at == ArgumentLetter(w)
    IN  IF at = 0 THEN Letters(w, 2, Len(w))
        ELSE Letters(w, 2, at - 1) \o <<<<"-", "t">>, SubSeq(w, at + 1, Len(w))>>

Cluster == /\ First /\ IsCluster(Head(args))
           /\ IF HasLetter(Head(args), "0") THEN Exit("error")
              ELSE /\ args' = Split(Head(args)) \o Tail(args)
                   /\ UNCHANGED <<words, plugins, settings, has_double_dash, parsing>>

(* --timeout=5 becomes --timeout 5; no other option may have an argument,   *)
(* and none may have 0.                                                     *)
MayHaveArgument(w) == w[2] \in WithArgument /\ w[3] = "="
ArgumentOf(w) == SubSeq(w, 4, Len(w))
Assigned == /\ First /\ IsAssigned(Head(args))
            /\ LET w == Head(args) IN
               IF MayHaveArgument(w) /\ ~IsNull(ArgumentOf(w))
               THEN /\ args' = <<<<"--", w[2]>>, ArgumentOf(w)>> \o Tail(args)
                    /\ UNCHANGED <<words, plugins, settings, has_double_dash, parsing>>
               ELSE Exit("error")

AddedPlugin == [option \in {"all", "new", "disable-sysrq"} |->
                   IF option = "disable-sysrq" THEN "nosysrq" ELSE option]
Flag == /\ First /\ IsOption(Head(args))
        /\ LET option == Option(Head(args)) IN
           /\ option \in {"all", "current", "new", "disable-sysrq", "saver"}
           /\ plugins' = CASE option = "current" -> <<>>
                           [] option = "saver" -> plugins
                           [] OTHER -> Append(plugins, <<AddedPlugin[option]>>)
           /\ saver' = IF option = "saver" THEN <<"y">> ELSE saver
        /\ args' = Tail(args)
        /\ UNCHANGED <<words, timeout, info_box, has_double_dash, parsing>>

TakesArgument ==
    /\ First /\ IsOption(Head(args)) /\ Option(Head(args)) \in WithArgument
    /\ IF Len(args) = 1 THEN Exit("error")
       ELSE /\ IF Option(Head(args)) = "timeout"
               THEN timeout' = args[2] /\ UNCHANGED info_box
               ELSE info_box' = args[2] /\ UNCHANGED timeout
            /\ args' = Tail(Tail(args))
            /\ UNCHANGED <<words, plugins, saver, has_double_dash, parsing>>

HelpOrUnknown == /\ First /\ IsOption(Head(args))
                 /\ \/ Option(Head(args)) \in {"help", "version"} /\ Exit("help")
                    \/ Option(Head(args)) = "unknown" /\ Exit("error")

DoubleDash == /\ First /\ IsDashes(Head(args))
              /\ args' = Tail(args)
              /\ parsing' = "over"
              /\ UNCHANGED <<words, plugins, settings, has_double_dash>>

(* Anything else goes to the end, behind a double dash.                     *)
Plain == /\ First /\ IsPlain(Head(args))
         /\ has_double_dash' = (has_double_dash \/ <<"--">> \in ToSet(args))
         /\ args' = Tail(args) \o (IF has_double_dash' THEN <<>> ELSE <<<<"--">>>>)
                               \o <<Head(args)>>
         /\ UNCHANGED <<words, plugins, settings, parsing>>

NoneLeft == /\ parsing = "on" /\ args = <<>>
            /\ parsing' = "over"
            /\ UNCHANGED <<words, args, plugins, settings, has_double_dash>>

Next == \/ Cluster \/ Assigned \/ Flag \/ TakesArgument \/ HelpOrUnknown
        \/ DoubleDash \/ Plain \/ NoneLeft

-----------------------------------------------------------------------------
(* What a command line means to its user: word by word, and letter by       *)
(* letter in a cluster, each after what those before it have asked for.     *)
Nothing == [plugins |-> <<>>, saver |-> Unset, timeout |-> Unset, info_box |-> Unset,
            rest |-> <<>>, end |-> "over", awaits |-> "nothing", behind |-> FALSE]

Chosen(m, option) ==
    CASE option \in {"help", "version"} -> [m EXCEPT !.end = "help"]
      [] option = "saver" -> [m EXCEPT !.saver = <<"y">>]
      [] option = "current" -> [m EXCEPT !.plugins = <<>>]
      [] option \in DOMAIN AddedPlugin -> [m EXCEPT !.plugins = Append(@, <<AddedPlugin[option]>>)]
      [] option \in WithArgument -> [m EXCEPT !.awaits = option]
      [] OTHER -> [m EXCEPT !.end = "error"]
Argument(m, w) ==
    IF m.awaits = "timeout" THEN [m EXCEPT !.timeout = w, !.awaits = "nothing"]
                            ELSE [m EXCEPT !.info_box = w, !.awaits = "nothing"]
Going(m) == m.end = "over" /\ m.awaits = "nothing"

(* The rest of a cluster, if there is one, is what its last option awaits.  *)
NextLetter(m, l) == IF Going(m) THEN Chosen(m, Option(<<"-", l>>)) ELSE m
ByLetter(m, w) ==
    LET l[k \in 1..Len(w)] == IF k = 1 THEN m ELSE NextLetter(l[k - 1], w[k])
    IN  l
Letter(m, w) ==
    LET all == ByLetter(m, w)[Len(w)]
        at == ArgumentLetter(w)
    IN  IF all.awaits = "nothing" \/ at = Len(w) THEN all
        ELSE Argument(all, SubSeq(w, at + 1, Len(w)))

Word(m, w) ==
    IF m.end # "over" THEN m
    ELSE IF m.awaits # "nothing" THEN Argument(m, w)
    ELSE IF m.behind \/ IsPlain(w) THEN [m EXCEPT !.rest = Append(@, w)]
    ELSE CASE IsDashes(w) -> [m EXCEPT !.behind = TRUE]
           [] IsOption(w) -> Chosen(m, Option(w))
           [] IsCluster(w) -> Letter(m, w)
           [] IsAssigned(w) -> IF MayHaveArgument(w)
                               THEN Argument(Chosen(m, w[2]), ArgumentOf(w))
                               ELSE [m EXCEPT !.end = "error"]
ByWord(ws) ==
    LET m[n \in 0..Len(ws)] == IF n = 0 THEN Nothing ELSE Word(m[n - 1], ws[n])
    IN  m
Meant(ws) ==
    LET m == ByWord(ws)[Len(ws)]
    IN  IF m.awaits = "nothing" THEN m ELSE [m EXCEPT !.end = "error"]

(* What the loop does not cope with: an option letter whose argument is the *)
(* next word, at the end of a cluster; an option without an argument, once  *)
(* a word before it has been moved behind a double dash; what expr takes    *)
(* for nothing; and a dash among the letters of a cluster.                  *)
NeedsNext(w) == \/ IsOption(w) /\ Option(w) \in WithArgument
                \/ IsCluster(w) /\ ArgumentLetter(w) = Len(w)
Ordinary(ws) ==
    \A i \in DOMAIN ws :
        /\ NeedsNext(ws[i]) => ~IsCluster(ws[i]) /\ i < Len(ws) /\ ws[i + 1] # <<"--">>
        /\ IsCluster(ws[i]) => ~HasLetter(ws[i], "0") /\ ~HasLetter(ws[i], "-")
        /\ IsAssigned(ws[i]) => ~IsNull(ArgumentOf(ws[i]))

(* Parsing an ordinary command line ends, with what the user means: the     *)
(* words that are no options keep their order unless there is a double dash *)
(* among them, and none is lost, added or taken for an option.              *)
ParsedAsMeant ==
    parsing # "on" /\ Ordinary(words) =>
        LET m == Meant(words) IN
        /\ parsing = m.end
        /\ parsing = "over" =>
             /\ <<plugins, saver, timeout, info_box>> = <<m.plugins, m.saver, m.timeout, m.info_box>>
             /\ IF <<"--">> \in ToSet(words) THEN ToBag(args) = ToBag(m.rest) ELSE args = m.rest
=============================================================================
