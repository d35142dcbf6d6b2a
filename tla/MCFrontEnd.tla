----------------------------- MODULE MCFrontEnd -----------------------------
EXTENDS FrontEnd

MCSymbols == {"-", "--", "=", "a", "c", "h", "n", "p", "q", "s", "S", "t", "x", "0", "5", "7",
              "timeout", "saver", "info-box"}
D(l) == <<"-", l>>
Words == {D("a"), D("c"), D("S"), D("t"), D("x"), D("h"), <<"-", "a", "t", "5">>,
          <<"-", "S", "n">>, <<"-", "c", "s", "a">>, <<"-", "a", "t">>,
          <<"--", "timeout", "=", "5">>, <<"--", "saver", "=", "5">>,
          <<"--", "info-box">>, <<"--">>, <<"p">>, <<>>}
(* Words with zeros, dashes and equals signs where the patterns end.        *)
OddWords == {<<"--", "info-box", "=", "0">>, <<"--", "timeout", "=", "-", "0">>,
             <<"--", "timeout", "=">>, <<"--", "timeout", "=", "=">>, <<"--", "=", "=", "5">>,
             <<"-", "a", "0">>, <<"-", "t", "0">>, <<"-", "a", "-", "h">>, <<"0">>,
             <<"-">>, <<"--", "-">>}
FewWords == {D("a"), D("t"), <<"--">>, <<"p">>, <<"q">>, D("S")}
MCFewLines == {<<>>, <<D("S")>>, <<<<"--", "info-box">>, <<"7">>>>}
MCCommandLines == SeqOf(Words, 3) \union [1..4 -> FewWords] \union MCFewLines
                  \union SeqOf(OddWords \union {D("a"), D("t"), <<"--", "info-box">>, <<"p">>}, 2)

Variables == {"WAKE_KEY", "SAVER", "INFO_BOX", "TIMEOUT", "TRAIN_RANDOM", "PLUGINS",
              "ENTER_PROMPT", "ALL_MESSAGE", "MESSAGE"}
MCValues == {"return", "space", "bogus", "on", "no", "y", "1", "9", "mine", "train",
             "true", "false", "any", "0", ""}
Nothing == [n \in Variables |-> "unset"]
With(names, values) == {[n \in Variables |-> IF n \in names THEN f[n] ELSE "unset"] :
                           f \in [names -> values \union {"unset"}]}
Keys == With({"WAKE_KEY"}, {"return", "space", "", "bogus"})
Savers == {[f EXCEPT !["SAVER"] = v] : f \in Keys, v \in {"unset", "on", "no", ""}}
MCEnvironments == Savers \union With({"TRAIN_RANDOM", "INFO_BOX"}, {"1", ""})
                  \union With({"MESSAGE", "ALL_MESSAGE"}, {"mine"})
MCRCs == Keys \union With({"PLUGINS", "ENTER_PROMPT", "INFO_BOX"}, {"train", ""})
         \union With({"SAVER"}, {"y", "no"})
MCFiles == {<<>>,
            << <<"general", "wake_key", "String", "space">>,
               <<"general", "saver", "True", "">> >>,
            << <<"train", "random", "True", "">>,
               <<"general", "train_random", "String", "no">>,
               <<"general", "wake_key", "NULL", "">>,
               <<"general", "plugins", "String", "train">>,
               <<"general", "info_box", "Number", "9">> >>}
=============================================================================
