---------------------------- MODULE FrontEnd_proofs ----------------------------
(***************************************************************************)
(* Starting vlock, with any settings in the environment, in ~/.vlockrc and *)
(* in the configuration file, and any command line.                        *)
(***************************************************************************)
EXTENDS FrontEnd, SequenceTheorems, FiniteSetTheorems, NaturalsInduction, WellFoundedInduction,
        TLAPS

LEMMA LeastOf ==
  ASSUME NEW X \in SUBSET Nat, X # {}
  PROVE  \E m \in X : \A n \in X : m <= n
  <1> DEFINE R == {ss \in Nat \X Nat : ss[1] < ss[2]}
  <1>1. IsWellFoundedOn(R, Nat)
    BY NatLessThanWellFounded, Zenon DEF OpToRel
  <1> HIDE DEF R
  <1>2. PICK m \in X : \A n \in X : <<n, m>> \notin R
    BY <1>1, WFMin
  <1>3. ASSUME NEW n \in X PROVE m <= n
    <2>1. n \in Nat /\ m \in Nat
      OBVIOUS
    <2>2. ~(n < m)
      BY <1>2, <2>1 DEF R
    <2>3. QED
      BY <2>1, <2>2
  <1>4. QED
    BY <1>3

LEMMA LeastIsMin ==
  ASSUME NEW X \in SUBSET Nat, X # {}
  PROVE  Min(X) \in X /\ \A n \in X : Min(X) <= n
  BY LeastOf DEF Min

-----------------------------------------------------------------------------
(* The commands that vlock-config prints                                    *)

Settable == S!Names \X Values

(* The recursion of Commands has a solution, command by command.            *)
Prints(c, entries, general, n) ==
    c = [k \in 0..n |-> IF k = 0 THEN <<>> ELSE S!Printed(c[k - 1], entries[k], general)]

LEMMA Printable ==
  ASSUME NEW entries \in Seq(S!Entries), NEW general \in BOOLEAN
  PROVE  \E c : Prints(c, entries, general, Len(entries))
  <1> DEFINE Bad == {n \in Nat : ~\E c : Prints(c, entries, general, n)}
  <1>1. Bad = {}
    <2> SUFFICES ASSUME Bad # {} PROVE FALSE
      OBVIOUS
    <2>1. PICK n \in Bad : \A k \in Bad : n <= k
      BY LeastOf
    <2>2. n # 0
      <3> DEFINE z == [k \in 0..0 |-> IF k = 0 THEN <<>> ELSE <<>>]
      <3>1. Prints(z, entries, general, 0)
        BY DEF Prints
      <3>2. QED
        BY <2>1, <3>1
    <2>3. n \in Nat /\ n - 1 \in Nat /\ n - 1 \notin Bad
      BY <2>1, <2>2
    <2>4. PICK c : Prints(c, entries, general, n - 1)
      BY <2>3
    <2>5. DEFINE g == [k \in 0..n |-> IF k = n THEN S!Printed(c[n - 1], entries[n], general) ELSE c[k]]
    <2>6. \A k \in 0..n : g[k] = IF k = 0 THEN <<>> ELSE S!Printed(g[k - 1], entries[k], general)
      <3> TAKE k \in 0..n
      <3>1. CASE k = n
        <4>1. k # 0 /\ k - 1 \in 0..n /\ k - 1 # n
          BY <2>2, <2>3, <3>1
        <4>2. g[k - 1] = c[n - 1] /\ g[k] = S!Printed(c[n - 1], entries[n], general)
          BY <2>3, <3>1, <4>1
        <4>3. QED
          BY <3>1, <4>1, <4>2
      <3>2. CASE k # n
        <4>1. k \in 0..n - 1
          BY <2>3, <3>2
        <4>2. c[k] = IF k = 0 THEN <<>> ELSE S!Printed(c[k - 1], entries[k], general)
          BY <2>4, <4>1 DEF Prints
        <4>3. g[k] = c[k] /\ (k # 0 => g[k - 1] = c[k - 1])
          BY <2>3, <3>2, <4>1
        <4>4. QED
          BY <4>2, <4>3
      <3>3. QED
        BY <3>1, <3>2
    <2>7. Prints(g, entries, general, n)
      BY <2>6 DEF Prints
    <2>8. QED
      BY <2>1, <2>7
  <1>2. QED
    BY <1>1, LenProperties

LEMMA CommandByCommand ==
  ASSUME NEW entries \in Seq(S!Entries), NEW general \in BOOLEAN
  PROVE  /\ S!Commands(entries, general)[0] = <<>>
         /\ \A n \in 1..Len(entries) :
               S!Commands(entries, general)[n] =
                   S!Printed(S!Commands(entries, general)[n - 1], entries[n], general)
  <1>1. Prints(S!Commands(entries, general), entries, general, Len(entries))
    BY Printable DEF S!Commands, Prints
  <1>2. Len(entries) \in Nat
    BY LenProperties
  <1>3. QED
    BY <1>1, <1>2 DEF Prints

LEMMA EntryPrinted ==
  ASSUME NEW e \in S!Entries, S!Scalar(e)
  PROVE  <<S!Variable(e[1], e[2]), S!Text(e[3], e[4])>> \in Settable
  <1>1. <<e[1], e[2]>> \in S!Followed /\ e[4] \in Values
    BY DEF S!Entries, S!Followed
  <1>2. S!Variable(e[1], e[2]) \in S!Names
    <2>1. \/ e[1] = "train" /\ e[2] = "random"
          \/ e[1] = "general" /\ e[2] \in {"wake_key", "info_box", "saver", "plugins", "train_random"}
      BY <1>1 DEF S!Followed
    <2>2. QED
      BY <2>1 DEF S!Variable, S!Names
  <1>3. S!Text(e[3], e[4]) \in Values
    BY <1>1, ValuesAssumption DEF S!Text
  <1>4. QED
    BY <1>2, <1>3 DEF Settable

LEMMA PrintedIsSettable ==
  ASSUME NEW entries \in Seq(S!Entries), NEW general \in BOOLEAN
  PROVE  S!Commands(entries, general)[Len(entries)] \in Seq(Settable)
  <1> DEFINE c == S!Commands(entries, general)
             Bad == {n \in 0..Len(entries) : c[n] \notin Seq(Settable)}
  <1>0. Len(entries) \in Nat
    BY LenProperties
  <1>1. c[0] = <<>> /\ \A n \in 1..Len(entries) : c[n] = S!Printed(c[n - 1], entries[n], general)
    BY CommandByCommand
  <1> HIDE DEF c
  <1>2. ASSUME NEW n \in 1..Len(entries), c[n - 1] \in Seq(Settable) PROVE c[n] \in Seq(Settable)
    <2>1. entries[n] \in S!Entries
      BY ElementOfSeq
    <2>2. CASE S!Scalar(entries[n])
      <3>1. <<S!Variable(entries[n][1], entries[n][2]), S!Text(entries[n][3], entries[n][4])>> \in Settable
        BY <2>1, <2>2, EntryPrinted
      <3>2. QED
        BY <1>1, <1>2, <3>1, AppendProperties DEF S!Printed
    <2>3. CASE ~S!Scalar(entries[n])
      BY <1>1, <1>2, <2>3 DEF S!Printed
    <2>4. QED
      BY <2>2, <2>3
  <1>3. Bad = {}
    <2> SUFFICES ASSUME Bad # {} PROVE FALSE
      OBVIOUS
    <2>1. PICK n \in Bad : \A k \in Bad : n <= k
      <3>1. Bad \in SUBSET Nat
        BY <1>0
      <3>2. QED
        BY <3>1, LeastOf
    <2>2. n # 0
      BY <1>1, <2>1, EmptySeq
    <2>3. n \in 1..Len(entries) /\ n - 1 \in 0..Len(entries) /\ n - 1 \notin Bad
      BY <1>0, <2>1, <2>2
    <2>4. c[n - 1] \in Seq(Settable)
      BY <2>3
    <2>5. QED
      BY <1>2, <2>1, <2>3, <2>4
  <1>4. QED
    BY <1>0, <1>3 DEF c

LEMMA EmittedIsSettable ==
  ASSUME NEW entries \in Seq(S!Entries)
  PROVE  S!Emitted(entries) \in Seq(Settable)
  BY PrintedIsSettable, ConcatProperties DEF S!Emitted

LEMMA NothingEmitted == S!Emitted(<<>>) = <<>>
  <1>1. <<>> \in Seq(S!Entries) /\ Len(<<>>) = 0
    BY EmptySeq
  <1>2. S!Commands(<<>>, TRUE)[0] = <<>> /\ S!Commands(<<>>, FALSE)[0] = <<>>
    BY <1>1, CommandByCommand
  <1>3. QED
    BY <1>1, <1>2, EmptySeq, ConcatEmptySeq DEF S!Emitted

LEMMA BasicEntries == S!BasicDefaults \in Seq(S!Entries)
  <1>1. \A k \in S!Followed : \A type \in S!Types : \A value \in Values :
           <<k[1], k[2], type, value>> \in S!Entries
    BY DEF S!Entries
  <1>2. /\ <<"general", "wake_key">> \in S!Followed /\ <<"general", "info_box">> \in S!Followed
        /\ <<"train", "random">> \in S!Followed
    BY DEF S!Followed
  <1>3. {"String", "Number", "False"} \subseteq S!Types /\ {"any", "0", ""} \subseteq Values
    BY ValuesAssumption DEF S!Types
  <1>4. /\ <<"general", "wake_key", "String", "any">> \in S!Entries
        /\ <<"general", "info_box", "Number", "0">> \in S!Entries
        /\ <<"train", "random", "False", "">> \in S!Entries
    <2>1. \A value \in Values : <<"general", "wake_key", "String", value>> \in S!Entries
      BY <1>1, <1>2, <1>3
    <2>2. \A value \in Values : <<"general", "info_box", "Number", value>> \in S!Entries
      BY <1>1, <1>2, <1>3
    <2>3. \A value \in Values : <<"train", "random", "False", value>> \in S!Entries
      BY <1>1, <1>2, <1>3
    <2>4. QED
      BY <1>3, <2>1, <2>2, <2>3
  <1> DEFINE a == <<"general", "wake_key", "String", "any">>
             b == <<"general", "info_box", "Number", "0">>
             c == <<"train", "random", "False", "">>
  <1>5. a \in S!Entries /\ b \in S!Entries /\ c \in S!Entries
    BY <1>4
  <1>6. S!BasicDefaults = <<a, b, c>>
    BY DEF S!BasicDefaults
  <1> HIDE DEF a, b, c
  <1>7. <<a, b, c>> \in Seq(S!Entries)
    BY <1>5
  <1>8. QED
    BY <1>6, <1>7

(* The first command of a list is the first for its variable.               *)
LEMMA FirstOfAll ==
  ASSUME NEW T, NEW s \in Seq(T), s # <<>>, NEW n
  PROVE  First(n, s) = IF Head(s)[1] = n THEN Head(s)[2] ELSE First(n, Tail(s))
  <1> DEFINE own == {i \in DOMAIN s : s[i][1] = n}
             rest == {i \in DOMAIN Tail(s) : Tail(s)[i][1] = n}
  <1>1. /\ Len(s) \in Nat /\ Len(s) >= 1 /\ DOMAIN s = 1..Len(s) /\ Head(s) = s[1]
        /\ DOMAIN Tail(s) = 1..Len(s) - 1 /\ \A i \in 1..Len(s) - 1 : Tail(s)[i] = s[i + 1]
    BY HeadTailProperties, EmptySeq, LenProperties
  <1>2. own \in SUBSET Nat /\ rest \in SUBSET Nat
    BY <1>1
  <1>3. First(n, s) = IF own = {} THEN "unset" ELSE s[Min(own)][2]
    BY DEF First
  <1>4. First(n, Tail(s)) = IF rest = {} THEN "unset" ELSE Tail(s)[Min(rest)][2]
    BY DEF First
  <1>5. CASE s[1][1] = n
    <2>1. 1 \in own /\ \A i \in own : 1 <= i
      BY <1>1, <1>5
    <2>2. Min(own) \in own /\ Min(own) <= 1
      BY <1>2, <2>1, LeastIsMin
    <2>3. Min(own) = 1
      BY <1>2, <2>1, <2>2
    <2>4. QED
      BY <1>1, <1>3, <1>5, <2>1, <2>3
  <1>6. CASE s[1][1] # n
    <2>1. \A i \in rest : i + 1 \in own
      BY <1>1
    <2>2. \A i \in own : i - 1 \in rest
      BY <1>1, <1>6
    <2>3. CASE rest = {}
      BY <1>1, <1>3, <1>4, <1>6, <2>2, <2>3
    <2>4. CASE rest # {}
      <3>1. own # {}
        BY <2>1, <2>4
      <3>2. Min(rest) \in rest /\ (\A i \in rest : Min(rest) <= i)
        BY <1>2, <2>4, LeastIsMin
      <3>3. Min(own) \in own /\ (\A i \in own : Min(own) <= i)
        BY <1>2, <3>1, LeastIsMin
      <3> HIDE DEF own, rest
      <3>4. Min(own) \in Nat /\ Min(rest) \in Nat
        BY <1>2, <3>2, <3>3
      <3>5. Min(own) <= Min(rest) + 1 /\ Min(rest) <= Min(own) - 1
        BY <2>1, <2>2, <3>2, <3>3
      <3>6. Min(own) = Min(rest) + 1
        BY <3>4, <3>5
      <3>7. Min(rest) \in 1..Len(s) - 1
        BY <1>1, <3>2 DEF rest
      <3>8. QED
        BY <1>1, <1>3, <1>4, <1>6, <2>4, <3>1, <3>6, <3>7
    <2>5. QED
      BY <2>3, <2>4
  <1>7. QED
    BY <1>5, <1>6

-----------------------------------------------------------------------------
(* What is where while vlock.sh runs                                         *)

AnyWord == Seq(Symbols)
LineType ==
    /\ words \in Seq(AnyWord) /\ args \in Seq(AnyWord)
    /\ plugins \in Seq(Seq({"all", "new", "nosysrq"}))
    /\ has_double_dash \in BOOLEAN
    /\ parsing \in {"on", "over", "help", "error"}

SettingsType ==
    /\ environment \in [S!Names -> Values \union {"unset"}]
    /\ rc \in [S!Names -> Values \union {"unset"}]
    /\ file \in Seq(S!Entries)
    /\ shell = [n \in S!Names |-> shell[n]]
    /\ defaults \in Seq(Settable)
    /\ step \in {"vlockrc", "options", "config", "aborted", "defaults", "export", "exec", "running"}

(* The sources before the configuration file.                               *)
ByUser(n) == IF rc[n] # "unset" THEN rc[n] ELSE environment[n]
ByOption(n) == IF n \in DOMAIN Given /\ Given[n] # "unset" THEN Given[n] ELSE ByUser(n)

PromptWanted == IF Wanted("ENTER_PROMPT") # "unset" THEN Wanted("ENTER_PROMPT")
                ELSE IF Wanted("SAVER") \in S!TrueValues THEN S!wake_key_label(Wanted("WAKE_KEY"))
                ELSE "enter"

Before == /\ step = "vlockrc" => \A n \in S!Names : shell[n] = environment[n]
          /\ step = "options" => \A n \in S!Names : shell[n] = ByUser(n)
          /\ step = "config" => \A n \in S!Names : shell[n] = ByOption(n)
          /\ step \in {"vlockrc", "options", "config"} => defaults = <<>>

(* What a default has not been given yet it still gets.                     *)
Defaulted == step = "defaults" =>
    \A n \in S!Names :
        /\ (IF shell[n] # "unset" THEN shell[n] ELSE First(n, defaults)) = Wanted(n)
        /\ Configured(n) # "unset" => n \in exported \/ First(n, defaults) # "unset"

Settled == step \in {"export", "exec", "running"} =>
    /\ \A n \in S!Names \ {"ENTER_PROMPT", "ALL_MESSAGE"} : shell[n] = Wanted(n)
    /\ shell["ALL_MESSAGE"] = IF Wanted("ALL_MESSAGE") # "unset" THEN Wanted("ALL_MESSAGE")
                              ELSE PromptWanted
    /\ \A n \in S!Names : Configured(n) # "unset" => n \in exported

Exported ==
    /\ \A n \in S!Names : environment[n] # "unset" => n \in exported
    /\ step \in {"exec", "running"} => \A n \in S!Exports : shell[n] # "unset" => n \in exported

FrontEndInv ==
    /\ LineType /\ SettingsType
    /\ config # "there" => file = <<>>
    /\ Before /\ Defaulted /\ Settled /\ Exported
    /\ step = "running" /\ shell["PLUGINS"] \notin {"unset", ""} =>
          <<shell["PLUGINS"]>> \in ToSet(command)

LEMMA FirstLetterT ==
  ASSUME NEW w \in AnyWord, C!IsCluster(w)
  PROVE  /\ C!ArgumentLetter(w) \in Nat /\ C!ArgumentLetter(w) <= Len(w) /\ C!ArgumentLetter(w) # 1
         /\ C!ArgumentLetter(w) # 0 => w[C!ArgumentLetter(w)] = "t"
         /\ \A i \in 1..Len(w) : (C!ArgumentLetter(w) = 0 \/ i < C!ArgumentLetter(w)) => w[i] # "t"
  <1> DEFINE I == {i \in 1..Len(w) : w[i] = "t"}
             at == C!ArgumentLetter(w)
  <1>1. at = IF I # {} THEN Min(I) ELSE 0
    BY DEF C!ArgumentLetter, C!SelectInSeq, C!Min, Min
  <1>2. Len(w) \in Nat /\ I \in SUBSET Nat /\ w[1] = "-"
    BY LenProperties DEF C!IsCluster
  <1>3. I # {} => Min(I) \in I /\ \A n \in I : Min(I) <= n
    BY <1>2, LeastIsMin
  <1> HIDE DEF at
  <1>4. at \in Nat /\ at <= Len(w) /\ (at # 0 => w[at] = "t")
    BY <1>1, <1>2, <1>3
  <1>5. at # 1
    BY <1>2, <1>4
  <1>6. \A i \in 1..Len(w) : (at = 0 \/ i < at) => w[i] # "t"
    BY <1>1, <1>2, <1>3
  <1>7. QED
    BY <1>4, <1>5, <1>6 DEF at

LEMMA LetterIsWord == \A l \in Symbols : C!LetterWord(l) \in AnyWord
  BY CommandLinesAssumption DEF AnyWord, C!LetterWord

LEMMA LettersAreWords ==
  ASSUME NEW w \in AnyWord, NEW n \in 1..Len(w)
  PROVE  C!Letters(w, 2, n) \in Seq(AnyWord)
  <1>1. Len(w) \in Nat
    BY LenProperties DEF AnyWord
  <1>2. C!Letters(w, 2, n) = [i \in 1..n - 1 |-> C!LetterWord(w[i + 1])]
    <2>1. n - 2 + 1 = n - 1 /\ \A i \in 1..n - 1 : 2 + i - 1 = i + 1
      BY <1>1
    <2>2. QED
      BY <2>1 DEF C!Letters
  <1>3. \A i \in 1..n - 1 : w[i + 1] \in Symbols
    BY <1>1, ElementOfSeq DEF AnyWord
  <1>4. \A i \in 1..n - 1 : C!LetterWord(w[i + 1]) \in AnyWord
    BY <1>3, LetterIsWord
  <1>5. n - 1 \in Nat
    BY <1>1
  <1>6. QED
    BY <1>2, <1>4, <1>5, IsASeq

LEMMA SplitIsWords ==
  ASSUME NEW w \in AnyWord, C!IsCluster(w)
  PROVE  C!Split(w) \in Seq(AnyWord)
  <1> DEFINE at == C!ArgumentLetter(w)
  <1>1. Len(w) \in Nat /\ Len(w) > 2 /\ w[1] = "-"
    BY LenProperties DEF AnyWord, C!IsCluster
  <1>2. at \in Nat /\ at <= Len(w) /\ at # 1 /\ (at # 0 => w[at] = "t")
    BY FirstLetterT
  <1>3. C!Split(w) = IF at = 0 THEN C!Letters(w, 2, Len(w))
                     ELSE C!Letters(w, 2, at - 1) \o <<<<"-", "t">>, SubSeq(w, at + 1, Len(w))>>
    BY DEF C!Split
  <1> HIDE DEF at
  <1>4. CASE at = 0
    BY <1>1, <1>3, <1>4, LettersAreWords
  <1>5. CASE at # 0
    <2>1. C!Letters(w, 2, at - 1) \in Seq(AnyWord)
      BY <1>1, <1>2, <1>5, LettersAreWords
    <2>2. <<"-", "t">> \in AnyWord
      <3>1. w[1] \in Symbols /\ w[at] \in Symbols
        BY <1>1, <1>2, <1>5, ElementOfSeq DEF AnyWord
      <3>2. QED
        BY <1>1, <1>2, <1>5, <3>1 DEF AnyWord
    <2>3. SubSeq(w, at + 1, Len(w)) \in AnyWord
      <3>1. \A i \in at + 1..Len(w) : w[i] \in Symbols
        BY <1>1, <1>2, ElementOfSeq DEF AnyWord
      <3>2. QED
        BY <1>1, <1>2, <3>1, SubSeqProperties DEF AnyWord
    <2>4. <<<<"-", "t">>, SubSeq(w, at + 1, Len(w))>> \in Seq(AnyWord)
      BY <2>2, <2>3
    <2>5. QED
      BY <1>3, <1>5, <2>1, <2>4, ConcatProperties
  <1>6. QED
    BY <1>4, <1>5

LEMMA AddedIsPlugin ==
  /\ DOMAIN C!AddedPlugin = {"all", "new", "disable-sysrq"}
  /\ C!AddedPlugin["all"] = "all" /\ C!AddedPlugin["new"] = "new"
  /\ C!AddedPlugin["disable-sysrq"] = "nosysrq"
  BY DEF C!AddedPlugin

LEMMA ParseKeepsType == LineType /\ C!Next => LineType'
  <1> SUFFICES ASSUME LineType, C!Next PROVE LineType'
    OBVIOUS
  <1> USE DEF LineType
  <1>0. /\ C!First => Head(args) \in AnyWord /\ Tail(args) \in Seq(AnyWord) /\ Len(args) \in Nat
        /\ C!First => args = <<Head(args)>> \o Tail(args)
    BY HeadTailProperties, LenProperties DEF C!First
  <1>1. CASE C!Cluster
    <2>1. C!Split(Head(args)) \in Seq(AnyWord)
      BY <1>0, <1>1, SplitIsWords DEF C!Cluster
    <2>2. C!Split(Head(args)) \o Tail(args) \in Seq(AnyWord)
      BY <1>0, <1>1, <2>1, ConcatProperties DEF C!Cluster
    <2>3. QED
      BY <1>1, <2>2 DEF C!Cluster, C!Exit, C!settings
  <1>2. CASE C!Assigned
    <2> DEFINE w == Head(args)
    <2>1. w \in AnyWord /\ Len(w) \in Nat /\ Len(w) > 3 /\ w[1] = "--"
      BY <1>0, <1>2, LenProperties DEF C!Assigned, C!IsAssigned, AnyWord
    <2>2. w[1] \in Symbols /\ w[2] \in Symbols
      BY <2>1, ElementOfSeq DEF AnyWord
    <2>3. C!ArgumentOf(w) \in AnyWord
      <3>1. \A i \in 4..Len(w) : w[i] \in Symbols
        BY <2>1, ElementOfSeq DEF AnyWord
      <3>2. QED
        BY <2>1, <3>1, SubSeqProperties DEF AnyWord, C!ArgumentOf
    <2>4. <<<<"--", w[2]>>, C!ArgumentOf(w)>> \in Seq(AnyWord)
      BY <2>1, <2>2, <2>3 DEF AnyWord
    <2>5. <<<<"--", w[2]>>, C!ArgumentOf(w)>> \o Tail(args) \in Seq(AnyWord)
      BY <1>0, <1>2, <2>4, ConcatProperties DEF C!Assigned
    <2>6. QED
      BY <1>2, <2>5 DEF C!Assigned, C!Exit, C!settings
  <1>3. CASE C!Flag
    <2>1. plugins' \in Seq(Seq({"all", "new", "nosysrq"}))
      <3>1. <<>> \in Seq(Seq({"all", "new", "nosysrq"}))
        BY EmptySeq
      <3>2. C!Option(Head(args)) \in {"all", "new", "disable-sysrq"} =>
               <<C!AddedPlugin[C!Option(Head(args))]>> \in Seq({"all", "new", "nosysrq"})
        BY AddedIsPlugin
      <3>3. \A p \in Seq({"all", "new", "nosysrq"}) :
               Append(plugins, p) \in Seq(Seq({"all", "new", "nosysrq"}))
        BY AppendProperties
      <3>4. QED
        BY <1>3, <3>1, <3>2, <3>3 DEF C!Flag
    <2>2. QED
      BY <1>0, <1>3, <2>1 DEF C!Flag
  <1>4. CASE C!TakesArgument
    <2>1. Len(args) # 1 => Tail(Tail(args)) \in Seq(AnyWord)
      <3>1. Len(args) # 1 => Tail(args) # <<>>
        <4>1. args # <<>> /\ Len(args) \in Nat
          BY <1>0, <1>4 DEF C!TakesArgument, C!First
        <4>2. Len(Tail(args)) = Len(args) - 1
          BY <4>1, HeadTailProperties
        <4>3. Len(args) # 1 => Len(Tail(args)) # 0
          BY <4>1, <4>2
        <4>4. QED
          BY <4>3, EmptySeq
      <3>2. QED
        BY <1>0, <1>4, <3>1, HeadTailProperties DEF C!TakesArgument
    <2>2. QED
      BY <1>4, <2>1 DEF C!TakesArgument, C!Exit, C!settings
  <1>5. CASE C!HelpOrUnknown
    BY <1>5 DEF C!HelpOrUnknown, C!Exit
  <1>6. CASE C!DoubleDash
    BY <1>0, <1>6 DEF C!DoubleDash
  <1>7. CASE C!Plain
    <2> DEFINE dashes == IF has_double_dash' THEN <<>> ELSE <<<<"--">>>>
    <2>1. dashes \in Seq(AnyWord)
      <3>0. <<"--">> \in AnyWord
        BY CommandLinesAssumption DEF AnyWord
      <3>1. <<<<"--">>>> \in Seq(AnyWord) /\ <<>> \in Seq(AnyWord)
        BY <3>0
      <3>2. QED
        BY <3>1
    <2>2. <<Head(args)>> \in Seq(AnyWord)
      <3>1. Head(args) \in AnyWord
        BY <1>0, <1>7 DEF C!Plain
      <3>2. QED
        BY <3>1
    <2>3. Tail(args) \o dashes \o <<Head(args)>> \in Seq(AnyWord)
      <3> HIDE DEF dashes
      <3>1. Tail(args) \in Seq(AnyWord)
        BY <1>0, <1>7 DEF C!Plain
      <3>2. Tail(args) \o dashes \in Seq(AnyWord)
        BY <2>1, <3>1, ConcatProperties
      <3>3. QED
        BY <2>2, <3>2, ConcatProperties
    <2>4. has_double_dash' \in BOOLEAN
      BY <1>7 DEF C!Plain
    <2>5. QED
      BY <1>7, <2>3, <2>4 DEF C!Plain
  <1>8. CASE C!NoneLeft
    BY <1>8 DEF C!NoneLeft
  <1>9. QED
    BY <1>1, <1>2, <1>3, <1>4, <1>5, <1>6, <1>7, <1>8 DEF C!Next

-----------------------------------------------------------------------------
(* Every step keeps the invariant                                            *)

LEMMA InitInv == Init => FrontEndInv
  <1> SUFFICES ASSUME Init PROVE FrontEndInv
    OBVIOUS
  <1>1. LineType
    <2>1. words \in Seq(AnyWord)
      BY CommandLinesAssumption DEF Init, C!Init, AnyWord
    <2>2. plugins \in Seq(Seq({"all", "new", "nosysrq"}))
      BY EmptySeq DEF Init, C!Init
    <2>3. QED
      BY <2>1, <2>2 DEF Init, C!Init, LineType
  <1>2. S!Init
    BY DEF Init
  <1>3. SettingsType
    <2>1. file \in Seq(S!Entries)
      BY <1>2, SourcesAssumption, EmptySeq DEF S!Init
    <2>2. /\ environment \in [S!Names -> Values \union {"unset"}]
          /\ rc \in [S!Names -> Values \union {"unset"}]
      BY <1>2, SourcesAssumption DEF S!Init
    <2>3. shell = [n \in S!Names |-> shell[n]]
      BY <1>2, <2>2 DEF S!Init
    <2>4. defaults \in Seq(Settable)
      BY <1>2, EmptySeq DEF S!Init
    <2>5. QED
      BY <1>2, <2>1, <2>2, <2>3, <2>4 DEF S!Init, SettingsType
  <1>4. QED
    BY <1>1, <1>2, <1>3 DEF S!Init, FrontEndInv, Before, Defaulted, Settled, Exported, S!IsSet

(* What is wanted depends on the line and the sources alone.                *)
LEMMA SameWanted ==
  ASSUME UNCHANGED <<saver, timeout, info_box>>, UNCHANGED <<rc, environment>>
  PROVE  /\ Given' = Given
         /\ \A n : ByUser(n)' = ByUser(n) /\ ByOption(n)' = ByOption(n)
         /\ file' = file => /\ \A n : Configured(n)' = Configured(n)
                            /\ \A n : Wanted(n)' = Wanted(n)
                            /\ PromptWanted' = PromptWanted
  <1>1. Given' = Given
    BY DEF Given, Value
  <1>2. \A n : ByUser(n)' = ByUser(n) /\ ByOption(n)' = ByOption(n)
    BY <1>1 DEF ByUser, ByOption
  <1>3. ASSUME file' = file PROVE \A n : Configured(n)' = Configured(n)
    BY <1>3 DEF Configured
  <1>4. ASSUME file' = file PROVE \A n : Wanted(n)' = Wanted(n)
    BY <1>1, <1>3, <1>4 DEF Wanted
  <1>5. ASSUME file' = file PROVE PromptWanted' = PromptWanted
    BY <1>4, <1>5 DEF PromptWanted
  <1>6. QED
    BY <1>1, <1>2, <1>3, <1>4, <1>5

LEMMA WantedIs ==
  \A n : Wanted(n) = IF ByOption(n) # "unset" THEN ByOption(n) ELSE Configured(n)
  BY DEF Wanted, ByOption, ByUser

LEMMA UserSettingsStep == FrontEndInv /\ ReadUserSettings => FrontEndInv'
  <1> SUFFICES ASSUME FrontEndInv, ReadUserSettings PROVE FrontEndInv'
    OBVIOUS
  <1>1. S!ReadUserSettings /\ UNCHANGED <<line, command>>
    BY DEF ReadUserSettings
  <1>2. LineType'
    BY <1>1 DEF FrontEndInv, LineType, line
  <1>3. SettingsType'
    BY <1>1 DEF FrontEndInv, SettingsType, S!ReadUserSettings, S!sources
  <1>4. \A n \in S!Names : shell'[n] = ByUser(n)'
    BY <1>1 DEF FrontEndInv, Before, ByUser, S!ReadUserSettings, S!IsSet, S!sources
  <1>5. QED
    BY <1>1, <1>2, <1>3, <1>4 DEF FrontEndInv, Before, Defaulted, Settled, Exported, S!ReadUserSettings, S!sources

LEMMA ParseStep == FrontEndInv /\ Parse => FrontEndInv'
  <1> SUFFICES ASSUME FrontEndInv, Parse PROVE FrontEndInv'
    OBVIOUS
  <1>1. step = "options" /\ C!Next /\ UNCHANGED <<settings, command>>
    BY DEF Parse
  <1>2. LineType'
    BY <1>1, ParseKeepsType DEF FrontEndInv
  <1>3. UNCHANGED <<environment, rc, file, config, shell, exported, defaults, step>>
    BY <1>1 DEF settings, sources
  <1>4. SettingsType'
    BY <1>3 DEF FrontEndInv, SettingsType
  <1>5. QED
    BY <1>1, <1>2, <1>3, <1>4 DEF FrontEndInv, Before, Defaulted, Settled, Exported, ByUser

LEMMA ParsedStep == FrontEndInv /\ Parsed => FrontEndInv'
  <1> SUFFICES ASSUME FrontEndInv, Parsed PROVE FrontEndInv'
    OBVIOUS
  <1>1. S!Options(Given) /\ UNCHANGED <<line, command>>
    BY DEF Parsed
  <1>2. LineType'
    BY <1>1 DEF FrontEndInv, LineType, line
  <1>3. SettingsType'
    BY <1>1 DEF FrontEndInv, SettingsType, S!Options, S!sources
  <1>4. \A n \in S!Names : shell'[n] = ByOption(n)'
    <2>1. \A n : ByOption(n)' = ByOption(n)
      BY <1>1, SameWanted DEF S!Options, S!sources, line
    <2>2. QED
      BY <1>1, <2>1 DEF FrontEndInv, Before, ByOption, S!Options
  <1>5. QED
    BY <1>1, <1>2, <1>3, <1>4 DEF FrontEndInv, Before, Defaulted, Settled, Exported, S!Options, S!sources

LEMMA ReadConfigStep ==
  FrontEndInv /\ S!ReadConfig /\ UNCHANGED <<line, command>> => FrontEndInv'
  <1> SUFFICES ASSUME FrontEndInv, S!ReadConfig, UNCHANGED <<line, command>> PROVE FrontEndInv'
    OBVIOUS
  <1>1. LineType'
    BY DEF FrontEndInv, LineType, line
  <1>2. /\ step = "config" /\ step' \in {"defaults", "aborted"}
        /\ UNCHANGED <<environment, rc, shell, exported>>
        /\ \A n \in S!Names : shell[n] = ByOption(n)
        /\ defaults = <<>>
    BY DEF S!ReadConfig, FrontEndInv, Before
  <1>3. file' \in Seq(S!Entries) /\ (config' # "there" => file' = <<>>)
    BY BasicEntries, Zenon DEF S!ReadConfig, FrontEndInv, SettingsType
  <1>4. step' = "defaults" => defaults' = S!Emitted(file')
    <2>1. CASE config \in {"no helper", "unreadable"} \/ (config = "absent" /\ directory = "impossible")
      <3>1. config # "there" /\ UNCHANGED <<file, defaults>>
        BY <2>1 DEF S!ReadConfig
      <3>2. QED
        BY <1>2, <3>1, NothingEmitted DEF FrontEndInv
    <2>2. CASE config = "absent" /\ directory # "impossible"
      BY <2>2 DEF S!ReadConfig
    <2>3. CASE config = "there"
      BY <2>3 DEF S!ReadConfig
    <2>4. QED
      BY <2>1, <2>2, <2>3 DEF S!ReadConfig
  <1>5. step' # "defaults" => defaults' = <<>>
    BY <1>2 DEF S!ReadConfig
  <1>6. defaults' \in Seq(Settable)
    BY <1>3, <1>4, <1>5, EmittedIsSettable, EmptySeq
  <1>7. SettingsType'
    BY <1>2, <1>3, <1>6 DEF FrontEndInv, SettingsType
  <1>8. step' = "defaults" => \A n : First(n, defaults') = Configured(n)'
    BY <1>4 DEF Configured
  <1>9. \A n : ByOption(n)' = ByOption(n)
    BY <1>2, SameWanted DEF line
  <1>10. \A n : Wanted(n)' = IF ByOption(n)' # "unset" THEN ByOption(n)' ELSE Configured(n)'
    BY DEF Wanted, ByOption, ByUser
  <1>11. Defaulted'
    BY <1>2, <1>8, <1>9, <1>10 DEF Defaulted
  <1>12. QED
    BY <1>1, <1>2, <1>3, <1>7, <1>11 DEF FrontEndInv, Before, Settled, Exported

LEMMA SetDefaultStep ==
  FrontEndInv /\ S!SetDefault /\ UNCHANGED <<line, command>> => FrontEndInv'
  <1> SUFFICES ASSUME FrontEndInv, S!SetDefault, UNCHANGED <<line, command>> PROVE FrontEndInv'
    OBVIOUS
  <1>1. /\ step = "defaults" /\ step' = "defaults" /\ defaults # <<>> /\ defaults' = Tail(defaults)
        /\ UNCHANGED <<environment, rc, file, config>>
    BY DEF S!SetDefault, S!sources
  <1>2. LineType'
    BY DEF FrontEndInv, LineType, line
  <1> DEFINE m == Head(defaults)[1]
             v == Head(defaults)[2]
  <1>3. m \in S!Names /\ v # "unset" /\ defaults' \in Seq(Settable)
    <2>1. Head(defaults) \in Settable /\ Tail(defaults) \in Seq(Settable)
      BY <1>1, HeadTailProperties DEF FrontEndInv, SettingsType
    <2>2. v \in Values /\ "unset" \notin Values
      BY <2>1, ValuesAssumption, Zenon DEF Settable
    <2>3. QED
      BY <1>1, <2>1, <2>2 DEF Settable
  <1>4. shell' = (IF shell[m] # "unset" THEN shell ELSE [shell EXCEPT ![m] = v])
        /\ exported' = exported \union {m}
    BY DEF S!SetDefault, S!IsSet
  <1>5. \A n \in S!Names : shell'[n] = IF n = m /\ shell[n] = "unset" THEN v ELSE shell[n]
    BY <1>3, <1>4 DEF FrontEndInv, SettingsType
  <1>6. \A n : First(n, defaults) = IF n = m THEN v ELSE First(n, defaults')
    BY <1>1, FirstOfAll DEF FrontEndInv, SettingsType
  <1>7. SettingsType'
    BY <1>1, <1>3, <1>4 DEF FrontEndInv, SettingsType
  <1>8. \A n : Wanted(n)' = Wanted(n) /\ Configured(n)' = Configured(n)
    BY <1>1, SameWanted DEF line
  <1> HIDE DEF m, v
  <1>9. Defaulted'
    <2>1. \A n \in S!Names :
             (IF shell'[n] # "unset" THEN shell'[n] ELSE First(n, defaults')) = Wanted(n)
      BY <1>1, <1>3, <1>5, <1>6 DEF FrontEndInv, Defaulted
    <2>2. \A n \in S!Names : Configured(n) # "unset" => n \in exported' \/ First(n, defaults') # "unset"
      BY <1>1, <1>4, <1>6 DEF FrontEndInv, Defaulted
    <2>3. QED
      BY <1>1, <1>8, <2>1, <2>2 DEF Defaulted
  <1>10. Exported'
    BY <1>1, <1>4 DEF FrontEndInv, Exported
  <1>11. QED
    BY <1>1, <1>2, <1>7, <1>9, <1>10 DEF FrontEndInv, Before, Settled

LEMMA BuildMessagesStep ==
  FrontEndInv /\ S!BuildMessages /\ UNCHANGED <<line, command>> => FrontEndInv'
  <1> SUFFICES ASSUME FrontEndInv, S!BuildMessages, UNCHANGED <<line, command>> PROVE FrontEndInv'
    OBVIOUS
  <1>1. /\ step = "defaults" /\ step' = "export" /\ defaults = <<>>
        /\ UNCHANGED <<environment, rc, file, config, exported, defaults>>
    BY DEF S!BuildMessages, S!sources
  <1>2. LineType'
    BY DEF FrontEndInv, LineType, line
  <1>3. \A n : First(n, <<>>) = "unset"
    <2>1. \A n : {i \in DOMAIN <<>> : <<>>[i][1] = n} = {}
      BY EmptySeq, LenProperties
    <2>2. QED
      BY <2>1 DEF First
  <1>4. \A n \in S!Names : shell[n] = Wanted(n) /\ (Configured(n) # "unset" => n \in exported)
    BY <1>1, <1>3 DEF FrontEndInv, Defaulted
  <1> DEFINE prompt == IF shell["ENTER_PROMPT"] # "unset" THEN shell["ENTER_PROMPT"]
                       ELSE IF shell["SAVER"] \in S!TrueValues THEN S!wake_key_label(shell["WAKE_KEY"])
                       ELSE "enter"
  <1>5. shell' = [shell EXCEPT !["ENTER_PROMPT"] = prompt,
                               !["ALL_MESSAGE"] = IF @ = "unset" THEN prompt ELSE @]
    BY DEF S!BuildMessages, S!IsSet
  <1>6. {"ENTER_PROMPT", "ALL_MESSAGE", "SAVER", "WAKE_KEY"} \subseteq S!Names
    BY DEF S!Names
  <1>7. prompt = PromptWanted
    BY <1>4, <1>6 DEF PromptWanted
  <1> HIDE DEF prompt
  <1>8. /\ \A n \in S!Names \ {"ENTER_PROMPT", "ALL_MESSAGE"} : shell'[n] = shell[n]
        /\ shell'["ALL_MESSAGE"] = IF shell["ALL_MESSAGE"] = "unset" THEN prompt ELSE shell["ALL_MESSAGE"]
    BY <1>5, <1>6 DEF FrontEndInv, SettingsType
  <1>9. SettingsType'
    BY <1>1, <1>5 DEF FrontEndInv, SettingsType
  <1>10. (\A n : Wanted(n)' = Wanted(n) /\ Configured(n)' = Configured(n)) /\ PromptWanted' = PromptWanted
    BY <1>1, SameWanted DEF line
  <1>11. Settled'
    <2>1. shell'["ALL_MESSAGE"] = IF Wanted("ALL_MESSAGE") # "unset" THEN Wanted("ALL_MESSAGE")
                                  ELSE PromptWanted
      BY <1>4, <1>6, <1>7, <1>8
    <2>2. QED
      BY <1>1, <1>4, <1>8, <1>10, <2>1 DEF Settled
  <1>12. QED
    BY <1>1, <1>2, <1>9, <1>11 DEF FrontEndInv, Before, Defaulted, Exported

LEMMA ExportStep ==
  FrontEndInv /\ S!Export /\ UNCHANGED <<line, command>> => FrontEndInv'
  <1> SUFFICES ASSUME FrontEndInv, S!Export, UNCHANGED <<line, command>> PROVE FrontEndInv'
    OBVIOUS
  <1>1. /\ step = "export" /\ step' = "exec"
        /\ UNCHANGED <<environment, rc, file, config, shell, defaults>>
        /\ exported' = exported \union {n \in S!Exports : shell[n] # "unset"}
    BY DEF S!Export, S!sources, S!IsSet
  <1>2. LineType' /\ SettingsType'
    BY <1>1 DEF FrontEndInv, LineType, line, SettingsType
  <1>3. (\A n : Wanted(n)' = Wanted(n) /\ Configured(n)' = Configured(n)) /\ PromptWanted' = PromptWanted
    BY <1>1, SameWanted DEF line
  <1>4. Settled'
    BY <1>1, <1>3 DEF FrontEndInv, Settled
  <1>5. Exported'
    BY <1>1 DEF FrontEndInv, Exported
  <1>6. QED
    BY <1>1, <1>2, <1>4, <1>5 DEF FrontEndInv, Before, Defaulted

LEMMA ExecStep == FrontEndInv /\ Exec => FrontEndInv'
  <1> SUFFICES ASSUME FrontEndInv, Exec PROVE FrontEndInv'
    OBVIOUS
  <1>1. /\ step = "exec" /\ step' = "running"
        /\ UNCHANGED <<environment, rc, file, config, shell, defaults, exported>>
        /\ UNCHANGED line
    BY DEF Exec, sources
  <1>2. LineType' /\ SettingsType'
    BY <1>1 DEF FrontEndInv, LineType, line, SettingsType
  <1>3. (\A n : Wanted(n)' = Wanted(n) /\ Configured(n)' = Configured(n)) /\ PromptWanted' = PromptWanted
    BY <1>1, SameWanted DEF line
  <1>4. Settled' /\ Exported'
    BY <1>1, <1>3 DEF FrontEndInv, Settled, Exported
  <1>5. ASSUME shell["PLUGINS"] \notin {"unset", ""}
        PROVE  <<shell["PLUGINS"]>> \in ToSet(command')
    <2> DEFINE own == <<shell["PLUGINS"]>>
               T == {<<"vlock-main">>, own} \union Seq({"all", "new", "nosysrq"}) \union AnyWord
    <2>1. command' = <<<<"vlock-main">>>> \o plugins \o <<own>> \o args
      BY <1>5, Zenon DEF Exec
    <2> HIDE DEF own
    <2>2. plugins \in Seq(T) /\ args \in Seq(T)
      BY SeqMonotonic DEF FrontEndInv, LineType
    <2>3. <<<<"vlock-main">>>> \in Seq(T) /\ <<own>> \in Seq(T)
      OBVIOUS
    <2> HIDE DEF T
    <2> DEFINE s == <<<<"vlock-main">>>> \o plugins
               t == s \o <<own>>
    <2>4. s \in Seq(T) /\ Len(s) \in Nat
      BY <2>2, <2>3, ConcatProperties, LenProperties
    <2> HIDE DEF s
    <2>5. t \in Seq(T) /\ Len(t) = Len(s) + 1 /\ t[Len(s) + 1] = own
      <3>1. Len(<<own>>) = 1 /\ <<own>>[1] = own
        OBVIOUS
      <3>2. QED
        BY <2>3, <2>4, <3>1, ConcatProperties
    <2> HIDE DEF t
    <2>6. t \o args \in Seq(T) /\ (t \o args)[Len(s) + 1] = own /\ Len(s) + 1 \in DOMAIN (t \o args)
      BY <2>2, <2>4, <2>5, ConcatProperties, LenProperties
    <2>7. command' = t \o args
      BY <2>1 DEF s, t
    <2>8. QED
      BY <2>6, <2>7 DEF ToSet, own
  <1>6. QED
    BY <1>1, <1>2, <1>4, <1>5, Zenon DEF FrontEndInv, Before, Defaulted

LEMMA NextInv == FrontEndInv /\ [Next]_vars => FrontEndInv'
  <1> SUFFICES ASSUME FrontEndInv, [Next]_vars PROVE FrontEndInv'
    OBVIOUS
  <1>1. CASE ReadUserSettings
    BY <1>1, UserSettingsStep
  <1>2. CASE Parse
    BY <1>2, ParseStep
  <1>3. CASE Parsed
    BY <1>3, ParsedStep
  <1>4. CASE Configure
    BY <1>4, ReadConfigStep, SetDefaultStep, BuildMessagesStep, ExportStep DEF Configure
  <1>5. CASE Exec
    BY <1>5, ExecStep
  <1>6. CASE UNCHANGED vars
    <2>1. UNCHANGED <<line, environment, rc, file, config, shell, exported, defaults, step, command>>
      BY <1>6 DEF vars, settings, sources
    <2>2. LineType' /\ SettingsType'
      BY <2>1 DEF FrontEndInv, LineType, line, SettingsType
    <2>3. /\ \A n : Wanted(n)' = Wanted(n) /\ Configured(n)' = Configured(n)
          /\ \A n : ByUser(n)' = ByUser(n) /\ ByOption(n)' = ByOption(n)
          /\ PromptWanted' = PromptWanted
      BY <2>1, SameWanted DEF line
    <2>4. Before' /\ Defaulted' /\ Settled' /\ Exported'
      BY <2>1, <2>3 DEF FrontEndInv, Before, Defaulted, Settled, Exported
    <2>5. QED
      BY <2>1, <2>2, <2>4, Zenon DEF FrontEndInv
  <1>7. QED
    BY <1>1, <1>2, <1>3, <1>4, <1>5, <1>6 DEF Next

LEMMA Invariance == Spec => []FrontEndInv
  BY InitInv, NextInv, PTL DEF Spec

(* What the program sees of a variable, once it runs.                       *)
LEMMA SeenIsWanted ==
  ASSUME FrontEndInv, step = "running"
  PROVE  /\ \A n \in S!Exports : S!Seen(n) = shell[n]
         /\ ~KeyHidden => S!Seen("WAKE_KEY") = Wanted("WAKE_KEY")
  <1>1. \A n \in S!Exports : S!Seen(n) = shell[n]
    BY DEF FrontEndInv, Exported, S!Seen
  <1>2. "WAKE_KEY" \in S!Names \ {"ENTER_PROMPT", "ALL_MESSAGE"} /\ "WAKE_KEY" \notin DOMAIN Given
    BY DEF S!Names, Given
  <1>3. shell["WAKE_KEY"] = Wanted("WAKE_KEY")
    BY <1>2 DEF FrontEndInv, Settled
  <1>4. /\ environment["WAKE_KEY"] # "unset" => "WAKE_KEY" \in exported
        /\ Configured("WAKE_KEY") # "unset" => "WAKE_KEY" \in exported
    BY <1>2 DEF FrontEndInv, Settled, Exported
  <1>5. ASSUME rc["WAKE_KEY"] = "unset", environment["WAKE_KEY"] = "unset",
               Configured("WAKE_KEY") = "unset"
        PROVE  Wanted("WAKE_KEY") = "unset"
    BY <1>2, <1>5, WantedIs DEF ByOption, ByUser
  <1>6. ~KeyHidden => S!Seen("WAKE_KEY") = Wanted("WAKE_KEY")
    BY <1>3, <1>4, <1>5 DEF KeyHidden, S!Seen
  <1>7. QED
    BY <1>1, <1>6

(* RightValueWins (vlock.sh:104-111, 340-354): whatever the command line,   *)
(* the environment, ~/.vlockrc and the configuration file say, vlock-main   *)
(* sees the value of the strongest of them that has one.                    *)
THEOREM SourcesInOrder == Spec => []RightValueWins
  <1>1. FrontEndInv => RightValueWins
    <2> SUFFICES ASSUME FrontEndInv, step = "running" PROVE RightValueWins
      BY Zenon DEF RightValueWins
    <2>1. {"SAVER", "INFO_BOX", "TIMEOUT", "TRAIN_RANDOM", "MESSAGE"} \subseteq S!Exports
          /\ "ALL_MESSAGE" \in S!Exports
      BY DEF S!Exports
    <2>2. {"SAVER", "INFO_BOX", "TIMEOUT", "TRAIN_RANDOM", "MESSAGE", "PLUGINS"}
             \subseteq S!Names \ {"ENTER_PROMPT", "ALL_MESSAGE"}
      BY DEF S!Names
    <2>3. \A n \in {"SAVER", "INFO_BOX", "TIMEOUT", "TRAIN_RANDOM", "MESSAGE"} : S!Seen(n) = Wanted(n)
      BY <2>1, <2>2, SeenIsWanted DEF FrontEndInv, Settled
    <2>4. ~KeyHidden => S!Seen("WAKE_KEY") = Wanted("WAKE_KEY")
      BY SeenIsWanted
    <2>5. Wanted("ALL_MESSAGE") # "unset" => S!Seen("ALL_MESSAGE") = Wanted("ALL_MESSAGE")
      BY <2>1, SeenIsWanted DEF FrontEndInv, Settled
    <2>6. shell["PLUGINS"] = Wanted("PLUGINS")
      BY <2>2 DEF FrontEndInv, Settled
    <2>7. Wanted("PLUGINS") \notin {"unset", ""} => <<Wanted("PLUGINS")>> \in ToSet(command)
      BY <2>6, Zenon DEF FrontEndInv
    <2>8. QED
      BY <2>3, <2>4, <2>5, <2>7, Zenon DEF RightValueWins
  <1>2. QED
    BY <1>1, Invariance, PTL

(* MessageNamesKey (vlock.sh:147-186, vlock-main.c:56-109, info_box.c:32-   *)
(* 47): the composed message and the box on the saver name the key that     *)
(* vlock-main waits for, with any settings.                                 *)
THEOREM MessageIsRight == Spec => []MessageNamesKey
  <1>1. FrontEndInv => MessageNamesKey
    <2> SUFFICES ASSUME FrontEndInv, step = "running" PROVE MessageNamesKey
      BY DEF MessageNamesKey
    <2>1. S!wake_key_name = S!wake_key_charset
      BY DEF S!wake_key_name, S!wake_key_charset
    <2>2. ASSUME \A n \in {"MESSAGE", "ALL_MESSAGE", "ENTER_PROMPT"} : Wanted(n) = "unset", ~KeyHidden
          PROVE  S!message = IF S!env_is_true("SAVER") THEN S!wake_key_charset ELSE "enter"
      <3>1. /\ {"MESSAGE", "ALL_MESSAGE", "SAVER"} \subseteq S!Exports
            /\ {"MESSAGE", "SAVER"} \subseteq S!Names \ {"ENTER_PROMPT", "ALL_MESSAGE"}
        BY DEF S!Exports, S!Names
      <3>2. /\ S!Seen("MESSAGE") = "unset" /\ S!Seen("ALL_MESSAGE") = PromptWanted
            /\ S!Seen("SAVER") = Wanted("SAVER")
        BY <2>2, <3>1, SeenIsWanted DEF FrontEndInv, Settled
      <3>3. S!Seen("WAKE_KEY") = Wanted("WAKE_KEY")
        BY <2>2, SeenIsWanted
      <3>4. S!wake_key_label(Wanted("WAKE_KEY")) = S!wake_key_charset
        BY <3>3 DEF S!wake_key_label, S!wake_key_charset
      <3>5. QED
        BY <2>2, <3>2, <3>4 DEF S!message, S!env_is_true, PromptWanted
    <2>3. QED
      BY <2>1, <2>2 DEF MessageNamesKey
  <1>2. QED
    BY <1>1, Invariance, PTL

-----------------------------------------------------------------------------
(* What a command line means, word by word and letter by letter             *)

PluginNames == {"all", "new", "nosysrq"}
Meanings == [plugins : Seq(Seq(PluginNames)),
             saver : AnyWord \union {<<"y">>, C!Unset}, timeout : AnyWord \union {C!Unset},
             info_box : AnyWord \union {C!Unset}, rest : Seq(AnyWord),
             end : {"over", "help", "error"}, awaits : {"nothing", "timeout", "info-box"},
             behind : BOOLEAN]

LEMMA NothingMeant == C!Nothing \in Meanings /\ C!Going(C!Nothing) /\ ~C!Nothing.behind
  <1>1. <<>> \in Seq(Seq(PluginNames)) /\ <<>> \in Seq(AnyWord)
    BY EmptySeq
  <1>2. QED
    BY <1>1 DEF C!Nothing, Meanings, C!Going

LEMMA AddedIsName ==
  \A option \in {"all", "new", "disable-sysrq"} : <<C!AddedPlugin[option]>> \in Seq(PluginNames)
  BY AddedIsPlugin DEF PluginNames

(* An option adds to what has been asked for, or ends it.                   *)
Flagged(m, r, option) ==
    /\ C!Going(r)
    /\ r.plugins = CASE option = "current" -> <<>>
                     [] option = "saver" -> m.plugins
                     [] OTHER -> Append(m.plugins, <<C!AddedPlugin[option]>>)
    /\ r.saver = IF option = "saver" THEN <<"y">> ELSE m.saver
Flags == {"all", "current", "new", "disable-sysrq", "saver"}
LEMMA ChosenIs ==
  ASSUME NEW m \in Meanings, C!Going(m), NEW option
  PROVE  LET r == C!Chosen(m, option) IN
         /\ r \in Meanings /\ r.rest = m.rest /\ r.behind = m.behind
         /\ r.timeout = m.timeout /\ r.info_box = m.info_box
         /\ r.end = "over" \/ r.awaits = "nothing"
         /\ option \in {"help", "version"} => r.end = "help" /\ r.awaits = "nothing"
         /\ option \in Flags => Flagged(m, r, option)
         /\ option \in C!WithArgument => r.awaits = option /\ r = [m EXCEPT !.awaits = option]
         /\ option \notin {"help", "version", "all", "current", "new", "disable-sysrq", "saver",
                           "timeout", "info-box"} => r.end = "error" /\ r.awaits = "nothing"
  <1>1. CASE option \in {"help", "version"}
    <2>1. C!Chosen(m, option) = [m EXCEPT !.end = "help"]
      BY <1>1, AddedIsPlugin DEF C!Chosen, C!WithArgument
    <2>2. QED
      BY <1>1, <2>1 DEF Meanings, C!Going, C!WithArgument, Flags, Flagged
  <1>2. CASE option = "saver"
    <2>1. C!Chosen(m, option) = [m EXCEPT !.saver = <<"y">>]
      BY <1>2, AddedIsPlugin DEF C!Chosen, C!WithArgument
    <2>2. QED
      BY <1>2, <2>1 DEF Meanings, C!Going, C!WithArgument, Flags, Flagged
  <1>3. CASE option = "current"
    <2>1. C!Chosen(m, option) = [m EXCEPT !.plugins = <<>>]
      BY <1>3, AddedIsPlugin DEF C!Chosen, C!WithArgument
    <2>2. <<>> \in Seq(Seq(PluginNames))
      BY EmptySeq
    <2>3. QED
      BY <1>3, <2>1, <2>2 DEF Meanings, C!Going, C!WithArgument, Flags, Flagged
  <1>4. CASE option \in {"all", "new", "disable-sysrq"}
    <2>1. C!Chosen(m, option) = [m EXCEPT !.plugins = Append(@, <<C!AddedPlugin[option]>>)]
      BY <1>4, AddedIsPlugin DEF C!Chosen, C!WithArgument
    <2>2. Append(m.plugins, <<C!AddedPlugin[option]>>) \in Seq(Seq(PluginNames))
      BY <1>4, AddedIsName, AppendProperties DEF Meanings
    <2>3. QED
      BY <1>4, <2>1, <2>2 DEF Meanings, C!Going, C!WithArgument, Flags, Flagged
  <1>5. CASE option \in C!WithArgument
    <2>1. C!Chosen(m, option) = [m EXCEPT !.awaits = option]
      BY <1>5, AddedIsPlugin DEF C!Chosen, C!WithArgument
    <2>2. QED
      BY <1>5, <2>1 DEF Meanings, C!Going, C!WithArgument, Flags, Flagged
  <1>6. CASE option \notin {"help", "version", "all", "current", "new", "disable-sysrq", "saver",
                            "timeout", "info-box"}
    <2>1. C!Chosen(m, option) = [m EXCEPT !.end = "error"]
      BY <1>6, AddedIsPlugin DEF C!Chosen, C!WithArgument
    <2>2. QED
      BY <1>6, <2>1 DEF Meanings, C!Going, C!WithArgument, Flags, Flagged
  <1>7. QED
    BY <1>1, <1>2, <1>3, <1>4, <1>5, <1>6 DEF C!WithArgument, Flags

LEMMA ChosenKeeps ==
  ASSUME NEW m \in Meanings, C!Going(m), NEW option
  PROVE  LET r == C!Chosen(m, option) IN
         /\ r \in Meanings /\ r.rest = m.rest /\ r.behind = m.behind
         /\ r.end = "over" \/ r.awaits = "nothing"
  BY ChosenIs

LEMMA ArgumentIs ==
  ASSUME NEW m \in Meanings, m.awaits # "nothing", NEW w \in AnyWord
  PROVE  LET r == C!Argument(m, w) IN
         /\ r \in Meanings /\ r.rest = m.rest /\ r.behind = m.behind /\ r.end = m.end
         /\ r.awaits = "nothing" /\ r.plugins = m.plugins /\ r.saver = m.saver
         /\ r.timeout = IF m.awaits = "timeout" THEN w ELSE m.timeout
         /\ r.info_box = IF m.awaits = "timeout" THEN m.info_box ELSE w
  BY DEF C!Argument, Meanings

(* The recursion of ByLetter has a solution, letter by letter.              *)
Read(l, m, w, n) == l = [k \in 1..n |-> IF k = 1 THEN m ELSE C!NextLetter(l[k - 1], w[k])]

LEMMA Readable ==
  ASSUME NEW m, NEW w \in AnyWord
  PROVE  \E l : Read(l, m, w, Len(w))
  <1> DEFINE Bad == {n \in Nat : ~\E l : Read(l, m, w, n)}
  <1>1. Bad = {}
    <2> SUFFICES ASSUME Bad # {} PROVE FALSE
      OBVIOUS
    <2>1. PICK n \in Bad : \A k \in Bad : n <= k
      BY LeastOf
    <2>2. n # 0
      <3> DEFINE z == [k \in 1..0 |-> m]
      <3>1. Read(z, m, w, 0)
        BY DEF Read
      <3>2. QED
        BY <2>1, <3>1
    <2>3. n \in Nat /\ n - 1 \in Nat /\ n - 1 \notin Bad
      BY <2>1, <2>2
    <2>4. PICK l : Read(l, m, w, n - 1)
      BY <2>3
    <2> DEFINE g == [k \in 1..n |-> IF k = n THEN (IF n = 1 THEN m ELSE C!NextLetter(l[n - 1], w[n]))
                                    ELSE l[k]]
    <2>5. \A k \in 1..n : g[k] = IF k = 1 THEN m ELSE C!NextLetter(g[k - 1], w[k])
      <3> TAKE k \in 1..n
      <3>1. CASE k = n
        <4>1. n # 1 => g[k - 1] = l[n - 1]
          BY <2>2, <2>3, <3>1
        <4>2. g[k] = IF n = 1 THEN m ELSE C!NextLetter(l[n - 1], w[n])
          BY <2>3, <3>1
        <4>3. QED
          BY <3>1, <4>1, <4>2
      <3>2. CASE k # n
        <4>1. k \in 1..n - 1
          BY <2>3, <3>2
        <4>2. l[k] = IF k = 1 THEN m ELSE C!NextLetter(l[k - 1], w[k])
          BY <2>4, <4>1 DEF Read
        <4>3. g[k] = l[k] /\ (k # 1 => g[k - 1] = l[k - 1])
          BY <2>3, <3>2, <4>1
        <4>4. QED
          BY <4>2, <4>3
      <3>3. QED
        BY <3>1, <3>2
    <2>6. Read(g, m, w, n)
      BY <2>5 DEF Read
    <2>7. QED
      BY <2>1, <2>6
  <1>2. QED
    BY <1>1, LenProperties DEF AnyWord

LEMMA LetterByLetter ==
  ASSUME NEW m, NEW w \in AnyWord, Len(w) >= 1
  PROVE  /\ C!ByLetter(m, w)[1] = m
         /\ \A k \in 2..Len(w) : C!ByLetter(m, w)[k] = C!NextLetter(C!ByLetter(m, w)[k - 1], w[k])
  <1>1. Read(C!ByLetter(m, w), m, w, Len(w))
    BY Readable DEF C!ByLetter, Read
  <1>2. Len(w) \in Nat
    BY LenProperties DEF AnyWord
  <1>3. QED
    BY <1>1, <1>2 DEF Read

(* The same for ByWord.                                                     *)
Understood(m, ws, n) == m = [k \in 0..n |-> IF k = 0 THEN C!Nothing ELSE C!Word(m[k - 1], ws[k])]

LEMMA Understandable ==
  ASSUME NEW ws \in Seq(AnyWord)
  PROVE  \E m : Understood(m, ws, Len(ws))
  <1> DEFINE Bad == {n \in Nat : ~\E m : Understood(m, ws, n)}
  <1>1. Bad = {}
    <2> SUFFICES ASSUME Bad # {} PROVE FALSE
      OBVIOUS
    <2>1. PICK n \in Bad : \A k \in Bad : n <= k
      BY LeastOf
    <2>2. n # 0
      <3> DEFINE z == [k \in 0..0 |-> IF k = 0 THEN C!Nothing ELSE C!Nothing]
      <3>1. Understood(z, ws, 0)
        BY DEF Understood
      <3>2. QED
        BY <2>1, <3>1
    <2>3. n \in Nat /\ n - 1 \in Nat /\ n - 1 \notin Bad
      BY <2>1, <2>2
    <2>4. PICK m : Understood(m, ws, n - 1)
      BY <2>3
    <2> DEFINE g == [k \in 0..n |-> IF k = n THEN C!Word(m[n - 1], ws[n]) ELSE m[k]]
    <2>5. \A k \in 0..n : g[k] = IF k = 0 THEN C!Nothing ELSE C!Word(g[k - 1], ws[k])
      <3> TAKE k \in 0..n
      <3>1. CASE k = n
        <4>1. k # 0 /\ k - 1 \in 0..n /\ k - 1 # n
          BY <2>2, <2>3, <3>1
        <4>2. g[k - 1] = m[n - 1] /\ g[k] = C!Word(m[n - 1], ws[n])
          BY <2>3, <3>1, <4>1
        <4>3. QED
          BY <3>1, <4>1, <4>2
      <3>2. CASE k # n
        <4>1. k \in 0..n - 1
          BY <2>3, <3>2
        <4>2. m[k] = IF k = 0 THEN C!Nothing ELSE C!Word(m[k - 1], ws[k])
          BY <2>4, <4>1 DEF Understood
        <4>3. g[k] = m[k] /\ (k # 0 => g[k - 1] = m[k - 1])
          BY <2>3, <3>2, <4>1
        <4>4. QED
          BY <4>2, <4>3
      <3>3. QED
        BY <3>1, <3>2
    <2>6. Understood(g, ws, n)
      BY <2>5 DEF Understood
    <2>7. QED
      BY <2>1, <2>6
  <1>2. QED
    BY <1>1, LenProperties

LEMMA WordByWord ==
  ASSUME NEW ws \in Seq(AnyWord)
  PROVE  /\ C!ByWord(ws)[0] = C!Nothing
         /\ \A n \in 1..Len(ws) : C!ByWord(ws)[n] = C!Word(C!ByWord(ws)[n - 1], ws[n])
  <1>1. Understood(C!ByWord(ws), ws, Len(ws))
    BY Understandable DEF C!ByWord, Understood
  <1>2. Len(ws) \in Nat
    BY LenProperties
  <1>3. QED
    BY <1>1, <1>2 DEF Understood
-----------------------------------------------------------------------------
(* What is where while the command line is taken apart                      *)

Reads(m) == <<plugins, saver, timeout, info_box>> = <<m.plugins, m.saver, m.timeout, m.info_box>>
ReadsNext(m) ==
    <<plugins', saver', timeout', info_box'>> = <<m.plugins, m.saver, m.timeout, m.info_box>>
Ahead(n) == SubSeq(words, n + 1, Len(words))
(* The words that are no options, at the end of the arguments.              *)
Moved(rest) == IF rest = <<>> THEN <<>>
               ELSE IF <<"--">> \in ToSet(words) THEN rest ELSE <<<<"--">>>> \o rest

(* What is left of a cluster, from its letter k.                            *)
Remaining(w, k) ==
    IF C!ArgumentLetter(w) = 0 THEN C!Letters(w, k, Len(w))
    ELSE C!Letters(w, k, C!ArgumentLetter(w) - 1) \o <<<<"-", "t">>, SubSeq(w, C!ArgumentLetter(w) + 1, Len(w))>>

(* Between two words, in a cluster, or at the argument of a long option.    *)
BetweenWords(n, m) == args = Ahead(n) \o Moved(m.rest) /\ Reads(m)
InCluster(n, m, k) ==
    LET w == words[n + 1]
        l == C!ByLetter(m, w)[k - 1]
    IN  /\ C!IsCluster(w) /\ k \in 2..Len(w)
        /\ C!Going(l) /\ l.rest = m.rest /\ ~l.behind
        /\ args = Remaining(w, k) \o (Ahead(n + 1) \o Moved(m.rest)) /\ Reads(l)
        /\ C!ArgumentLetter(w) # 0 => k <= C!ArgumentLetter(w)
AtAssigned(n, m) ==
    LET w == words[n + 1]
    IN  /\ C!IsAssigned(w) /\ C!MayHaveArgument(w)
        /\ args = <<<<"--", w[2]>>, C!ArgumentOf(w)>> \o (Ahead(n + 1) \o Moved(m.rest))
        /\ Reads(m)
Reading(n) ==
    LET m == C!ByWord(words)[n]
    IN  /\ m \in Meanings /\ C!Going(m) /\ ~m.behind /\ (m.rest = <<>> => ~has_double_dash)
        /\ \A i \in 1..n : words[i] # <<"--">>
        /\ \/ BetweenWords(n, m)
           \/ n < Len(words) /\ \E k \in 2..Len(words[n + 1]) : InCluster(n, m, k)
           \/ n < Len(words) /\ AtAssigned(n, m)
ReadingInv ==
    C!Ordinary(words) =>
        /\ parsing = "on" => \E n \in 0..Len(words) : Reading(n)
        /\ ParsedAsMeant

LEMMA HeadTailOfConcat ==
  ASSUME NEW T, NEW s \in Seq(T), NEW t \in Seq(T), s # <<>>
  PROVE  /\ s \o t \in Seq(T) /\ s \o t # <<>>
         /\ Head(s \o t) = Head(s) /\ Tail(s \o t) = Tail(s) \o t
  <1>1. Len(s) \in Nat /\ Len(s) >= 1 /\ Len(t) \in Nat
    BY LenProperties, EmptySeq
  <1>2. /\ s \o t \in Seq(T) /\ Len(s \o t) = Len(s) + Len(t)
        /\ \A i \in 1..Len(s) + Len(t) : (s \o t)[i] = IF i <= Len(s) THEN s[i] ELSE t[i - Len(s)]
    BY ConcatProperties
  <1>3. s \o t # <<>>
    BY <1>1, <1>2, EmptySeq
  <1>4. Head(s \o t) = Head(s)
    BY <1>1, <1>2, <1>3, HeadTailProperties
  <1>5. /\ Tail(s \o t) \in Seq(T) /\ Len(Tail(s \o t)) = Len(s) + Len(t) - 1
        /\ \A i \in 1..Len(s) + Len(t) - 1 : Tail(s \o t)[i] = (s \o t)[i + 1]
    BY <1>1, <1>2, <1>3, HeadTailProperties
  <1>6. /\ Tail(s) \in Seq(T) /\ Len(Tail(s)) = Len(s) - 1
        /\ \A i \in 1..Len(s) - 1 : Tail(s)[i] = s[i + 1]
    BY <1>1, HeadTailProperties
  <1>7. /\ Tail(s) \o t \in Seq(T) /\ Len(Tail(s) \o t) = Len(s) - 1 + Len(t)
        /\ \A i \in 1..Len(s) - 1 + Len(t) :
              (Tail(s) \o t)[i] = IF i <= Len(s) - 1 THEN Tail(s)[i] ELSE t[i - (Len(s) - 1)]
    BY <1>6, ConcatProperties
  <1>8. \A i \in 1..Len(s) + Len(t) - 1 : Tail(s \o t)[i] = (Tail(s) \o t)[i]
    <2> TAKE i \in 1..Len(s) + Len(t) - 1
    <2>1. i \in Nat /\ i + 1 \in 1..Len(s) + Len(t) /\ i \in 1..Len(s) - 1 + Len(t)
      BY <1>1
    <2>2. Tail(s \o t)[i] = IF i + 1 <= Len(s) THEN s[i + 1] ELSE t[i + 1 - Len(s)]
      BY <1>2, <1>5, <2>1
    <2>3. CASE i <= Len(s) - 1
      <3>1. i \in 1..Len(s) - 1 /\ i + 1 <= Len(s)
        BY <1>1, <2>1, <2>3
      <3>2. QED
        BY <1>6, <1>7, <2>1, <2>2, <2>3, <3>1
    <2>4. CASE ~(i <= Len(s) - 1)
      <3>1. ~(i + 1 <= Len(s)) /\ i + 1 - Len(s) = i - (Len(s) - 1)
        BY <1>1, <2>1, <2>4
      <3>2. QED
        BY <1>7, <2>1, <2>2, <2>4, <3>1
    <2>5. QED
      BY <2>3, <2>4
  <1>9. Len(Tail(s \o t)) = Len(Tail(s) \o t)
    BY <1>1, <1>5, <1>7
  <1>10. Tail(s \o t) = Tail(s) \o t
    BY <1>5, <1>7, <1>8, <1>9, SeqEqual
  <1>11. QED
    BY <1>2, <1>3, <1>4, <1>10

LEMMA ConcatAppend ==
  ASSUME NEW T, NEW a \in Seq(T), NEW b \in Seq(T), NEW x \in T
  PROVE  Append(a \o b, x) = a \o (b \o <<x>>)
  <1> DEFINE c == <<x>>
  <1>1. Append(a \o b, x) = (a \o b) \o c
    BY AppendIsConcat, ConcatProperties
  <1>2. c \in Seq(T)
    OBVIOUS
  <1> HIDE DEF c
  <1>3. (a \o b) \o c = a \o (b \o c)
    BY <1>2, ConcatAssociative
  <1>4. QED
    BY <1>1, <1>3 DEF c

(* The letters of a cluster: each is asked for until one ends it or awaits  *)
(* its argument.                                                            *)
LEMMA LettersMean ==
  ASSUME NEW m \in Meanings, C!Going(m), NEW w \in AnyWord, Len(w) >= 1, NEW k \in 1..Len(w)
  PROVE  LET l == C!ByLetter(m, w) IN
         /\ l[k] \in Meanings /\ l[k].rest = m.rest /\ l[k].behind = m.behind
         /\ l[k].end = "over" \/ l[k].awaits = "nothing"
  <1> DEFINE l == C!ByLetter(m, w)
             Good(j) == /\ l[j] \in Meanings /\ l[j].rest = m.rest /\ l[j].behind = m.behind
                        /\ l[j].end = "over" \/ l[j].awaits = "nothing"
             Bad == {j \in 1..Len(w) : ~Good(j)}
  <1>1. Len(w) \in Nat
    BY LenProperties DEF AnyWord
  <1>2. l[1] = m /\ \A j \in 2..Len(w) : l[j] = C!NextLetter(l[j - 1], w[j])
    BY LetterByLetter
  <1> HIDE DEF l
  <1>3. Good(1)
    BY <1>2 DEF C!Going
  <1>4. ASSUME NEW j \in 2..Len(w), Good(j - 1) PROVE Good(j)
    <2>1. l[j] = C!NextLetter(l[j - 1], w[j])
      BY <1>2
    <2>2. CASE C!Going(l[j - 1])
      <3>1. l[j] = C!Chosen(l[j - 1], C!Option(<<"-", w[j]>>))
        BY <2>1, <2>2 DEF C!NextLetter
      <3> DEFINE o == C!Option(<<"-", w[j]>>)
      <3> HIDE DEF o
      <3>2. l[j] = C!Chosen(l[j - 1], o)
        BY <3>1 DEF o
      <3> DEFINE p == l[j - 1]
                 r == C!Chosen(p, o)
      <3>3. p \in Meanings /\ C!Going(p)
        BY <1>4, <2>2
      <3> HIDE DEF p
      <3>4. r \in Meanings /\ r.rest = p.rest /\ r.behind = p.behind /\ (r.end = "over" \/ r.awaits = "nothing")
        BY <3>3, ChosenKeeps
      <3> HIDE DEF r
      <3>5. l[j] = r
        BY <3>2 DEF p, r
      <3>6. QED
        BY <1>4, <3>4, <3>5 DEF p
    <2>3. CASE ~C!Going(l[j - 1])
      BY <1>4, <2>1, <2>3 DEF C!NextLetter
    <2>4. QED
      BY <2>2, <2>3
  <1>5. Bad = {}
    <2> SUFFICES ASSUME Bad # {} PROVE FALSE
      OBVIOUS
    <2>1. Bad \in SUBSET Nat
      BY <1>1
    <2>2. PICK j \in Bad : \A i \in Bad : j <= i
      BY <2>1, LeastOf
    <2>3. j \in 1..Len(w) /\ ~Good(j)
      BY <2>2
    <2>4. j # 1
      BY <1>3, <2>3
    <2>5. j \in 2..Len(w) /\ j - 1 \in 1..Len(w) /\ j - 1 \notin Bad
      BY <1>1, <2>2, <2>3, <2>4
    <2>6. Good(j - 1)
      BY <2>5
    <2>7. QED
      BY <1>4, <2>3, <2>5, <2>6
  <1>6. QED
    BY <1>5 DEF l

LEMMA LettersStay ==
  ASSUME NEW m, NEW w \in AnyWord, Len(w) >= 1,
         NEW k \in 1..Len(w), ~C!Going(C!ByLetter(m, w)[k])
  PROVE  C!ByLetter(m, w)[Len(w)] = C!ByLetter(m, w)[k]
  <1> DEFINE l == C!ByLetter(m, w)
             Bad == {j \in k..Len(w) : l[j] # l[k]}
  <1>1. Len(w) \in Nat
    BY LenProperties DEF AnyWord
  <1>2. \A j \in 2..Len(w) : l[j] = C!NextLetter(l[j - 1], w[j])
    BY LetterByLetter
  <1>3. ~C!Going(l[k])
    OBVIOUS
  <1> HIDE DEF l
  <1>4. Bad = {}
    <2> SUFFICES ASSUME Bad # {} PROVE FALSE
      OBVIOUS
    <2>1. Bad \in SUBSET Nat
      BY <1>1
    <2>2. PICK j \in Bad : \A i \in Bad : j <= i
      BY <2>1, LeastOf
    <2>3. j \in 2..Len(w) /\ j - 1 \in k..Len(w) /\ j - 1 \notin Bad
      BY <1>1, <2>2
    <2>4. l[j - 1] = l[k]
      BY <2>3
    <2>5. l[j] = l[k]
      BY <1>2, <1>3, <2>3, <2>4 DEF C!NextLetter
    <2>6. QED
      BY <2>2, <2>5
  <1>5. QED
    BY <1>1, <1>4 DEF l

(* What a word that is read adds to the meaning.                            *)
LEMMA KindsOfWords ==
  ASSUME NEW w \in AnyWord
  PROVE  /\ C!IsPlain(w) => ~C!IsDashes(w) /\ ~C!IsOption(w) /\ ~C!IsCluster(w) /\ ~C!IsAssigned(w)
         /\ C!IsDashes(w) => ~C!IsOption(w) /\ ~C!IsCluster(w) /\ ~C!IsAssigned(w)
         /\ C!IsOption(w) => ~C!IsCluster(w) /\ ~C!IsAssigned(w)
         /\ C!IsCluster(w) => ~C!IsAssigned(w)
  <1>1. Len(w) \in Nat /\ Len(<<>>) = 0 /\ Len(<<"-">>) = 1 /\ Len(<<"--">>) = 1 /\ <<"--">>[1] = "--"
    BY LenProperties DEF AnyWord
  <1>2. C!IsPlain(w) => w \in {<<>>, <<"-">>} \/ w[1] \notin {"-", "--"}
    BY DEF C!IsPlain
  <1>3. C!IsPlain(w) => Len(w) <= 1 \/ w[1] \notin {"-", "--"}
    BY <1>1, <1>2
  <1>4. C!IsPlain(w) => w # <<"--">>
    BY <1>1, <1>2
  <1>5. C!IsPlain(w) => ~C!IsDashes(w) /\ ~C!IsOption(w) /\ ~C!IsCluster(w) /\ ~C!IsAssigned(w)
    <2>1. C!IsOption(w) \/ C!IsCluster(w) \/ C!IsAssigned(w) => Len(w) >= 2 /\ w[1] \in {"-", "--"}
      BY <1>1 DEF C!IsOption, C!IsCluster, C!IsAssigned
    <2>2. QED
      BY <1>1, <1>3, <1>4, <2>1 DEF C!IsDashes
  <1>6. C!IsDashes(w) => ~C!IsOption(w) /\ ~C!IsCluster(w) /\ ~C!IsAssigned(w)
    BY <1>1 DEF C!IsDashes, C!IsOption, C!IsCluster, C!IsAssigned
  <1>7. C!IsOption(w) => ~C!IsCluster(w) /\ ~C!IsAssigned(w)
    <2>1. C!IsAssigned(w) => Len(w) > 3
      BY DEF C!IsAssigned
    <2>2. C!IsOption(w) => Len(w) = 2 \/ (w[1] = "--" /\ ~C!IsAssigned(w))
      BY DEF C!IsOption
    <2>3. C!IsCluster(w) => Len(w) > 2 /\ w[1] = "-"
      BY DEF C!IsCluster
    <2>4. CASE Len(w) = 2
      <3>1. ~(2 > 3) /\ ~(2 > 2)
        OBVIOUS
      <3>2. QED
        BY <2>1, <2>3, <2>4, <3>1
    <2>5. CASE w[1] = "--" /\ ~C!IsAssigned(w)
      BY <2>3, <2>5
    <2>6. QED
      BY <2>2, <2>4, <2>5
  <1>8. C!IsCluster(w) => ~C!IsAssigned(w)
    BY <1>1 DEF C!IsCluster, C!IsAssigned
  <1>9. QED
    BY <1>5, <1>6, <1>7, <1>8

LEMMA WordIs ==
  ASSUME NEW m \in Meanings, C!Going(m), ~m.behind, NEW w \in AnyWord
  PROVE  /\ C!IsPlain(w) => C!Word(m, w) = [m EXCEPT !.rest = Append(@, w)]
         /\ C!IsDashes(w) => C!Word(m, w) = [m EXCEPT !.behind = TRUE]
         /\ C!IsOption(w) => C!Word(m, w) = C!Chosen(m, C!Option(w))
         /\ C!IsCluster(w) => C!Word(m, w) = C!Letter(m, w)
         /\ C!IsAssigned(w) => C!Word(m, w) = IF C!MayHaveArgument(w)
                                              THEN C!Argument(C!Chosen(m, w[2]), C!ArgumentOf(w))
                                              ELSE [m EXCEPT !.end = "error"]
  BY KindsOfWords DEF C!Word, C!Going

LEMMA EndedStays ==
  ASSUME NEW ws \in Seq(AnyWord), NEW n \in 0..Len(ws),
         C!ByWord(ws)[n].end # "over", C!ByWord(ws)[n].awaits = "nothing"
  PROVE  C!Meant(ws) = C!ByWord(ws)[n]
  <1> DEFINE m == C!ByWord(ws)
             Bad == {j \in n..Len(ws) : m[j] # m[n]}
  <1>1. Len(ws) \in Nat
    BY LenProperties
  <1>2. \A j \in 1..Len(ws) : m[j] = C!Word(m[j - 1], ws[j])
    BY WordByWord
  <1>3. m[n].end # "over" /\ m[n].awaits = "nothing"
    OBVIOUS
  <1>4. C!Meant(ws) = IF m[Len(ws)].awaits = "nothing" THEN m[Len(ws)]
                      ELSE [m[Len(ws)] EXCEPT !.end = "error"]
    BY DEF C!Meant
  <1> HIDE DEF m
  <1>5. Bad = {}
    <2> SUFFICES ASSUME Bad # {} PROVE FALSE
      OBVIOUS
    <2>1. Bad \in SUBSET Nat
      BY <1>1
    <2>2. PICK j \in Bad : \A i \in Bad : j <= i
      BY <2>1, LeastOf
    <2>3. j \in 1..Len(ws) /\ j - 1 \in n..Len(ws) /\ j - 1 \notin Bad
      BY <1>1, <2>2
    <2>4. m[j - 1] = m[n]
      BY <2>3
    <2>5. m[j] = m[n]
      BY <1>2, <1>3, <2>3, <2>4 DEF C!Word
    <2>6. QED
      BY <2>2, <2>5
  <1>6. m[Len(ws)] = m[n]
    BY <1>1, <1>5
  <1>7. QED
    BY <1>3, <1>4, <1>6 DEF m

LEMMA BehindStays ==
  ASSUME NEW ws \in Seq(AnyWord), NEW n \in 0..Len(ws), C!ByWord(ws)[n] \in Meanings,
         C!Going(C!ByWord(ws)[n]), C!ByWord(ws)[n].behind
  PROVE  C!Meant(ws) = [C!ByWord(ws)[n] EXCEPT !.rest = @ \o SubSeq(ws, n + 1, Len(ws))]
  <1> DEFINE m == C!ByWord(ws)
             After(j) == [m[n] EXCEPT !.rest = m[n].rest \o SubSeq(ws, n + 1, j)]
             Bad == {j \in n..Len(ws) : m[j] # After(j)}
  <1>1. Len(ws) \in Nat
    BY LenProperties
  <1>2. \A j \in 1..Len(ws) : m[j] = C!Word(m[j - 1], ws[j])
    BY WordByWord
  <1>3. m[n] \in Meanings /\ C!Going(m[n]) /\ m[n].behind
    OBVIOUS
  <1>4. C!Meant(ws) = IF m[Len(ws)].awaits = "nothing" THEN m[Len(ws)]
                      ELSE [m[Len(ws)] EXCEPT !.end = "error"]
    BY DEF C!Meant
  <1> HIDE DEF m
  <1>5. m[n].rest \in Seq(AnyWord)
    BY <1>3 DEF Meanings
  <1>6. \A j \in n..Len(ws) : SubSeq(ws, n + 1, j) \in Seq(AnyWord)
    <2> TAKE j \in n..Len(ws)
    <2>1. \A i \in n + 1..j : ws[i] \in AnyWord
      BY <1>1, ElementOfSeq
    <2>2. QED
      BY <1>1, <2>1, SubSeqProperties
  <1> HIDE DEF After
  <1>7. Bad = {}
    <2> SUFFICES ASSUME Bad # {} PROVE FALSE
      OBVIOUS
    <2>1. Bad \in SUBSET Nat
      BY <1>1
    <2>2. PICK j \in Bad : \A i \in Bad : j <= i
      BY <2>1, LeastOf
    <2>3. j # n
      <3>1. SubSeq(ws, n + 1, n) = <<>>
        BY <1>1, SubSeqEmpty
      <3>2. m[n].rest \o <<>> = m[n].rest
        BY <1>5, ConcatEmptySeq
      <3>3. After(n) = m[n]
        BY <1>3, <3>1, <3>2 DEF Meanings, After
      <3>4. QED
        BY <2>2, <3>3
    <2>4. /\ j \in Nat /\ n \in Nat /\ j >= n + 1
          /\ j \in 1..Len(ws) /\ j - 1 \in n..Len(ws) /\ j - 1 \notin Bad
      BY <1>1, <2>2, <2>3
    <2>5. m[j - 1] = After(j - 1)
      BY <2>4
    <2>6. m[j] = [m[j - 1] EXCEPT !.rest = Append(@, ws[j])]
      <3>1. m[j - 1].end = "over" /\ m[j - 1].awaits = "nothing" /\ m[j - 1].behind
        BY <1>3, <2>5 DEF Meanings, C!Going, After
      <3>2. QED
        BY <1>2, <2>4, <3>1 DEF C!Word
    <2>7. m[j - 1].rest = m[n].rest \o SubSeq(ws, n + 1, j - 1)
      BY <1>3, <2>5 DEF Meanings, After
    <2>8. Append(m[j - 1].rest, ws[j]) = m[n].rest \o SubSeq(ws, n + 1, j)
      <3> DEFINE a == m[n].rest
                 b == SubSeq(ws, n + 1, j - 1)
      <3>1. ws[j] \in AnyWord
        BY <2>4, ElementOfSeq
      <3>2. b \in Seq(AnyWord)
        BY <1>6, <2>4
      <3>3. SubSeq(ws, n + 1, j) = b \o <<ws[j]>>
        <4>1. n + 1 \in 1..Len(ws) /\ j \in n + 1..Len(ws)
          BY <1>1, <2>4
        <4>2. QED
          BY <4>1, SubSeqRecursiveSecond
      <3>4. a \in Seq(AnyWord)
        BY <1>5
      <3> HIDE DEF a, b
      <3>5. Append(a \o b, ws[j]) = a \o (b \o <<ws[j]>>)
        BY <3>1, <3>2, <3>4, ConcatAppend
      <3>6. QED
        BY <2>7, <3>3, <3>5 DEF a, b
    <2>9. m[j] = After(j)
      <3>1. m[j] = [m[n] EXCEPT !.rest = Append(m[j - 1].rest, ws[j])]
        BY <1>3, <2>5, <2>6 DEF Meanings, After
      <3>2. QED
        BY <2>8, <3>1 DEF After
    <2>10. QED
      BY <2>2, <2>9
  <1>8. m[Len(ws)] = After(Len(ws))
    BY <1>1, <1>7
  <1>9. m[Len(ws)].awaits = "nothing"
    BY <1>3, <1>8 DEF Meanings, C!Going, After
  <1>10. QED
    BY <1>4, <1>8, <1>9 DEF m, After

LEMMA Regroup == \A a, b, c \in Seq(AnyWord) : (a \o b) \o c = a \o (b \o c)
  BY ConcatAssociative

LEMMA OneInFront ==
  ASSUME NEW T, NEW a \in T, NEW x \in Seq(T)
  PROVE  /\ <<a>> \o x \in Seq(T) /\ <<a>> \o x # <<>>
         /\ Head(<<a>> \o x) = a /\ Tail(<<a>> \o x) = x
         /\ Len(<<a>> \o x) = Len(x) + 1
         /\ x # <<>> => (<<a>> \o x)[2] = Head(x) /\ Len(<<a>> \o x) # 1
  <1> DEFINE s == <<a>>
  <1>1. s \in Seq(T) /\ s # <<>> /\ Head(s) = a /\ Tail(s) = <<>> /\ Len(s) = 1
    OBVIOUS
  <1> HIDE DEF s
  <1>2. /\ s \o x \in Seq(T) /\ s \o x # <<>> /\ Head(s \o x) = a /\ Tail(s \o x) = <<>> \o x
    BY <1>1, HeadTailOfConcat
  <1>3. <<>> \o x = x
    BY ConcatEmptySeq
  <1>4. /\ Len(s \o x) = 1 + Len(x)
        /\ \A i \in 1..1 + Len(x) : (s \o x)[i] = IF i <= 1 THEN s[i] ELSE x[i - 1]
    BY <1>1, ConcatProperties
  <1>5. x # <<>> => Len(x) \in Nat /\ Len(x) >= 1 /\ Head(x) = x[1]
    BY LenProperties, EmptySeq
  <1>6. x # <<>> => (s \o x)[2] = Head(x) /\ Len(s \o x) # 1
    BY <1>4, <1>5
  <1>7. Len(x) \in Nat
    BY LenProperties
  <1>8. QED
    BY <1>2, <1>3, <1>4, <1>6, <1>7 DEF s

LEMMA TwoInFront ==
  ASSUME NEW T, NEW a \in T, NEW b \in T, NEW x \in Seq(T)
  PROVE  /\ <<a, b>> \o x \in Seq(T) /\ <<a, b>> \o x # <<>>
         /\ Head(<<a, b>> \o x) = a /\ (<<a, b>> \o x)[2] = b
         /\ Tail(Tail(<<a, b>> \o x)) = x /\ Len(<<a, b>> \o x) # 1
  <1> DEFINE s == <<a, b>>
             t == <<b>>
  <1>1. /\ s \in Seq(T) /\ s # <<>> /\ Head(s) = a /\ Tail(s) = t /\ Len(s) = 2 /\ s[2] = b
        /\ t \in Seq(T)
    OBVIOUS
  <1> HIDE DEF s, t
  <1>2. /\ s \o x \in Seq(T) /\ s \o x # <<>> /\ Head(s \o x) = a /\ Tail(s \o x) = t \o x
    BY <1>1, HeadTailOfConcat
  <1>3. Tail(t \o x) = x
    BY OneInFront DEF t
  <1>4. /\ Len(s \o x) = Len(s) + Len(x)
        /\ \A i \in 1..Len(s) + Len(x) : (s \o x)[i] = IF i <= Len(s) THEN s[i] ELSE x[i - Len(s)]
    <2>1. s \in Seq(T)
      BY <1>1
    <2>2. QED
      BY <2>1, ConcatProperties
  <1>5. Len(x) \in Nat
    BY LenProperties
  <1>6. QED
    BY <1>1, <1>2, <1>3, <1>4, <1>5 DEF s

LEMMA DashesAreWord == <<"--">> \in AnyWord
  BY CommandLinesAssumption DEF AnyWord

LEMMA MovedWords ==
  ASSUME NEW rest \in Seq(AnyWord)
  PROVE  Moved(rest) \in Seq(AnyWord)
  <1>1. <<<<"--">>>> \o rest \in Seq(AnyWord)
    BY DashesAreWord, OneInFront
  <1>2. QED
    BY <1>1, EmptySeq DEF Moved

LEMMA AheadWords ==
  ASSUME words \in Seq(AnyWord), NEW n \in 0..Len(words)
  PROVE  /\ Ahead(n) \in Seq(AnyWord) /\ Ahead(Len(words)) = <<>>
         /\ n < Len(words) => /\ words[n + 1] \in AnyWord
                              /\ Ahead(n) = <<words[n + 1]>> \o Ahead(n + 1)
  <1>1. Len(words) \in Nat
    BY LenProperties
  <1>2. \A i \in n + 1..Len(words) : words[i] \in AnyWord
    BY <1>1, ElementOfSeq
  <1>3. Ahead(n) \in Seq(AnyWord)
    BY <1>1, <1>2, SubSeqProperties DEF Ahead
  <1>4. Ahead(Len(words)) = <<>>
    BY <1>1, SubSeqEmpty DEF Ahead
  <1>5. n < Len(words) => Ahead(n) = <<words[n + 1]>> \o Ahead(n + 1)
    <2> SUFFICES ASSUME n < Len(words) PROVE Ahead(n) = <<words[n + 1]>> \o Ahead(n + 1)
      OBVIOUS
    <2>1. n + 1 \in 1..Len(words) /\ Len(words) \in n + 1..Len(words)
      BY <1>1
    <2>2. SubSeq(words, n + 1, Len(words)) = <<words[n + 1]>> \o SubSeq(words, n + 1 + 1, Len(words))
      BY <2>1, SubSeqRecursiveFirst
    <2>3. QED
      BY <2>2 DEF Ahead
  <1>6. QED
    BY <1>1, <1>2, <1>3, <1>4, <1>5

(* The arguments between two words.                                         *)
LEMMA AtWord ==
  ASSUME LineType, NEW n \in 0..Len(words), n < Len(words), NEW m \in Meanings, BetweenWords(n, m)
  PROVE  /\ words[n + 1] \in AnyWord
         /\ Ahead(n + 1) \in Seq(AnyWord) /\ Moved(m.rest) \in Seq(AnyWord)
         /\ Ahead(n + 1) \o Moved(m.rest) \in Seq(AnyWord)
         /\ args = <<words[n + 1]>> \o (Ahead(n + 1) \o Moved(m.rest))
         /\ args # <<>> /\ Head(args) = words[n + 1]
         /\ Tail(args) = Ahead(n + 1) \o Moved(m.rest)
  <1>1. n + 1 \in 0..Len(words)
    BY LenProperties DEF LineType
  <1>2. Moved(m.rest) \in Seq(AnyWord)
    BY MovedWords DEF Meanings
  <1>3. /\ words[n + 1] \in AnyWord /\ Ahead(n + 1) \in Seq(AnyWord)
        /\ Ahead(n) = <<words[n + 1]>> \o Ahead(n + 1)
    BY <1>1, AheadWords DEF LineType
  <1> DEFINE s == <<words[n + 1]>>
             a == Ahead(n + 1)
             v == Moved(m.rest)
  <1>4. s \in Seq(AnyWord)
    BY <1>3
  <1> HIDE DEF s
  <1>5. (s \o a) \o v = s \o (a \o v)
    BY <1>2, <1>3, <1>4, Regroup
  <1>6. a \o v \in Seq(AnyWord)
    BY <1>2, <1>3, ConcatProperties
  <1>7. args = s \o (a \o v)
    BY <1>3, <1>5 DEF BetweenWords, s
  <1>8. QED
    BY <1>2, <1>3, <1>6, <1>7, OneInFront DEF s

LEMMA AtEnd ==
  ASSUME LineType, NEW m \in Meanings, BetweenWords(Len(words), m),
         \A i \in 1..Len(words) : words[i] # <<"--">>
  PROVE  /\ <<"--">> \notin ToSet(words)
         /\ args = IF m.rest = <<>> THEN <<>> ELSE <<<<"--">>>> \o m.rest
         /\ m.rest # <<>> => args # <<>> /\ Head(args) = <<"--">> /\ Tail(args) = m.rest
  <1>1. <<"--">> \notin ToSet(words)
    BY LenProperties DEF ToSet, LineType
  <1>2. m.rest \in Seq(AnyWord) /\ Moved(m.rest) \in Seq(AnyWord)
    BY MovedWords DEF Meanings
  <1>3. Ahead(Len(words)) = <<>>
    <2>1. Len(words) \in 0..Len(words)
      BY LenProperties DEF LineType
    <2>2. QED
      BY <2>1, AheadWords DEF LineType
  <1>4. args = Moved(m.rest)
    BY <1>2, <1>3, ConcatEmptySeq DEF BetweenWords
  <1>5. args = IF m.rest = <<>> THEN <<>> ELSE <<<<"--">>>> \o m.rest
    BY <1>1, <1>4 DEF Moved
  <1>6. <<<<"--">>>> \o m.rest # <<>> /\ Head(<<<<"--">>>> \o m.rest) = <<"--">>
        /\ Tail(<<<<"--">>>> \o m.rest) = m.rest
    BY <1>2, DashesAreWord, OneInFront
  <1>7. QED
    BY <1>1, <1>5, <1>6

(* The arguments when a word has been moved behind the others.              *)
LEMMA AmongBoth ==
  ASSUME NEW T, NEW s \in Seq(T), NEW t \in Seq(T), NEW x
  PROVE  x \in ToSet(s \o t) <=> x \in ToSet(s) \/ x \in ToSet(t)
  <1>1. Range(s \o t) = Range(s) \cup Range(t)
    BY RangeConcatenation
  <1>2. QED
    BY <1>1 DEF Range, ToSet

LEMMA DashesAhead ==
  ASSUME words \in Seq(AnyWord), NEW n \in 0..Len(words), \A i \in 1..n : words[i] # <<"--">>
  PROVE  <<"--">> \in ToSet(Ahead(n)) <=> <<"--">> \in ToSet(words)
  <1>1. Len(words) \in Nat
    BY LenProperties
  <1>2. \A i \in n + 1..Len(words) : words[i] \in AnyWord
    BY <1>1, ElementOfSeq
  <1>3. /\ Ahead(n) \in Seq(AnyWord)
        /\ Len(Ahead(n)) = IF n + 1 <= Len(words) THEN Len(words) - (n + 1) + 1 ELSE 0
        /\ \A i \in 1..Len(words) - (n + 1) + 1 : Ahead(n)[i] = words[n + 1 + i - 1]
    BY <1>1, <1>2, SubSeqProperties DEF Ahead
  <1>4. DOMAIN words = 1..Len(words) /\ DOMAIN Ahead(n) = 1..Len(words) - n
    <2>1. Len(Ahead(n)) = Len(words) - n
      BY <1>1, <1>3
    <2>2. QED
      BY <1>3, <2>1, LenProperties
  <1>5. ASSUME NEW i \in DOMAIN words, words[i] = <<"--">> PROVE <<"--">> \in ToSet(Ahead(n))
    <2>1. i - n \in 1..Len(words) - n /\ n + 1 + (i - n) - 1 = i
      BY <1>1, <1>4, <1>5
    <2>2. Ahead(n)[i - n] = <<"--">>
      <3>1. \A j \in 1..Len(words) - n : Ahead(n)[j] = words[n + 1 + j - 1]
        <4>1. Len(words) - (n + 1) + 1 = Len(words) - n
          BY <1>1
        <4>2. QED
          BY <1>3, <4>1
      <3> DEFINE j == i - n
      <3>2. j \in 1..Len(words) - n /\ n + 1 + j - 1 = i
        BY <2>1
      <3> HIDE DEF j
      <3>3. Ahead(n)[j] = words[i]
        BY <3>1, <3>2
      <3>4. QED
        BY <1>5, <3>3 DEF j
    <2>3. QED
      BY <1>4, <2>1, <2>2 DEF ToSet
  <1>6. ASSUME NEW i \in DOMAIN Ahead(n), Ahead(n)[i] = <<"--">> PROVE <<"--">> \in ToSet(words)
    <2>1. n + i \in DOMAIN words /\ n + 1 + i - 1 = n + i /\ i \in 1..Len(words) - (n + 1) + 1
      BY <1>1, <1>4
    <2>2. words[n + i] = <<"--">>
      BY <1>3, <1>6, <2>1
    <2>3. QED
      BY <2>1, <2>2 DEF ToSet
  <1>7. QED
    BY <1>5, <1>6 DEF ToSet

LEMMA BehindRest ==
  ASSUME NEW a \in Seq(AnyWord), NEW rest \in Seq(AnyWord), NEW one \in Seq(AnyWord)
  PROVE  ((a \o rest) \o <<>>) \o one = a \o (rest \o one)
  <1>1. (a \o rest) \o one = a \o (rest \o one)
    BY Regroup
  <1>2. a \o rest \in Seq(AnyWord)
    BY ConcatProperties
  <1>3. (a \o rest) \o <<>> = a \o rest
    BY <1>2, ConcatEmptySeq
  <1>4. QED
    BY <1>1, <1>3

LEMMA BehindNothing ==
  ASSUME NEW a \in Seq(AnyWord), NEW d \in Seq(AnyWord), NEW one \in Seq(AnyWord)
  PROVE  ((a \o <<>>) \o d) \o one = a \o (d \o (<<>> \o one))
  <1>1. (a \o d) \o one = a \o (d \o one)
    BY Regroup
  <1>2. a \o <<>> = a /\ <<>> \o one = one
    BY ConcatEmptySeq
  <1>3. QED
    BY <1>1, <1>2

LEMMA MovedBehind ==
  ASSUME words \in Seq(AnyWord), NEW n \in 0..Len(words), NEW rest \in Seq(AnyWord), NEW w \in AnyWord
  PROVE  LET a == Ahead(n)
             d == <<<<"--">>>>
             one == <<w>>
         IN  /\ ((a \o rest) \o <<>>) \o one = a \o (rest \o one)
             /\ ((a \o (d \o rest)) \o <<>>) \o one = a \o (d \o (rest \o one))
             /\ ((a \o <<>>) \o d) \o one = a \o (d \o (<<>> \o one))
  <1> DEFINE a == Ahead(n)
             d == <<<<"--">>>>
             one == <<w>>
  <1>1. a \in Seq(AnyWord)
    BY AheadWords
  <1>2. d \in Seq(AnyWord)
    BY DashesAreWord
  <1>3. one \in Seq(AnyWord)
    OBVIOUS
  <1> HIDE DEF a, d, one
  <1>4. ((a \o rest) \o <<>>) \o one = a \o (rest \o one)
    BY <1>1, <1>3, BehindRest
  <1>5. ((a \o (d \o rest)) \o <<>>) \o one = a \o (d \o (rest \o one))
    <2> DEFINE e == d \o rest
    <2>1. e \in Seq(AnyWord)
      BY <1>2, ConcatProperties
    <2>2. e \o one = d \o (rest \o one)
      BY <1>2, <1>3, Regroup
    <2> HIDE DEF e
    <2>3. ((a \o e) \o <<>>) \o one = a \o (e \o one)
      BY <1>1, <1>3, <2>1, BehindRest
    <2>4. QED
      BY <2>2, <2>3 DEF e
  <1>6. ((a \o <<>>) \o d) \o one = a \o (d \o (<<>> \o one))
    BY <1>1, <1>2, <1>3, BehindNothing
  <1>7. QED
    BY <1>4, <1>5, <1>6 DEF a, d, one

LEMMA PlainMoved ==
  ASSUME words \in Seq(AnyWord), NEW n \in 0..Len(words), n < Len(words),
         NEW w, w \in AnyWord, w = words[n + 1], w # <<"--">>,
         \A i \in 1..n + 1 : words[i] # <<"--">>,
         NEW rest \in Seq(AnyWord), rest = <<>> => ~has_double_dash,
         args = <<w>> \o (Ahead(n + 1) \o Moved(rest)), has_double_dash \in BOOLEAN,
         NEW has, has = (has_double_dash \/ <<"--">> \in ToSet(args))
  PROVE  Ahead(n + 1) \o Moved(rest) \o (IF has THEN <<>> ELSE <<<<"--">>>>) \o <<w>>
            = Ahead(n + 1) \o Moved(Append(rest, w))
  <1> DEFINE a == Ahead(n + 1)
             v == Moved(rest)
             d == <<<<"--">>>>
             one == <<w>>
             D == <<"--">> \in ToSet(words)
  <1>1. n + 1 \in 0..Len(words)
    BY LenProperties
  <1>0. /\ ((a \o rest) \o <<>>) \o one = a \o (rest \o one)
        /\ ((a \o (d \o rest)) \o <<>>) \o one = a \o (d \o (rest \o one))
        /\ ((a \o <<>>) \o d) \o one = a \o (d \o (<<>> \o one))
    BY <1>1, MovedBehind
  <1>2. a \in Seq(AnyWord) /\ v \in Seq(AnyWord) /\ d \in Seq(AnyWord) /\ one \in Seq(AnyWord)
    <2>1. a \in Seq(AnyWord)
      BY <1>1, AheadWords
    <2>2. v \in Seq(AnyWord)
      BY MovedWords
    <2>3. \A y \in AnyWord : <<y>> \in Seq(AnyWord)
      OBVIOUS
    <2>4. QED
      BY <2>1, <2>2, <2>3, DashesAreWord
  <1>3. <<"--">> \in ToSet(a) <=> D
    BY <1>1, DashesAhead
  <1>4. has = (has_double_dash \/ D \/ <<"--">> \in ToSet(v))
    <2>1. ToSet(one) = {w}
      BY DEF ToSet
    <2>2. a \o v \in Seq(AnyWord)
      BY <1>2, ConcatProperties
    <2>3. args = one \o (a \o v)
      OBVIOUS
    <2> HIDE DEF one, a, v
    <2>4. <<"--">> \in ToSet(args) <=> <<"--">> \in ToSet(one) \/ <<"--">> \in ToSet(a \o v)
      BY <1>2, <2>2, <2>3, AmongBoth
    <2>5. <<"--">> \in ToSet(a \o v) <=> <<"--">> \in ToSet(a) \/ <<"--">> \in ToSet(v)
      BY <1>2, AmongBoth
    <2>6. QED
      BY <1>3, <2>1, <2>4, <2>5
  <1>5. Append(rest, w) = rest \o one /\ Append(rest, w) # <<>> /\ rest \o one \in Seq(AnyWord)
    BY AppendIsConcat, AppendProperties
  <1>6. v = IF rest = <<>> THEN <<>> ELSE IF D THEN rest ELSE d \o rest
    BY DEF Moved
  <1>7. Moved(Append(rest, w)) = IF D THEN rest \o one ELSE d \o (rest \o one)
    BY <1>5 DEF Moved
  <1>8. d \o rest \in Seq(AnyWord) /\ <<"--">> \in ToSet(d \o rest)
    <2>1. <<"--">> \in ToSet(d)
      BY DEF ToSet
    <2> HIDE DEF d
    <2>2. QED
      BY <1>2, <2>1, AmongBoth, ConcatProperties
  <1>9. ToSet(<<>>) = {}
    BY DEF ToSet
  <1> HIDE DEF a, v, d, one, D
  <1>10. has \in BOOLEAN /\ has = (D \/ rest # <<>>)
    BY <1>4, <1>6, <1>8, <1>9
  <1>11. CASE D
    <2>1. ((a \o rest) \o <<>>) \o one = a \o (rest \o one)
      BY <1>0
    <2>2. v = rest /\ has
      BY <1>6, <1>10, <1>11
    <2>3. QED
      BY <1>7, <1>11, <2>1, <2>2 DEF a, v, d, one
  <1>12. CASE ~D /\ rest # <<>>
    <2> DEFINE e == d \o rest
    <2>1. ((a \o e) \o <<>>) \o one = a \o (d \o (rest \o one))
      BY <1>0
    <2>2. v = e /\ has
      BY <1>6, <1>10, <1>12
    <2> HIDE DEF e
    <2>3. QED
      BY <1>7, <1>12, <2>1, <2>2 DEF a, v, d, one
  <1>13. CASE ~D /\ rest = <<>>
    <2>1. ((a \o <<>>) \o d) \o one = a \o (d \o (<<>> \o one))
      BY <1>0
    <2>2. v = <<>> /\ ~has
      BY <1>6, <1>10, <1>13
    <2>3. QED
      BY <1>7, <1>13, <2>1, <2>2 DEF a, v, d, one
  <1>14. QED
    BY <1>11, <1>12, <1>13

(* Two lists one after the other have the same members in either order.     *)
At(s, x) == {i \in DOMAIN s : s[i] = x}
LEMMA SameCount ==
  ASSUME NEW T, NEW s \in Seq(T), NEW t \in Seq(T), NEW x
  PROVE  Cardinality(At(s \o t, x)) = Cardinality(At(t \o s, x))
  <1> DEFINE S1 == At(s \o t, x)
             S2 == At(t \o s, x)
             f == [i \in S1 |-> IF i <= Len(s) THEN i + Len(t) ELSE i - Len(s)]
  <1>1. Len(s) \in Nat /\ Len(t) \in Nat
    BY LenProperties
  <1>2. /\ DOMAIN (s \o t) = 1..Len(s) + Len(t)
        /\ \A i \in 1..Len(s) + Len(t) : (s \o t)[i] = IF i <= Len(s) THEN s[i] ELSE t[i - Len(s)]
    BY ConcatProperties, LenProperties
  <1>3. /\ DOMAIN (t \o s) = 1..Len(s) + Len(t)
        /\ \A i \in 1..Len(s) + Len(t) : (t \o s)[i] = IF i <= Len(t) THEN t[i] ELSE s[i - Len(t)]
    <2>1. Len(t) + Len(s) = Len(s) + Len(t)
      BY <1>1
    <2>2. QED
      BY <2>1, ConcatProperties, LenProperties
  <1>4. S1 = {i \in 1..Len(s) + Len(t) : (s \o t)[i] = x} /\ S2 = {i \in 1..Len(s) + Len(t) : (t \o s)[i] = x}
    BY <1>2, <1>3 DEF At
  <1>5. IsFiniteSet(S1)
    <2> DEFINE both == Len(s) + Len(t)
    <2>1. both \in Int /\ 1 \in Int
      BY <1>1
    <2>2. S1 \in SUBSET (1..both)
      BY <1>4
    <2> HIDE DEF both, S1
    <2>3. IsFiniteSet(1..both)
      BY <2>1, FS_Interval
    <2>4. QED
      BY <2>2, <2>3, FS_Subset
  <1> HIDE DEF S1, S2
  <1>6. \A i \in S1 : f[i] \in S2
    <2> TAKE i \in S1
    <2>1. i \in 1..Len(s) + Len(t) /\ (s \o t)[i] = x
      BY <1>4
    <2>2. CASE i <= Len(s)
      <3>1. i + Len(t) \in 1..Len(s) + Len(t) /\ ~(i + Len(t) <= Len(t)) /\ i + Len(t) - Len(t) = i
        BY <1>1, <2>1, <2>2
      <3>2. (t \o s)[i + Len(t)] = s[i] /\ s[i] = x
        BY <1>2, <1>3, <2>1, <2>2, <3>1
      <3>3. QED
        BY <1>4, <2>2, <3>1, <3>2
    <2>3. CASE ~(i <= Len(s))
      <3>1. i - Len(s) \in 1..Len(s) + Len(t) /\ i - Len(s) <= Len(t)
        BY <1>1, <2>1, <2>3
      <3>2. (t \o s)[i - Len(s)] = t[i - Len(s)] /\ t[i - Len(s)] = x
        BY <1>2, <1>3, <2>1, <2>3, <3>1
      <3>3. QED
        BY <1>4, <2>3, <3>1, <3>2
    <2>4. QED
      BY <2>2, <2>3
  <1>7. \A i, j \in S1 : f[i] = f[j] => i = j
    BY <1>1, <1>4
  <1>8. \A k \in S2 : \E i \in S1 : f[i] = k
    <2> TAKE k \in S2
    <2>1. k \in 1..Len(s) + Len(t) /\ (t \o s)[k] = x
      BY <1>4
    <2>2. CASE k <= Len(t)
      <3> DEFINE i == k + Len(s)
      <3>1. i \in 1..Len(s) + Len(t) /\ ~(i <= Len(s)) /\ i - Len(s) = k
        BY <1>1, <2>1, <2>2
      <3>2. (s \o t)[i] = t[k] /\ t[k] = x
        BY <1>2, <1>3, <2>1, <2>2, <3>1
      <3>3. i \in S1 /\ f[i] = k
        BY <1>4, <3>1, <3>2
      <3>4. QED
        BY <3>3
    <2>3. CASE ~(k <= Len(t))
      <3> DEFINE i == k - Len(t)
      <3>1. i \in 1..Len(s) + Len(t) /\ i <= Len(s) /\ i + Len(t) = k
        BY <1>1, <2>1, <2>3
      <3>2. (s \o t)[i] = s[i] /\ s[i] = x
        BY <1>2, <1>3, <2>1, <2>3, <3>1
      <3>3. i \in S1 /\ f[i] = k
        BY <1>4, <3>1, <3>2
      <3>4. QED
        BY <3>3
    <2>4. QED
      BY <2>2, <2>3
  <1>9. f \in Bijection(S1, S2)
    BY <1>6, <1>7, <1>8 DEF Bijection, Injection, Surjection, IsInjective
  <1>10. ExistsBijection(S1, S2)
    BY <1>9 DEF ExistsBijection
  <1>11. Cardinality(S2) = Cardinality(S1)
    BY <1>5, <1>10, FS_Bijection
  <1>12. QED
    BY <1>11 DEF S1, S2

LEMMA SameBag ==
  ASSUME NEW T, NEW s \in Seq(T), NEW t \in Seq(T)
  PROVE  C!ToBag(s \o t) = C!ToBag(t \o s)
  <1>1. C!Range(s \o t) = C!Range(t \o s)
    <2>1. Range(s \o t) = Range(s) \cup Range(t) /\ Range(t \o s) = Range(t) \cup Range(s)
      BY RangeConcatenation
    <2>2. QED
      BY <2>1 DEF Range, C!Range
  <1>2. \A x : Cardinality(At(s \o t, x)) = Cardinality(At(t \o s, x))
    BY SameCount
  <1>3. \A q : C!ToBag(q) = [x \in C!Range(q) |-> Cardinality(At(q, x))]
    <2>1. \A A : C!Cardinality(A) = Cardinality(A)
      BY DEF C!Cardinality, Cardinality
    <2>2. QED
      BY <2>1 DEF C!ToBag, At
  <1>4. QED
    BY <1>1, <1>2, <1>3

-----------------------------------------------------------------------------
(* Every step of the loop keeps what has been read                          *)

Kept == UNCHANGED words /\ (parsing' = "on" => \E n \in 0..Len(words) : Reading(n)')
                        /\ (parsing' # "on" => ParsedAsMeant')

LEMMA ReadOn ==
  ASSUME words' = words, NEW n \in 0..Len(words), NEW m, m = C!ByWord(words)[n],
         m \in Meanings, C!Going(m), ~m.behind, m.rest = <<>> => ~has_double_dash',
         \A i \in 1..n : words[i] # <<"--">>,
         parsing' = "on", args' = Ahead(n) \o Moved(m.rest), ReadsNext(m)
  PROVE  Kept
  <1>1. BetweenWords(n, m)'
    BY DEF BetweenWords, Ahead, Moved, Reads, ReadsNext
  <1>2. Reading(n)'
    BY <1>1 DEF Reading
  <1>3. QED
    BY <1>2 DEF Kept

LEMMA EndsAsMeant ==
  ASSUME words \in Seq(AnyWord), words' = words, parsing' \in {"help", "error"},
         NEW n \in 0..Len(words), C!ByWord(words)[n].end = parsing', C!ByWord(words)[n].awaits = "nothing"
  PROVE  Kept
  <1>1. C!Meant(words).end = parsing'
    BY EndedStays
  <1>2. ParsedAsMeant'
    BY <1>1 DEF ParsedAsMeant, C!ParsedAsMeant
  <1>3. QED
    BY <1>2 DEF Kept

LEMMA FlagReads ==
  ASSUME NEW m \in Meanings, C!Going(m), Reads(m), C!Flag
  PROVE  LET r == C!Chosen(m, C!Option(Head(args))) IN
         /\ r \in Meanings /\ C!Going(r) /\ ReadsNext(r)
         /\ r.rest = m.rest /\ r.behind = m.behind
  <1> DEFINE o == C!Option(Head(args))
             r == C!Chosen(m, o)
  <1>1. /\ o \in Flags
        /\ plugins' = CASE o = "current" -> <<>>
                        [] o = "saver" -> plugins
                        [] OTHER -> Append(plugins, <<C!AddedPlugin[o]>>)
        /\ saver' = IF o = "saver" THEN <<"y">> ELSE saver
        /\ timeout' = timeout /\ info_box' = info_box
    BY DEF C!Flag, Flags
  <1> HIDE DEF o
  <1>2. Flagged(m, r, o) /\ r.timeout = m.timeout /\ r.info_box = m.info_box
    BY <1>1, ChosenIs
  <1>3. r \in Meanings /\ r.rest = m.rest /\ r.behind = m.behind
    BY ChosenKeeps
  <1>4. plugins = m.plugins /\ saver = m.saver /\ timeout = m.timeout /\ info_box = m.info_box
    BY DEF Reads
  <1> HIDE DEF r
  <1>5. plugins' = r.plugins /\ saver' = r.saver
    BY <1>1, <1>2, <1>4 DEF Flagged
  <1>6. ReadsNext(r)
    BY <1>1, <1>2, <1>4, <1>5 DEF ReadsNext
  <1>7. QED
    BY <1>2, <1>3, <1>6 DEF Flagged, o, r

LEMMA TakesReads ==
  ASSUME NEW m \in Meanings, C!Going(m), Reads(m), C!TakesArgument, Len(args) # 1, args[2] \in AnyWord
  PROVE  LET r == C!Argument(C!Chosen(m, C!Option(Head(args))), args[2]) IN
         /\ r \in Meanings /\ C!Going(r) /\ ReadsNext(r)
         /\ r.rest = m.rest /\ r.behind = m.behind
  <1> DEFINE o == C!Option(Head(args))
             p == C!Chosen(m, o)
             r == C!Argument(p, args[2])
  <1>1. /\ o \in C!WithArgument
        /\ plugins' = plugins /\ saver' = saver
        /\ IF o = "timeout" THEN timeout' = args[2] /\ info_box' = info_box
                            ELSE info_box' = args[2] /\ timeout' = timeout
    BY DEF C!TakesArgument
  <1> HIDE DEF o
  <1>2. p.awaits = o /\ p = [m EXCEPT !.awaits = o]
    BY <1>1, ChosenIs
  <1>3. p \in Meanings /\ p.rest = m.rest /\ p.behind = m.behind
    BY ChosenKeeps
  <1>4. p.end = "over" /\ p.plugins = m.plugins /\ p.saver = m.saver
        /\ p.timeout = m.timeout /\ p.info_box = m.info_box
    BY <1>2 DEF Meanings, C!Going
  <1> HIDE DEF p
  <1>5. /\ r \in Meanings /\ r.rest = p.rest /\ r.behind = p.behind /\ r.end = p.end
        /\ r.awaits = "nothing" /\ r.plugins = p.plugins /\ r.saver = p.saver
        /\ r.timeout = IF o = "timeout" THEN args[2] ELSE p.timeout
        /\ r.info_box = IF o = "timeout" THEN p.info_box ELSE args[2]
    BY <1>1, <1>2, <1>3, ArgumentIs DEF C!WithArgument
  <1> HIDE DEF r
  <1>6. ReadsNext(r)
    BY <1>1, <1>4, <1>5 DEF Reads, ReadsNext
  <1>7. QED
    BY <1>3, <1>4, <1>5, <1>6 DEF o, p, r, C!Going

(* Between two words.                                                       *)
LEMMA WordStep ==
  ASSUME LineType, LineType', C!Ordinary(words), NEW n \in 0..Len(words), n < Len(words), Reading(n),
         BetweenWords(n, C!ByWord(words)[n]), parsing = "on", C!Next
  PROVE  Kept
  <1> DEFINE m == C!ByWord(words)[n]
             w == words[n + 1]
             x == Ahead(n + 1) \o Moved(m.rest)
  <1>1. /\ m \in Meanings /\ C!Going(m) /\ ~m.behind /\ (m.rest = <<>> => ~has_double_dash)
        /\ \A i \in 1..n : words[i] # <<"--">>
    BY DEF Reading
  <1>2. /\ w \in AnyWord /\ x \in Seq(AnyWord) /\ args = <<w>> \o x /\ args # <<>>
        /\ Head(args) = w /\ Tail(args) = x
        /\ Ahead(n + 1) \in Seq(AnyWord) /\ Moved(m.rest) \in Seq(AnyWord)
    BY <1>1, AtWord
  <1>3. words \in Seq(AnyWord) /\ Len(words) \in Nat /\ n + 1 \in 0..Len(words) /\ n + 1 \in 1..Len(words)
    BY LenProperties DEF LineType
  <1>4. C!ByWord(words)[n + 1] = C!Word(m, w)
    BY <1>3, WordByWord
  <1>5. Reads(m)
    BY DEF BetweenWords
  <1>6. w # <<"--">> => \A i \in 1..n + 1 : words[i] # <<"--">>
    BY <1>1, <1>3
  <1>7. UNCHANGED words
    BY DEF C!Next, C!Cluster, C!Assigned, C!Flag, C!TakesArgument, C!HelpOrUnknown, C!DoubleDash,
           C!Plain, C!NoneLeft, C!Exit
  <1> HIDE DEF m, w, x
  <1>10. CASE C!Cluster
    <2>1. /\ C!IsCluster(w) /\ args' = C!Split(w) \o x /\ parsing' = "on"
          /\ UNCHANGED <<plugins, saver, timeout, info_box, has_double_dash>>
      <3>1. C!IsCluster(w) /\ parsing = "on"
        BY <1>2, <1>10 DEF C!Cluster, C!First
      <3>2. ~C!HasLetter(w, "0")
        BY <1>3, <3>1, LenProperties DEF C!Ordinary, w
      <3>3. QED
        BY <1>2, <1>10, <3>1, <3>2 DEF C!Cluster, C!settings
    <2>2. Len(w) \in Nat /\ Len(w) > 2
      BY <1>2, <2>1, LenProperties DEF C!IsCluster, AnyWord
    <2>3. C!ByLetter(m, w)[1] = m
      BY <1>2, <2>2, LetterByLetter
    <2>4. C!Split(w) = Remaining(w, 2)
      BY DEF C!Split, Remaining
    <2>5. C!ArgumentLetter(w) # 0 => 2 <= C!ArgumentLetter(w)
      BY <1>2, <2>1, FirstLetterT
    <2>6. 2 \in 2..Len(w) /\ 2 - 1 = 1
      BY <2>2
    <2>7. x' = x /\ m' = m /\ w' = w
      BY <1>7 DEF x, m, w, Ahead, Moved
    <2>8. Reads(m)'
      BY <1>5, <2>1, <2>7 DEF Reads
    <2>9. InCluster(n, m, 2)'
      <3>1. /\ C!IsCluster(w) /\ 2 \in 2..Len(w) /\ C!Going(C!ByLetter(m, w)[2 - 1])
            /\ C!ByLetter(m, w)[2 - 1].rest = m.rest /\ ~C!ByLetter(m, w)[2 - 1].behind
            /\ args' = Remaining(w, 2) \o x
            /\ ReadsNext(C!ByLetter(m, w)[2 - 1])
            /\ C!ArgumentLetter(w) # 0 => 2 <= C!ArgumentLetter(w)
        BY <1>1, <1>5, <2>1, <2>3, <2>4, <2>5, <2>6 DEF Reads, ReadsNext
      <3>2. QED
        BY <1>7, <3>1 DEF InCluster, Reads, ReadsNext, Remaining, x, w, m, Ahead, Moved
    <2>10. Reading(n)'
      BY <1>1, <1>3, <1>7, <2>1, <2>6, <2>7, <2>9 DEF Reading, m, w
    <2>11. QED
      BY <1>7, <2>1, <2>10 DEF Kept
  <1>11. CASE C!Assigned
    <2>1. /\ C!IsAssigned(w)
          /\ IF C!MayHaveArgument(w)
             THEN /\ args' = <<<<"--", w[2]>>, C!ArgumentOf(w)>> \o x
                  /\ UNCHANGED <<plugins, saver, timeout, info_box, has_double_dash, parsing>>
             ELSE parsing' = "error"
      <3>1. C!IsAssigned(w)
        BY <1>2, <1>11 DEF C!Assigned
      <3>2. ~C!IsNull(C!ArgumentOf(w))
        BY <1>3, <3>1, LenProperties DEF C!Ordinary, w
      <3>3. QED
        BY <1>2, <1>11, <3>1, <3>2 DEF C!Assigned, C!settings, C!Exit
    <2>2. CASE C!MayHaveArgument(w)
      <3>1. x' = x /\ m' = m /\ w' = w
        BY <1>7 DEF x, m, w, Ahead, Moved
      <3>2. Reads(m)'
        BY <1>5, <2>1, <2>2, <3>1 DEF Reads
      <3>3. AtAssigned(n, m)'
        BY <2>1, <2>2, <3>1, <3>2 DEF AtAssigned, x, w, m
      <3>4. Reading(n)'
        BY <1>1, <1>3, <1>7, <2>1, <2>2, <3>1, <3>3 DEF Reading, m
      <3>5. QED
        BY <1>7, <2>1, <2>2, <3>4 DEF Kept
    <2>3. CASE ~C!MayHaveArgument(w)
      <3>1. C!ByWord(words)[n + 1] = [m EXCEPT !.end = "error"]
        BY <1>1, <1>2, <1>4, <2>1, <2>3, WordIs
      <3>2. C!ByWord(words)[n + 1].end = "error" /\ C!ByWord(words)[n + 1].awaits = "nothing"
        BY <1>1, <3>1 DEF Meanings, C!Going
      <3>3. QED
        BY <1>3, <1>7, <2>1, <2>3, <3>2, EndsAsMeant
    <2>4. QED
      BY <2>2, <2>3
  <1>12. CASE C!Flag
    <2>1. C!IsOption(w) /\ args' = x /\ UNCHANGED <<has_double_dash, parsing>>
      BY <1>2, <1>12 DEF C!Flag
    <2> DEFINE r == C!ByWord(words)[n + 1]
    <2>2. r = C!Chosen(m, C!Option(w))
      BY <1>1, <1>2, <1>4, <2>1, WordIs
    <2>3. r \in Meanings /\ C!Going(r) /\ ReadsNext(r) /\ r.rest = m.rest /\ r.behind = m.behind
      BY <1>1, <1>2, <1>5, <1>12, <2>2, FlagReads
    <2>4. w # <<"--">>
      BY <1>2, <2>1, KindsOfWords DEF C!IsDashes
    <2>5. args' = Ahead(n + 1) \o Moved(r.rest)
      BY <2>1, <2>3 DEF x
    <2>6. QED
      BY <1>1, <1>3, <1>6, <1>7, <2>1, <2>3, <2>4, <2>5, ReadOn
  <1>13. CASE C!TakesArgument
    <2>1. C!IsOption(w) /\ C!Option(w) \in C!WithArgument /\ UNCHANGED has_double_dash
      BY <1>2, <1>13 DEF C!TakesArgument, C!Exit
    <2>2. n + 1 < Len(words) /\ words[n + 2] # <<"--">>
      <3>1. C!NeedsNext(w)
        BY <2>1 DEF C!NeedsNext
      <3>2. n + 1 \in DOMAIN words /\ n + 1 + 1 = n + 2
        BY <1>3, LenProperties
      <3>3. QED
        BY <3>1, <3>2 DEF C!Ordinary, w
    <2>3. /\ n + 2 \in 0..Len(words) /\ n + 2 \in 1..Len(words) /\ n + 2 - 1 = n + 1
          /\ n + 1 + 1 = n + 2
      BY <1>3, <2>2
    <2>4. words[n + 2] \in AnyWord /\ Ahead(n + 2) \in Seq(AnyWord)
          /\ Ahead(n + 1) = <<words[n + 2]>> \o Ahead(n + 2)
      BY <1>3, <2>2, <2>3, AheadWords
    <2> DEFINE b == words[n + 2]
               y == Ahead(n + 2) \o Moved(m.rest)
    <2>5. x = <<b>> \o y /\ y \in Seq(AnyWord)
      <3> DEFINE s == <<b>>
                 a == Ahead(n + 2)
                 v == Moved(m.rest)
      <3>1. s \in Seq(AnyWord) /\ a \in Seq(AnyWord) /\ v \in Seq(AnyWord)
        BY <1>2, <2>4
      <3>2. x = (s \o a) \o v
        BY <2>4 DEF x
      <3> HIDE DEF s, a, v
      <3>3. (s \o a) \o v = s \o (a \o v) /\ a \o v \in Seq(AnyWord)
        BY <3>1, Regroup, ConcatProperties
      <3>4. QED
        BY <3>2, <3>3 DEF s, a, v
    <2> HIDE DEF b, y
    <2>6. x # <<>> /\ Head(x) = b /\ Tail(x) = y
      BY <2>4, <2>5, OneInFront DEF b
    <2>7. args[2] = b /\ Len(args) # 1
      BY <1>2, <2>6, OneInFront
    <2>8. args' = y /\ UNCHANGED parsing
      BY <1>2, <1>13, <2>6, <2>7 DEF C!TakesArgument
    <2> DEFINE r == C!ByWord(words)[n + 2]
               p == C!ByWord(words)[n + 1]
    <2>9. p = C!Chosen(m, C!Option(w))
      BY <1>1, <1>2, <1>4, <2>1, WordIs
    <2>10. r = C!Argument(p, b)
      <3>1. r = C!Word(p, b)
        BY <1>3, <2>3, WordByWord DEF b
      <3>2. p.awaits = C!Option(w) /\ p = [m EXCEPT !.awaits = C!Option(w)]
        BY <1>1, <2>1, <2>9, ChosenIs
      <3>3. p.end = "over" /\ p.awaits # "nothing"
        BY <1>1, <2>1, <3>2 DEF Meanings, C!Going, C!WithArgument
      <3>4. QED
        BY <3>1, <3>3 DEF C!Word
    <2>11. r \in Meanings /\ C!Going(r) /\ ReadsNext(r) /\ r.rest = m.rest /\ r.behind = m.behind
      BY <1>1, <1>2, <1>5, <1>13, <2>4, <2>7, <2>9, <2>10, TakesReads DEF b
    <2>12. w # <<"--">>
      BY <1>2, <2>1, KindsOfWords DEF C!IsDashes
    <2>13. \A i \in 1..n + 2 : words[i] # <<"--">>
      BY <1>3, <1>6, <2>2, <2>3, <2>12
    <2>14. args' = Ahead(n + 2) \o Moved(r.rest)
      BY <2>8, <2>11 DEF y
    <2>15. QED
      BY <1>1, <1>7, <2>1, <2>3, <2>8, <2>11, <2>13, <2>14, ReadOn
  <1>14. CASE C!HelpOrUnknown
    <2> DEFINE o == C!Option(w)
               r == C!ByWord(words)[n + 1]
    <2>1. C!IsOption(w) /\ ((o \in {"help", "version"} /\ parsing' = "help") \/ (o = "unknown" /\ parsing' = "error"))
      BY <1>2, <1>14 DEF C!HelpOrUnknown, C!Exit
    <2>2. r = C!Chosen(m, o)
      BY <1>1, <1>2, <1>4, <2>1, WordIs
    <2> HIDE DEF o
    <2>3. r.end = parsing' /\ r.awaits = "nothing"
      BY <1>1, <2>1, <2>2, ChosenIs
    <2>4. QED
      BY <1>3, <1>7, <2>1, <2>3, EndsAsMeant
  <1>15. CASE C!DoubleDash
    <2>1. /\ w = <<"--">> /\ args' = x /\ parsing' = "over"
          /\ UNCHANGED <<plugins, saver, timeout, info_box>>
      BY <1>2, <1>15 DEF C!DoubleDash, C!IsDashes, C!settings
    <2> DEFINE r == C!ByWord(words)[n + 1]
               a == Ahead(n + 1)
    <2>2. r = [m EXCEPT !.behind = TRUE]
      BY <1>1, <1>2, <1>4, <2>1, WordIs DEF C!IsDashes
    <2>3. r \in Meanings /\ C!Going(r) /\ r.behind /\ r.rest = m.rest /\ Reads(r)
      BY <1>1, <1>5, <2>2 DEF Meanings, C!Going, Reads
    <2>4. C!Meant(words) = [r EXCEPT !.rest = r.rest \o a]
      BY <1>3, <2>3, BehindStays DEF Ahead
    <2>5. <<"--">> \in ToSet(words)
      BY <1>3, <2>1, LenProperties DEF ToSet, w
    <2>6. args' = a \o m.rest
      BY <2>1, <2>5 DEF x, Moved
    <2> DEFINE t == C!Meant(words)
    <2>7. /\ t.end = "over" /\ t.rest = m.rest \o a
          /\ t.plugins = plugins' /\ t.saver = saver' /\ t.timeout = timeout' /\ t.info_box = info_box'
      BY <2>1, <2>3, <2>4 DEF Meanings, C!Going, Reads
    <2>8. m.rest \in Seq(AnyWord) /\ a \in Seq(AnyWord)
      BY <1>1, <1>2 DEF Meanings
    <2>9. C!ToBag(args') = C!ToBag(t.rest)
      BY <2>6, <2>7, <2>8, SameBag
    <2>10. ParsedAsMeant'
      BY <1>7, <2>1, <2>5, <2>7, <2>9 DEF ParsedAsMeant, C!ParsedAsMeant, C!ToSet, ToSet
    <2>11. QED
      BY <1>7, <2>1, <2>10 DEF Kept
  <1>16. CASE C!Plain
    <2>1. /\ C!IsPlain(w)
          /\ has_double_dash' = (has_double_dash \/ <<"--">> \in ToSet(args))
          /\ args' = x \o (IF has_double_dash' THEN <<>> ELSE <<<<"--">>>>) \o <<w>>
          /\ UNCHANGED <<plugins, saver, timeout, info_box, parsing>>
      BY <1>2, <1>16 DEF C!Plain, C!settings, C!ToSet, ToSet
    <2> DEFINE r == C!ByWord(words)[n + 1]
    <2>2. r = [m EXCEPT !.rest = Append(@, w)]
      BY <1>1, <1>2, <1>4, <2>1, WordIs
    <2>3. Append(m.rest, w) \in Seq(AnyWord) /\ Append(m.rest, w) # <<>>
      <3>1. m.rest \in Seq(AnyWord)
        BY <1>1 DEF Meanings
      <3>2. QED
        BY <1>2, <3>1, AppendProperties
    <2>4. /\ r \in Meanings /\ C!Going(r) /\ ~r.behind /\ r.rest = Append(m.rest, w)
          /\ r.rest # <<>>
      BY <1>1, <2>2, <2>3 DEF Meanings, C!Going
    <2>5. ReadsNext(r)
      BY <1>1, <1>5, <2>1, <2>2 DEF Meanings, Reads, ReadsNext
    <2>6. w # <<"--">>
      BY <1>2, <2>1, KindsOfWords DEF C!IsDashes
    <2>7. args' = Ahead(n + 1) \o Moved(r.rest)
      <3> DEFINE has == has_double_dash'
      <3>1. has = (has_double_dash \/ <<"--">> \in ToSet(args)) /\ has_double_dash \in BOOLEAN
        BY <2>1 DEF LineType
      <3>2. args' = x \o (IF has THEN <<>> ELSE <<<<"--">>>>) \o <<w>>
        BY <2>1
      <3> HIDE DEF has
      <3>3. /\ w = words[n + 1] /\ \A i \in 1..n + 1 : words[i] # <<"--">>
            /\ m.rest \in Seq(AnyWord) /\ (m.rest = <<>> => ~has_double_dash)
            /\ args = <<w>> \o (Ahead(n + 1) \o Moved(m.rest))
        BY <1>1, <1>2, <1>6, <2>6 DEF Meanings, w, x
      <3>4. x \o (IF has THEN <<>> ELSE <<<<"--">>>>) \o <<w>>
               = Ahead(n + 1) \o Moved(Append(m.rest, w))
        BY <1>2, <1>3, <2>6, <3>1, <3>3, PlainMoved DEF x
      <3>5. QED
        BY <2>4, <3>2, <3>4
    <2>8. QED
      BY <1>1, <1>3, <1>6, <1>7, <2>1, <2>4, <2>5, <2>6, <2>7, ReadOn
  <1>17. CASE C!NoneLeft
    BY <1>2, <1>17 DEF C!NoneLeft
  <1>18. QED
    BY <1>10, <1>11, <1>12, <1>13, <1>14, <1>15, <1>16, <1>17 DEF C!Next

(* At the end of the words.                                                 *)
LEMMA EndStep ==
  ASSUME LineType, Reading(Len(words)), BetweenWords(Len(words), C!ByWord(words)[Len(words)]),
         parsing = "on", C!Next
  PROVE  Kept
  <1> DEFINE m == C!ByWord(words)[Len(words)]
  <1>1. /\ m \in Meanings /\ C!Going(m)
        /\ \A i \in 1..Len(words) : words[i] # <<"--">>
    BY DEF Reading
  <1>2. C!Meant(words) = m
    BY <1>1 DEF C!Meant, C!Going
  <1> HIDE DEF m
  <1>3. /\ <<"--">> \notin ToSet(words)
        /\ args = IF m.rest = <<>> THEN <<>> ELSE <<<<"--">>>> \o m.rest
        /\ m.rest # <<>> => args # <<>> /\ Head(args) = <<"--">> /\ Tail(args) = m.rest
    BY <1>1, AtEnd DEF m
  <1>4. args # <<>> => ~C!IsPlain(Head(args)) /\ ~C!IsOption(Head(args)) /\ ~C!IsCluster(Head(args))
                       /\ ~C!IsAssigned(Head(args))
    BY <1>3, KindsOfWords, DashesAreWord DEF C!IsDashes
  <1>5. C!DoubleDash \/ C!NoneLeft
    BY <1>4 DEF C!Next, C!Cluster, C!Assigned, C!Flag, C!TakesArgument, C!HelpOrUnknown, C!Plain,
                C!First
  <1>6. /\ args' = m.rest /\ parsing' = "over" /\ words' = words
        /\ UNCHANGED <<plugins, saver, timeout, info_box>>
    <2>1. CASE C!DoubleDash
      BY <1>3, <2>1 DEF C!DoubleDash, C!First, C!settings
    <2>2. CASE C!NoneLeft
      BY <1>3, <2>2 DEF C!NoneLeft, C!settings
    <2>3. QED
      BY <1>5, <2>1, <2>2
  <1>7. ReadsNext(m)
    BY <1>6 DEF BetweenWords, Reads, ReadsNext, m
  <1>8. ParsedAsMeant'
    <2>1. C!Meant(words') = m /\ ~(<<"--">> \in C!ToSet(words'))
      BY <1>2, <1>3, <1>6 DEF ToSet, C!ToSet
    <2>2. m.end = "over"
      BY <1>1 DEF C!Going
    <2>3. QED
      BY <1>6, <1>7, <2>1, <2>2 DEF ParsedAsMeant, C!ParsedAsMeant, ReadsNext
  <1>9. QED
    BY <1>6, <1>8 DEF Kept

(* At the argument of a long option.                                        *)
LEMMA AssignedStep ==
  ASSUME LineType, NEW n \in 0..Len(words), n < Len(words), Reading(n),
         AtAssigned(n, C!ByWord(words)[n]), parsing = "on", C!Next
  PROVE  Kept
  <1> DEFINE m == C!ByWord(words)[n]
             w == words[n + 1]
             x == Ahead(n + 1) \o Moved(m.rest)
             option == <<"--", w[2]>>
             argument == C!ArgumentOf(w)
  <1>1. /\ m \in Meanings /\ C!Going(m) /\ ~m.behind /\ (m.rest = <<>> => ~has_double_dash)
        /\ \A i \in 1..n : words[i] # <<"--">>
    BY DEF Reading
  <1>2. /\ C!IsAssigned(w) /\ C!MayHaveArgument(w) /\ w[2] \in C!WithArgument /\ Reads(m)
        /\ args = <<option, argument>> \o x
    BY DEF AtAssigned, C!MayHaveArgument
  <1>3. words \in Seq(AnyWord) /\ Len(words) \in Nat /\ n + 1 \in 0..Len(words) /\ n + 1 \in 1..Len(words)
    BY LenProperties DEF LineType
  <1>4. w \in AnyWord
    BY <1>3, AheadWords
  <1>5. C!ByWord(words)[n + 1] = C!Word(m, w)
    BY <1>3, WordByWord
  <1>6. x \in Seq(AnyWord)
    <2>1. Ahead(n + 1) \in Seq(AnyWord)
      BY <1>3, AheadWords
    <2>2. Moved(m.rest) \in Seq(AnyWord)
      BY <1>1, MovedWords DEF Meanings
    <2>3. QED
      BY <2>1, <2>2, ConcatProperties
  <1>7. UNCHANGED words
    BY DEF C!Next, C!Cluster, C!Assigned, C!Flag, C!TakesArgument, C!HelpOrUnknown, C!DoubleDash,
           C!Plain, C!NoneLeft, C!Exit
  <1>8. Len(w) \in Nat /\ Len(w) > 3 /\ w[1] = "--" /\ \A i \in 1..Len(w) : w[i] \in Symbols
    BY <1>2, <1>4, LenProperties, ElementOfSeq DEF C!IsAssigned, AnyWord
  <1>9. option \in AnyWord
    BY <1>8 DEF AnyWord
  <1>10. argument \in AnyWord
    BY <1>8, SubSeqProperties DEF AnyWord, C!ArgumentOf
  <1>11. C!IsOption(option) /\ C!Option(option) = w[2]
    <2>1. option[1] = "--" /\ option[2] = w[2] /\ Len(option) = 2 /\ option # <<>>
      OBVIOUS
    <2>2. w[2] \in C!LongNames
      <3>1. "timeout" \in C!LongNames
        <4>1. "t" \in DOMAIN C!OneLetter /\ C!OneLetter["t"] = "timeout"
          BY DEF C!OneLetter
        <4>2. QED
          BY <4>1 DEF C!LongNames
      <3>2. QED
        BY <1>2, <3>1 DEF C!LongNames, C!WithArgument
    <2> HIDE DEF option
    <2>3. C!IsOption(option)
      BY <2>1 DEF C!IsOption
    <2>4. C!Option(option) = option[2]
      BY <2>1, <2>2 DEF C!Option
    <2>5. QED
      BY <2>1, <2>3, <2>4
  <1> HIDE DEF m, w, x, option, argument
  <1>12. /\ args # <<>> /\ Head(args) = option /\ args[2] = argument
         /\ Tail(Tail(args)) = x /\ Len(args) # 1
    BY <1>2, <1>6, <1>9, <1>10, TwoInFront
  <1>13. ~C!IsPlain(option) /\ ~C!IsDashes(option) /\ ~C!IsCluster(option) /\ ~C!IsAssigned(option)
    BY <1>9, <1>11, KindsOfWords
  <1>14. C!Option(Head(args)) = w[2] /\ w[2] \in {"timeout", "info-box"}
    BY <1>2, <1>11, <1>12 DEF C!WithArgument
  <1>15. C!TakesArgument
    <2>1. ~C!Flag
      BY <1>14 DEF C!Flag
    <2>2. ~C!HelpOrUnknown
      BY <1>14 DEF C!HelpOrUnknown
    <2>3. QED
      BY <1>12, <1>13, <2>1, <2>2 DEF C!Next, C!Cluster, C!Assigned, C!DoubleDash, C!Plain, C!NoneLeft
  <1>16. args' = x /\ UNCHANGED <<has_double_dash, parsing>>
    BY <1>12, <1>15 DEF C!TakesArgument
  <1> DEFINE r == C!ByWord(words)[n + 1]
  <1>17. r = C!Argument(C!Chosen(m, C!Option(Head(args))), args[2])
    <2>1. C!Word(m, w) = C!Argument(C!Chosen(m, w[2]), argument)
      BY <1>1, <1>2, <1>4, WordIs DEF argument
    <2>2. QED
      BY <1>5, <1>12, <1>14, <2>1
  <1>18. r \in Meanings /\ C!Going(r) /\ ReadsNext(r) /\ r.rest = m.rest /\ r.behind = m.behind
    BY <1>1, <1>2, <1>10, <1>12, <1>15, <1>17, TakesReads
  <1>19. args' = Ahead(n + 1) \o Moved(r.rest)
    BY <1>16, <1>18 DEF x
  <1>20. \A i \in 1..n + 1 : words[i] # <<"--">>
    <2>1. w # <<"--">>
      BY <1>2, <1>4, KindsOfWords DEF C!IsDashes
    <2>2. QED
      BY <1>1, <1>3, <2>1 DEF w
  <1>21. QED
    BY <1>1, <1>3, <1>7, <1>16, <1>18, <1>19, <1>20, ReadOn

(* In a cluster.                                                            *)
LEMMA LetterOption ==
  ASSUME NEW l
  PROVE  C!Option(<<"-", l>>) \in C!WithArgument <=> l = "t"
  <1> DEFINE w == <<"-", l>>
  <1>1. w[1] = "-" /\ w[2] = l
    OBVIOUS
  <1> HIDE DEF w
  <1>2. C!Option(w) = IF l \in DOMAIN C!OneLetter THEN C!OneLetter[l] ELSE "unknown"
    BY <1>1 DEF C!Option
  <1>3. l \in DOMAIN C!OneLetter => (C!OneLetter[l] \in C!WithArgument <=> l = "t")
    BY DEF C!OneLetter, C!WithArgument
  <1>4. "t" \in DOMAIN C!OneLetter /\ "unknown" \notin C!WithArgument
    BY DEF C!OneLetter, C!WithArgument
  <1>5. QED
    BY <1>2, <1>3, <1>4 DEF w

LEMMA LettersFrom ==
  ASSUME NEW w \in AnyWord, Len(w) >= 1, NEW k \in 2..Len(w) + 1, NEW to \in 1..Len(w), k <= to + 1
  PROVE  /\ C!Letters(w, k, to) \in Seq(AnyWord)
         /\ k = to + 1 => C!Letters(w, k, to) = <<>>
         /\ k <= to => C!Letters(w, k, to) = <<C!LetterWord(w[k])>> \o C!Letters(w, k + 1, to)
  <1>1. Len(w) \in Nat /\ \A i \in 1..Len(w) : w[i] \in Symbols
    BY LenProperties, ElementOfSeq DEF AnyWord
  <1>2. \A i \in 1..Len(w) : C!LetterWord(w[i]) \in AnyWord
    BY <1>1, LetterIsWord
  <1>3. ASSUME NEW j \in 2..Len(w) + 1, j <= to + 1
        PROVE  /\ C!Letters(w, j, to) \in Seq(AnyWord) /\ Len(C!Letters(w, j, to)) = to - j + 1
               /\ \A i \in 1..to - j + 1 : C!Letters(w, j, to)[i] = C!LetterWord(w[j + i - 1])
    <2>1. C!Letters(w, j, to) = [i \in 1..to - j + 1 |-> C!LetterWord(w[j + i - 1])]
      BY DEF C!Letters
    <2>2. \A i \in 1..to - j + 1 : j + i - 1 \in 1..Len(w)
      BY <1>1, <1>3
    <2>3. to - j + 1 \in Nat
      BY <1>1, <1>3
    <2>4. \A i \in 1..to - j + 1 : C!LetterWord(w[j + i - 1]) \in AnyWord
      BY <1>2, <2>2
    <2>5. QED
      <3> DEFINE N == to - j + 1
                 g(i) == C!LetterWord(w[j + i - 1])
      <3>1. N \in Nat /\ \A i \in 1..N : g(i) \in AnyWord
        BY <2>3, <2>4
      <3>2. C!Letters(w, j, to) = [i \in 1..N |-> g(i)]
        BY <2>1
      <3> HIDE DEF N, g
      <3>3. [i \in 1..N |-> g(i)] \in Seq(AnyWord)
        BY <3>1, IsASeq
      <3>4. Len([i \in 1..N |-> g(i)]) = N
        BY <3>1, <3>3, LenProperties
      <3>5. \A i \in 1..N : C!Letters(w, j, to)[i] = g(i)
        BY <3>2
      <3>6. QED
        BY <3>2, <3>3, <3>4, <3>5 DEF N, g
  <1>4. C!Letters(w, k, to) \in Seq(AnyWord)
    BY <1>3
  <1>5. k = to + 1 => C!Letters(w, k, to) = <<>>
    <2> SUFFICES ASSUME k = to + 1 PROVE C!Letters(w, k, to) = <<>>
      OBVIOUS
    <2>1. to - k + 1 = 0
      BY <1>1
    <2>2. QED
      BY <1>3, <2>1, EmptySeq
  <1>6. k <= to => C!Letters(w, k, to) = <<C!LetterWord(w[k])>> \o C!Letters(w, k + 1, to)
    <2> SUFFICES ASSUME k <= to PROVE C!Letters(w, k, to) = <<C!LetterWord(w[k])>> \o C!Letters(w, k + 1, to)
      OBVIOUS
    <2> DEFINE q == C!Letters(w, k, to)
               z == C!Letters(w, k + 1, to)
               s == <<C!LetterWord(w[k])>>
    <2>1. k + 1 \in 2..Len(w) + 1 /\ k + 1 <= to + 1 /\ to - (k + 1) + 1 = to - k
          /\ k \in 1..Len(w) /\ to - k \in Nat
      BY <1>1
    <2>2. /\ q \in Seq(AnyWord) /\ Len(q) = to - k + 1
          /\ \A i \in 1..to - k + 1 : q[i] = C!LetterWord(w[k + i - 1])
      BY <1>3
    <2>3. /\ z \in Seq(AnyWord) /\ Len(z) = to - k
          /\ \A i \in 1..to - k : z[i] = C!LetterWord(w[k + 1 + i - 1])
      BY <1>3, <2>1
    <2>4. s \in Seq(AnyWord) /\ Len(s) = 1 /\ s[1] = C!LetterWord(w[k])
      BY <1>2, <2>1
    <2> HIDE DEF q, z, s
    <2>5. /\ s \o z \in Seq(AnyWord) /\ Len(s \o z) = 1 + (to - k)
          /\ \A i \in 1..1 + (to - k) : (s \o z)[i] = IF i <= 1 THEN s[i] ELSE z[i - 1]
      <3>1. /\ s \o z \in Seq(AnyWord) /\ Len(s \o z) = Len(s) + Len(z)
            /\ \A i \in 1..Len(s) + Len(z) : (s \o z)[i] = IF i <= Len(s) THEN s[i] ELSE z[i - Len(s)]
        BY <2>3, <2>4, ConcatProperties
      <3>2. QED
        BY <2>3, <2>4, <3>1
    <2>6. \A i \in 1..to - k + 1 : q[i] = (s \o z)[i]
      <3> TAKE i \in 1..to - k + 1
      <3>0. i \in 1..1 + (to - k) /\ i \in Nat
        BY <2>1
      <3>1. CASE i = 1
        <4>1. k + i - 1 = k
          BY <1>1, <3>1
        <4>2. QED
          <5>1. q[i] = C!LetterWord(w[k])
            BY <2>2, <4>1
          <5>2. (s \o z)[i] = s[1]
            BY <2>5, <3>0, <3>1
          <5>3. QED
            BY <2>4, <5>1, <5>2
      <3>2. CASE i # 1
        <4>1. ~(i <= 1) /\ i - 1 \in 1..to - k /\ k + 1 + (i - 1) - 1 = k + i - 1
          BY <1>1, <2>1, <3>0, <3>2
        <4>2. z[i - 1] = C!LetterWord(w[k + i - 1])
          BY <2>3, <4>1
        <4>3. QED
          BY <2>2, <2>5, <3>0, <4>1, <4>2
      <3>3. QED
        BY <3>1, <3>2
    <2>7. Len(q) = Len(s \o z)
      BY <2>1, <2>2, <2>5
    <2>8. q = s \o z
      BY <2>2, <2>5, <2>6, <2>7, SeqEqual
    <2>9. QED
      BY <2>8 DEF q, z, s
  <1>7. QED
    BY <1>4, <1>5, <1>6

(* The letters of a cluster one after the other; the last may have its      *)
(* argument behind it.                                                      *)
LEMMA RemainingIs ==
  ASSUME NEW w \in AnyWord, C!IsCluster(w), ~C!HasLetter(w, "-"), NEW k \in 2..Len(w),
         C!ArgumentLetter(w) # 0 => k <= C!ArgumentLetter(w)
  PROVE  LET at == C!ArgumentLetter(w)
             argument == SubSeq(w, at + 1, Len(w))
         IN  /\ <<"-", w[k]>> \in AnyWord
             /\ k # at => /\ w[k] # "t" /\ Remaining(w, k + 1) \in Seq(AnyWord)
                          /\ Remaining(w, k) = <<<<"-", w[k]>>>> \o Remaining(w, k + 1)
                          /\ at # 0 => k + 1 <= at
                          /\ k = Len(w) => Remaining(w, k + 1) = <<>>
             /\ k = at => /\ w[k] = "t" /\ argument \in AnyWord
                          /\ Remaining(w, k) = <<<<"-", w[k]>>, argument>>
  <1> DEFINE at == C!ArgumentLetter(w)
             argument == SubSeq(w, at + 1, Len(w))
             pair == <<<<"-", "t">>, argument>>
  <1>1. Len(w) \in Nat /\ w[1] = "-" /\ Len(w) >= 1 /\ \A i \in 1..Len(w) : w[i] \in Symbols
    BY LenProperties, ElementOfSeq DEF C!IsCluster, AnyWord
  <1>2. /\ at \in Nat /\ at <= Len(w) /\ at # 1 /\ (at # 0 => w[at] = "t")
        /\ \A i \in 1..Len(w) : (at = 0 \/ i < at) => w[i] # "t"
    BY FirstLetterT
  <1>3. \A i \in 1..Len(w) : <<"-", w[i]>> \in AnyWord
    <2>1. "-" \in Symbols
      BY <1>1
    <2>2. QED
      BY <1>1, <2>1 DEF AnyWord
  <1>4. \A j : Remaining(w, j) = IF at = 0 THEN C!Letters(w, j, Len(w))
                                 ELSE C!Letters(w, j, at - 1) \o pair
    BY DEF Remaining
  <1>5. at # 0 => k <= at
    OBVIOUS
  <1>6. argument \in AnyWord
    <2>1. \A i \in at + 1..Len(w) : w[i] \in Symbols
      BY <1>1, <1>2
    <2>2. QED
      BY <1>1, <1>2, <2>1, SubSeqProperties DEF AnyWord
  <1>7. at # 0 => pair \in Seq(AnyWord)
    <2>1. at # 0 => <<"-", "t">> \in AnyWord
      BY <1>2, <1>3
    <2> HIDE DEF argument, at
    <2>2. QED
      BY <1>6, <2>1
  <1>71. C!LastLetter(w) = IF at = 0 THEN Len(w) ELSE at
    BY DEF C!LastLetter
  <1> HIDE DEF at, argument, pair
  <1>72. C!LetterWord(w[k]) = <<"-", w[k]>>
    <2>1. k \in 2..C!LastLetter(w)
      BY <1>1, <1>2, <1>5, <1>71
    <2>2. w[k] # "-"
      BY <2>1 DEF C!HasLetter
    <2>3. QED
      BY <2>2 DEF C!LetterWord
  <1>8. CASE at = 0
    <2>1. w[k] # "t" /\ k # at
      BY <1>1, <1>2, <1>8
    <2>2. k + 1 \in 2..Len(w) + 1 /\ k + 1 <= Len(w) + 1 /\ Len(w) \in 1..Len(w) /\ k \in 2..Len(w) + 1
          /\ k <= Len(w) /\ k <= Len(w) + 1
      BY <1>1
    <2>3. C!Letters(w, k, Len(w)) = <<<<"-", w[k]>>>> \o C!Letters(w, k + 1, Len(w))
      BY <1>1, <1>72, <2>2, LettersFrom
    <2>4. C!Letters(w, k + 1, Len(w)) \in Seq(AnyWord)
      BY <1>1, <2>2, LettersFrom
    <2>5. k = Len(w) => C!Letters(w, k + 1, Len(w)) = <<>>
      BY <1>1, <2>2, LettersFrom
    <2>6. Remaining(w, k) = C!Letters(w, k, Len(w)) /\ Remaining(w, k + 1) = C!Letters(w, k + 1, Len(w))
      BY <1>4, <1>8
    <2>7. <<"-", w[k]>> \in AnyWord
      BY <1>1, <1>3
    <2>8. QED
      BY <1>8, <2>1, <2>3, <2>4, <2>5, <2>6, <2>7 DEF at
  <1>9. CASE at # 0 /\ k # at
    <2>1. w[k] # "t" /\ k + 1 <= at /\ k # Len(w)
      BY <1>1, <1>2, <1>5, <1>9
    <2>2. k + 1 \in 2..Len(w) + 1 /\ k + 1 <= at - 1 + 1 /\ at - 1 \in 1..Len(w)
          /\ k \in 2..Len(w) + 1 /\ k <= at - 1 /\ k <= at - 1 + 1
      BY <1>1, <1>2, <2>1
    <2> DEFINE z == C!Letters(w, k + 1, at - 1)
               s == <<<<"-", w[k]>>>>
    <2>3. C!Letters(w, k, at - 1) = s \o z
      BY <1>1, <1>72, <2>2, LettersFrom
    <2>4. z \in Seq(AnyWord)
      BY <1>1, <2>2, LettersFrom
    <2>5. Remaining(w, k) = C!Letters(w, k, at - 1) \o pair /\ Remaining(w, k + 1) = z \o pair
      BY <1>4, <1>9
    <2>6. s \in Seq(AnyWord) /\ <<"-", w[k]>> \in AnyWord
      BY <1>1, <1>3
    <2> HIDE DEF z, s
    <2>7. (s \o z) \o pair = s \o (z \o pair)
      BY <1>7, <1>9, <2>4, <2>6, Regroup
    <2>8. z \o pair \in Seq(AnyWord)
      BY <1>7, <1>9, <2>4, ConcatProperties
    <2>9. QED
      BY <1>9, <2>1, <2>3, <2>5, <2>6, <2>7, <2>8 DEF at, s
  <1>10. CASE k = at
    <2>1. w[k] = "t" /\ at # 0 /\ at \in Nat
      BY <1>1, <1>2, <1>10
    <2>2. k \in 2..Len(w) + 1 /\ k <= at - 1 + 1 /\ at - 1 \in 1..Len(w) /\ k = at - 1 + 1
      BY <1>1, <1>2, <1>10, <2>1
    <2>3. C!Letters(w, k, at - 1) = <<>>
      BY <1>1, <2>2, LettersFrom
    <2>4. Remaining(w, k) = <<>> \o pair
      BY <1>4, <2>1, <2>3
    <2>5. <<>> \o pair = pair
      BY <1>7, <2>1, ConcatEmptySeq
    <2>6. <<"-", w[k]>> \in AnyWord
      BY <1>1, <1>3
    <2>7. QED
      BY <1>6, <1>10, <2>1, <2>4, <2>5, <2>6 DEF at, argument, pair
  <1>11. QED
    BY <1>8, <1>9, <1>10 DEF at

LEMMA ClusterStep ==
  ASSUME LineType, C!Ordinary(words), NEW n \in 0..Len(words), n < Len(words), Reading(n),
         NEW k \in 2..Len(words[n + 1]), InCluster(n, C!ByWord(words)[n], k), parsing = "on", C!Next
  PROVE  Kept
  <1> DEFINE m == C!ByWord(words)[n]
             w == words[n + 1]
             l == C!ByLetter(m, w)[k - 1]
             x == Ahead(n + 1) \o Moved(m.rest)
             letter == <<"-", w[k]>>
             at == C!ArgumentLetter(w)
             argument == SubSeq(w, at + 1, Len(w))
  <1>1. /\ m \in Meanings /\ C!Going(m) /\ ~m.behind /\ (m.rest = <<>> => ~has_double_dash)
        /\ \A i \in 1..n : words[i] # <<"--">>
    BY DEF Reading
  <1>2. /\ C!IsCluster(w) /\ k \in 2..Len(w) /\ C!Going(l) /\ l.rest = m.rest /\ ~l.behind
        /\ args = Remaining(w, k) \o x /\ Reads(l) /\ (at # 0 => k <= at)
    BY DEF InCluster
  <1>3. words \in Seq(AnyWord) /\ Len(words) \in Nat /\ n + 1 \in 0..Len(words) /\ n + 1 \in 1..Len(words)
    BY LenProperties DEF LineType
  <1>4. w \in AnyWord
    BY <1>3, AheadWords
  <1>5. C!ByWord(words)[n + 1] = C!Letter(m, w)
    <2>1. C!ByWord(words)[n + 1] = C!Word(m, w)
      BY <1>3, WordByWord
    <2>2. C!Word(m, w) = C!Letter(m, w)
      BY <1>1, <1>2, <1>4, WordIs
    <2>3. QED
      BY <2>1, <2>2
  <1>6. x \in Seq(AnyWord)
    <2>1. Ahead(n + 1) \in Seq(AnyWord)
      BY <1>3, AheadWords
    <2>2. Moved(m.rest) \in Seq(AnyWord)
      BY <1>1, MovedWords DEF Meanings
    <2>3. QED
      BY <2>1, <2>2, ConcatProperties
  <1>7. UNCHANGED words
    BY DEF C!Next, C!Cluster, C!Assigned, C!Flag, C!TakesArgument, C!HelpOrUnknown, C!DoubleDash,
           C!Plain, C!NoneLeft, C!Exit
  <1>8. Len(w) \in Nat /\ Len(w) >= 1 /\ k - 1 \in 1..Len(w) /\ k \in 1..Len(w) /\ Len(w) \in 1..Len(w)
    BY <1>2, <1>4, LenProperties DEF AnyWord
  <1>9. l \in Meanings
    BY <1>1, <1>4, <1>8, LettersMean
  <1>10. C!ByLetter(m, w)[k] = C!Chosen(l, C!Option(letter))
    <2>1. C!ByLetter(m, w)[k] = C!NextLetter(l, w[k])
      BY <1>2, <1>4, <1>8, LetterByLetter
    <2>2. QED
      BY <1>2, <2>1 DEF C!NextLetter
  <1>11. /\ letter \in AnyWord
         /\ k # at => /\ w[k] # "t" /\ Remaining(w, k + 1) \in Seq(AnyWord)
                      /\ Remaining(w, k) = <<letter>> \o Remaining(w, k + 1)
                      /\ at # 0 => k + 1 <= at
                      /\ k = Len(w) => Remaining(w, k + 1) = <<>>
         /\ k = at => /\ w[k] = "t" /\ argument \in AnyWord
                      /\ Remaining(w, k) = <<letter, argument>>
    <2>1. ~C!HasLetter(w, "-")
      BY <1>2, <1>3, LenProperties DEF C!Ordinary
    <2>2. QED
      BY <1>2, <1>4, <2>1, RemainingIs
  <1>12. C!Letter(m, w) = IF C!ByLetter(m, w)[Len(w)].awaits = "nothing" \/ at = Len(w)
                          THEN C!ByLetter(m, w)[Len(w)]
                          ELSE C!Argument(C!ByLetter(m, w)[Len(w)], argument)
    BY DEF C!Letter
  <1>13. ~C!Going(C!ByLetter(m, w)[k]) => C!ByLetter(m, w)[Len(w)] = C!ByLetter(m, w)[k]
    BY <1>4, <1>8, LettersStay
  <1>14. at # Len(w)
    <2>1. C!NeedsNext(w) => ~C!IsCluster(w)
      BY <1>3, LenProperties DEF C!Ordinary
    <2>2. QED
      BY <1>2, <2>1 DEF C!NeedsNext
  <1>15. C!Option(letter) \in C!WithArgument <=> w[k] = "t"
    BY LetterOption
  <1>16. C!IsOption(letter)
    <2>1. letter # <<>> /\ letter[1] = "-" /\ Len(letter) = 2
      OBVIOUS
    <2> HIDE DEF letter
    <2>2. QED
      BY <2>1 DEF C!IsOption
  <1>17. w # <<"--">>
    BY <1>2, <1>4, KindsOfWords DEF C!IsDashes
  <1>18. \A i \in 1..n + 1 : words[i] # <<"--">>
    BY <1>1, <1>3, <1>17
  <1> DEFINE L == C!ByLetter(m, w)
             r == L[k]
             p == C!ByWord(words)[n + 1]
  <1> HIDE DEF m, w, l, x, letter, at, argument, L, p
  <1>20. args # <<>> /\ Head(args) = letter
    <2>1. CASE k # at
      <3> DEFINE y == Remaining(w, k + 1)
      <3>1. y \in Seq(AnyWord) /\ letter \in AnyWord
        BY <1>11, <2>1
      <3>2. args = (<<letter>> \o y) \o x
        BY <1>2, <1>11, <2>1
      <3>3. /\ <<letter>> \o y \in Seq(AnyWord) /\ <<letter>> \o y # <<>>
            /\ Head(<<letter>> \o y) = letter
        BY <3>1, OneInFront
      <3> DEFINE z == <<letter>> \o y
      <3> HIDE DEF z, y
      <3>4. z \o x # <<>> /\ Head(z \o x) = Head(z)
        BY <1>6, <3>3, HeadTailOfConcat DEF z
      <3>5. QED
        BY <3>2, <3>3, <3>4 DEF z
    <2>2. CASE k = at
      <3>1. args = <<letter, argument>> \o x
        BY <1>2, <1>11, <2>2
      <3>2. QED
        BY <1>6, <1>11, <2>2, <3>1, TwoInFront
    <2>3. QED
      BY <2>1, <2>2
  <1>21. ~C!IsPlain(letter) /\ ~C!IsDashes(letter) /\ ~C!IsCluster(letter) /\ ~C!IsAssigned(letter)
    BY <1>11, <1>16, KindsOfWords
  <1>22. C!Flag \/ C!TakesArgument \/ C!HelpOrUnknown
    BY <1>20, <1>21 DEF C!Next, C!Cluster, C!Assigned, C!DoubleDash, C!Plain, C!NoneLeft
  <1>23. r = C!Chosen(l, C!Option(letter))
    BY <1>10 DEF L
  <1>30. CASE C!Flag
    <2>1. C!Option(letter) \notin C!WithArgument
      BY <1>20, <1>30 DEF C!Flag, C!WithArgument
    <2>2. k # at
      BY <1>11, <1>15, <2>1
    <2>3. args' = Tail(args) /\ UNCHANGED <<has_double_dash, parsing>>
      BY <1>30 DEF C!Flag
    <2>4. args' = Remaining(w, k + 1) \o x
      <3> DEFINE y == Remaining(w, k + 1)
                 z == <<letter>> \o y
      <3>1. y \in Seq(AnyWord) /\ letter \in AnyWord
        BY <1>11, <2>2
      <3>2. args = z \o x
        BY <1>2, <1>11, <2>2
      <3>3. z \in Seq(AnyWord) /\ z # <<>> /\ Tail(z) = y
        BY <3>1, OneInFront
      <3> HIDE DEF y, z
      <3>4. Tail(z \o x) = y \o x
        BY <1>6, <3>3, HeadTailOfConcat
      <3>5. QED
        BY <2>3, <3>2, <3>4 DEF y
    <2>5. /\ r \in Meanings /\ C!Going(r) /\ ReadsNext(r)
          /\ r.rest = m.rest /\ ~r.behind
      <3>1. r = C!Chosen(l, C!Option(Head(args)))
        BY <1>20, <1>23
      <3>2. l \in Meanings /\ C!Going(l) /\ Reads(l) /\ l.rest = m.rest /\ ~l.behind
        BY <1>2, <1>9
      <3> HIDE DEF r
      <3>3. r \in Meanings /\ C!Going(r) /\ ReadsNext(r) /\ r.rest = l.rest /\ r.behind = l.behind
        BY <1>30, <3>1, <3>2, FlagReads
      <3>4. QED
        BY <3>2, <3>3
    <2>6. CASE k = Len(w)
      <3>1. Remaining(w, k + 1) = <<>> /\ <<>> \o x = x
        BY <1>6, <1>11, <2>2, <2>6, ConcatEmptySeq
      <3>2. p = r
        BY <1>5, <1>12, <2>5, <2>6 DEF C!Going, L, p
      <3>3. args' = Ahead(n + 1) \o Moved(p.rest)
        BY <2>4, <2>5, <3>1, <3>2 DEF x
      <3>4. QED
        BY <1>1, <1>3, <1>7, <1>18, <2>3, <2>5, <3>2, <3>3, ReadOn DEF p
    <2>7. CASE k # Len(w)
      <3>1. k + 1 \in 2..Len(w) /\ k + 1 - 1 = k
        BY <1>8, <2>7
      <3>2. x' = x /\ m' = m /\ w' = w /\ at' = at /\ L' = L
        BY <1>7 DEF x, m, w, at, L, Ahead, Moved
      <3>3. InCluster(n, m, k + 1)'
        <4>1. /\ C!IsCluster(w) /\ k + 1 \in 2..Len(w) /\ C!Going(L[k + 1 - 1])
              /\ L[k + 1 - 1].rest = m.rest /\ ~L[k + 1 - 1].behind
              /\ args' = Remaining(w, k + 1) \o x
              /\ ReadsNext(L[k + 1 - 1])
              /\ at # 0 => k + 1 <= at
          BY <1>2, <1>11, <2>2, <2>4, <2>5, <3>1
        <4> DEFINE g == L[k + 1 - 1]
        <4>2. g' = g /\ Remaining(w, k + 1)' = Remaining(w, k + 1)
          BY <3>2 DEF Remaining
        <4>3. Reads(g)'
          BY <4>1, <4>2 DEF Reads, ReadsNext
        <4>4. /\ C!IsCluster(w') /\ k + 1 \in 2..Len(w') /\ C!Going(g')
              /\ g'.rest = m'.rest /\ ~g'.behind
              /\ args' = Remaining(w, k + 1)' \o x'
              /\ at' # 0 => k + 1 <= at'
          BY <3>2, <4>1, <4>2
        <4>5. QED
          BY <4>3, <4>4 DEF InCluster, x, w, L, at
      <3>4. Reading(n)'
        BY <1>1, <1>3, <1>7, <2>3, <3>1, <3>2, <3>3 DEF Reading, m, w
      <3>5. QED
        BY <1>7, <2>3, <3>4 DEF Kept
    <2>8. QED
      BY <2>6, <2>7
  <1>31. CASE C!TakesArgument
    <2>1. C!Option(letter) \in C!WithArgument
      BY <1>20, <1>31 DEF C!TakesArgument
    <2>2. k = at /\ argument \in AnyWord
      BY <1>11, <1>15, <2>1
    <2>3. args = <<letter, argument>> \o x
      BY <1>2, <1>11, <2>2
    <2>4. args[2] = argument /\ Tail(Tail(args)) = x /\ Len(args) # 1
      <3>1. letter \in AnyWord /\ argument \in AnyWord
        BY <1>11, <2>2
      <3>2. (<<letter, argument>> \o x)[2] = argument
        BY <1>6, <3>1, TwoInFront
      <3>3. Tail(Tail(<<letter, argument>> \o x)) = x
        BY <1>6, <3>1, TwoInFront
      <3>4. Len(<<letter, argument>> \o x) # 1
        BY <1>6, <3>1, TwoInFront
      <3>5. QED
        BY <2>3, <3>2, <3>3, <3>4
    <2>5. args' = x /\ UNCHANGED <<has_double_dash, parsing>>
      BY <1>31, <2>4 DEF C!TakesArgument
    <2>6. r.awaits = C!Option(letter) /\ r.awaits # "nothing"
      <3>1. r.awaits = C!Option(letter)
        BY <1>2, <1>9, <1>23, <2>1, ChosenIs
      <3>2. QED
        BY <2>1, <3>1 DEF C!WithArgument
    <2>7. L[Len(w)] = r
      BY <1>13, <2>6 DEF C!Going, L
    <2>8. p = C!Argument(r, argument)
      BY <1>5, <1>12, <1>14, <2>6, <2>7 DEF L, p
    <2>9. /\ p \in Meanings /\ C!Going(p) /\ ReadsNext(p)
          /\ p.rest = m.rest /\ ~p.behind
      <3>1. p = C!Argument(C!Chosen(l, C!Option(Head(args))), args[2])
        BY <1>20, <1>23, <2>4, <2>8
      <3>2. l \in Meanings /\ C!Going(l) /\ Reads(l) /\ l.rest = m.rest /\ ~l.behind
        BY <1>2, <1>9
      <3>3. C!TakesArgument /\ Len(args) # 1 /\ args[2] \in AnyWord
        BY <1>31, <2>2, <2>4
      <3> HIDE DEF r
      <3>4. p \in Meanings /\ C!Going(p) /\ ReadsNext(p) /\ p.rest = l.rest /\ p.behind = l.behind
        BY <3>1, <3>2, <3>3, TakesReads
      <3>5. QED
        BY <3>2, <3>4
    <2>10. args' = Ahead(n + 1) \o Moved(p.rest)
      BY <2>5, <2>9 DEF x
    <2>11. QED
      BY <1>1, <1>3, <1>7, <1>18, <2>5, <2>9, <2>10, ReadOn DEF p
  <1>32. CASE C!HelpOrUnknown
    <2> DEFINE o == C!Option(letter)
    <2>1. (o \in {"help", "version"} /\ parsing' = "help") \/ (o = "unknown" /\ parsing' = "error")
      BY <1>20, <1>32 DEF C!HelpOrUnknown, C!Exit
    <2> HIDE DEF o
    <2>2. r.end = parsing' /\ r.awaits = "nothing"
      <3>1. C!Going(l) /\ l \in Meanings
        BY <1>2, <1>9
      <3>2. r = C!Chosen(l, o)
        BY <1>23 DEF o
      <3> HIDE DEF r
      <3>3. o \in {"help", "version"} => r.end = "help" /\ r.awaits = "nothing"
        BY <3>1, <3>2, ChosenIs
      <3>4. o = "unknown" => r.end = "error" /\ r.awaits = "nothing"
        BY <3>1, <3>2, ChosenIs
      <3>5. QED
        BY <2>1, <3>3, <3>4
    <2>3. L[Len(w)] = r
      BY <1>13, <2>1, <2>2 DEF C!Going, L
    <2>4. p = r
      BY <1>5, <1>12, <2>2, <2>3 DEF L, p
    <2>5. QED
      BY <1>3, <1>7, <2>1, <2>2, <2>4, EndsAsMeant DEF p
  <1>33. QED
    BY <1>22, <1>30, <1>31, <1>32

LEMMA ParseReads ==
  ASSUME LineType, LineType', ReadingInv, C!Next
  PROVE  ReadingInv'
  <1>1. words' = words /\ parsing = "on"
    BY DEF C!Next, C!Cluster, C!Assigned, C!Flag, C!TakesArgument, C!HelpOrUnknown, C!DoubleDash,
           C!Plain, C!NoneLeft, C!Exit, C!First
  <1>2. ASSUME C!Ordinary(words) PROVE Kept
    <2>1. PICK n \in 0..Len(words) : Reading(n)
      BY <1>1, <1>2 DEF ReadingInv
    <2>2. Len(words) \in Nat
      BY LenProperties DEF LineType
    <2>3. CASE n < Len(words) /\ BetweenWords(n, C!ByWord(words)[n])
      BY <1>1, <1>2, <2>1, <2>3, WordStep
    <2>4. CASE n = Len(words) /\ BetweenWords(n, C!ByWord(words)[n])
      BY <1>1, <2>1, <2>4, EndStep
    <2>5. CASE n < Len(words) /\ \E k \in 2..Len(words[n + 1]) : InCluster(n, C!ByWord(words)[n], k)
      <3>1. PICK k \in 2..Len(words[n + 1]) : InCluster(n, C!ByWord(words)[n], k)
        BY <2>5
      <3>2. QED
        BY <1>1, <1>2, <2>1, <2>5, <3>1, ClusterStep
    <2>6. CASE n < Len(words) /\ AtAssigned(n, C!ByWord(words)[n])
      BY <1>1, <2>1, <2>6, AssignedStep
    <2>7. QED
      <3>1. n < Len(words) \/ n = Len(words)
        BY <2>2
      <3>2. \/ BetweenWords(n, C!ByWord(words)[n])
            \/ n < Len(words) /\ \E k \in 2..Len(words[n + 1]) : InCluster(n, C!ByWord(words)[n], k)
            \/ n < Len(words) /\ AtAssigned(n, C!ByWord(words)[n])
        BY <2>1 DEF Reading
      <3>3. QED
        BY <2>3, <2>4, <2>5, <2>6, <3>1, <3>2
  <1>3. Kept => (parsing' = "on" => \E n \in 0..Len(words') : Reading(n)') /\ ParsedAsMeant'
    <2>1. parsing' = "on" => ParsedAsMeant'
      BY DEF ParsedAsMeant, C!ParsedAsMeant
    <2>2. QED
      BY <1>1, <2>1 DEF Kept
  <1>4. C!Ordinary(words') => C!Ordinary(words)
    BY <1>1
  <1>5. QED
    BY <1>2, <1>3, <1>4 DEF ReadingInv

LEMMA ReadingInit == Init => ReadingInv
  <1> SUFFICES ASSUME Init PROVE ReadingInv
    OBVIOUS
  <1>1. LineType
    BY InitInv DEF FrontEndInv
  <1>2. /\ args = words /\ plugins = <<>> /\ has_double_dash = FALSE /\ parsing = "on"
        /\ saver = C!Unset /\ timeout = C!Unset /\ info_box = C!Unset
    BY DEF Init, C!Init
  <1>3. words \in Seq(AnyWord) /\ Len(words) \in Nat /\ 0 \in 0..Len(words)
    BY <1>1, LenProperties DEF LineType
  <1> DEFINE m == C!ByWord(words)[0]
  <1>4. m = C!Nothing /\ m \in Meanings /\ C!Going(m) /\ ~m.behind
    BY <1>3, WordByWord, NothingMeant
  <1>5. m.rest = <<>> /\ Reads(m)
    BY <1>2, <1>4 DEF C!Nothing, Reads
  <1>6. Ahead(0) = words
    <2>1. SubSeq(words, 1, Len(words)) = words
      BY <1>3, SubSeqFull
    <2>2. QED
      BY <2>1 DEF Ahead
  <1>7. words \o <<>> = words
    BY <1>3, ConcatEmptySeq
  <1> HIDE DEF m
  <1>8. BetweenWords(0, m)
    BY <1>2, <1>5, <1>6, <1>7 DEF BetweenWords, Moved
  <1>9. Reading(0)
    BY <1>2, <1>4, <1>8 DEF Reading, m
  <1>10. ParsedAsMeant
    BY <1>2 DEF ParsedAsMeant, C!ParsedAsMeant
  <1>11. QED
    BY <1>3, <1>9, <1>10 DEF ReadingInv

LEMMA ReadingNext == FrontEndInv /\ FrontEndInv' /\ ReadingInv /\ [Next]_vars => ReadingInv'
  <1> SUFFICES ASSUME FrontEndInv, FrontEndInv', ReadingInv, [Next]_vars PROVE ReadingInv'
    OBVIOUS
  <1>1. CASE Parse
    BY <1>1, ParseReads DEF Parse, FrontEndInv
  <1>2. CASE UNCHANGED line
    <2>1. words' = words /\ parsing' = parsing
      BY <1>2 DEF line
    <2>2. \A n : Reading(n) => Reading(n)'
      <3>1. \A m : Reads(m)' <=> Reads(m)
        BY <1>2 DEF line, Reads
      <3>2. \A n : Ahead(n)' = Ahead(n)
        BY <1>2 DEF line, Ahead
      <3>3. \A rest : Moved(rest)' = Moved(rest)
        BY <1>2 DEF line, Moved
      <3>4. \A n, m : BetweenWords(n, m)' <=> BetweenWords(n, m)
        BY <1>2, <3>1, <3>2, <3>3 DEF line, BetweenWords
      <3>5. \A n, m, k : InCluster(n, m, k)' <=> InCluster(n, m, k)
        <4> TAKE n, m, k
        <4> DEFINE l == C!ByLetter(m, words[n + 1])[k - 1]
        <4>1. words' = words /\ args' = args
          BY <1>2 DEF line
        <4>2. l' = l /\ Remaining(words[n + 1], k)' = Remaining(words[n + 1], k)
          BY <4>1 DEF Remaining
        <4> HIDE DEF l
        <4>3. Reads(l)' <=> Reads(l)
          BY <1>2, <4>2 DEF line, Reads
        <4>4. (Ahead(n + 1) \o Moved(m.rest))' = Ahead(n + 1) \o Moved(m.rest)
          BY <3>2, <3>3
        <4>5. QED
          BY <4>1, <4>2, <4>3, <4>4 DEF InCluster, l
      <3>6. \A n, m : AtAssigned(n, m)' <=> AtAssigned(n, m)
        BY <1>2, <3>1, <3>2, <3>3 DEF line, AtAssigned
      <3>7. QED
        BY <1>2, <3>4, <3>5, <3>6 DEF line, Reading
    <2>3. ParsedAsMeant => ParsedAsMeant'
      BY <1>2 DEF line, ParsedAsMeant, C!ParsedAsMeant
    <2>4. QED
      BY <2>1, <2>2, <2>3 DEF ReadingInv
  <1>3. Parse \/ UNCHANGED line
    BY DEF Next, ReadUserSettings, Parsed, Configure, Exec, vars
  <1>4. QED
    BY <1>1, <1>2, <1>3

(* ParsedAsMeant (vlock.sh:193-337): whatever the command line, if every    *)
(* argument follows its option, none after = is zero and no cluster holds a *)
(* zero or a dash among its letters, the loop of main() ends with what its  *)
(* words mean from the left to the right.                                   *)
THEOREM OptionsAreMeant == Spec => []ParsedAsMeant
  <1>1. ReadingInv => ParsedAsMeant
    <2>1. ~C!Ordinary(words) => ParsedAsMeant
      BY DEF ParsedAsMeant, C!ParsedAsMeant
    <2>2. QED
      BY <2>1 DEF ReadingInv
  <1>2. QED
    BY <1>1, Invariance, ReadingInit, ReadingNext, PTL DEF Spec
=============================================================================
