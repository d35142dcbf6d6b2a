-------------------------- MODULE Dependencies_proofs --------------------------
(***************************************************************************)
(* Theorems about Dependencies for every finite set of names, every        *)
(* command line, whatever is installed and whatever the plugins declare;   *)
(* about TSort, which does what TopologicalOrder describes for every list  *)
(* of nodes and every list of edges between them; and about both: what     *)
(* tsort() returns for the plugins is an order that SortPlugins may take.  *)
(***************************************************************************)
EXTENDS Dependencies, TSort, FiniteSetTheorems, SequenceTheorems, TLAPS

-----------------------------------------------------------------------------
(* Lemmas about lists                                                      *)

Once(s) == \A i, j \in 1..Len(s) : s[i] = s[j] => i = j

LEMMA MembersOfList ==
    ASSUME NEW S, NEW s \in Seq(S)
    PROVE  /\ ToSet(s) = {s[i] : i \in 1..Len(s)}
           /\ \A i \in 1..Len(s) : s[i] \in ToSet(s)
           /\ ToSet(s) \subseteq S
BY DEF ToSet

LEMMA RemovedAt ==
    ASSUME NEW S, NEW s \in Seq(S), NEW i \in 1..Len(s)
    PROVE  /\ RemoveAt(s, i) \in Seq(S)
           /\ Len(RemoveAt(s, i)) = Len(s) - 1
           /\ \A j \in 1..Len(s) - 1 : RemoveAt(s, i)[j] = IF j < i THEN s[j] ELSE s[j + 1]
<1> DEFINE u == SubSeq(s, 1, i - 1)
           v == SubSeq(s, i + 1, Len(s))
<1>0. Len(s) \in Nat /\ i \in Nat /\ \A j \in 1..Len(s) : s[j] \in S
  OBVIOUS
<1>1. u \in Seq(S) /\ Len(u) = i - 1 /\ \A j \in 1..i - 1 : u[j] = s[j]
  <2>1. \A j \in 1..i - 1 : s[j] \in S
    BY <1>0
  <2>2. /\ u \in Seq(S) /\ Len(u) = IF 1 <= i - 1 THEN (i - 1) - 1 + 1 ELSE 0
        /\ \A j \in 1..(i - 1) - 1 + 1 : u[j] = s[1 + j - 1]
    BY <1>0, <2>1, SubSeqProperties
  <2> QED BY <1>0, <2>2
<1>2. v \in Seq(S) /\ Len(v) = Len(s) - i /\ \A j \in 1..Len(s) - i : v[j] = s[i + j]
  <2>1. \A j \in i + 1..Len(s) : s[j] \in S
    BY <1>0
  <2>2. /\ v \in Seq(S) /\ Len(v) = IF i + 1 <= Len(s) THEN Len(s) - (i + 1) + 1 ELSE 0
        /\ \A j \in 1..Len(s) - (i + 1) + 1 : v[j] = s[(i + 1) + j - 1]
    BY <1>0, <2>1, SubSeqProperties
  <2> QED BY <1>0, <2>2
<1> HIDE DEF u, v
<1>3. RemoveAt(s, i) = u \o v
  BY DEF RemoveAt, u, v
<1>4. /\ u \o v \in Seq(S) /\ Len(u \o v) = Len(u) + Len(v)
      /\ \A j \in 1..Len(u) + Len(v) : (u \o v)[j] = IF j <= Len(u) THEN u[j] ELSE v[j - Len(u)]
  BY <1>1, <1>2, ConcatProperties
<1>5. ASSUME NEW j \in 1..Len(s) - 1
      PROVE  (u \o v)[j] = IF j < i THEN s[j] ELSE s[j + 1]
  <2>1. j \in 1..Len(u) + Len(v)
    BY <1>0, <1>1, <1>2
  <2>2. CASE j < i
    <3>1. j \in 1..i - 1 /\ j <= Len(u)
      BY <1>0, <1>1, <2>2
    <3> QED BY <1>1, <1>4, <2>1, <2>2, <3>1
  <2>3. CASE ~(j < i)
    <3>1. j - Len(u) \in 1..Len(s) - i /\ ~(j <= Len(u)) /\ i + (j - Len(u)) = j + 1
      BY <1>0, <1>1, <2>3
    <3> QED BY <1>2, <1>4, <2>1, <2>3, <3>1
  <2> QED BY <2>2, <2>3
<1> QED BY <1>0, <1>1, <1>2, <1>3, <1>4, <1>5

LEMMA RemovedMembers ==
    ASSUME NEW S, NEW s \in Seq(S), NEW i \in 1..Len(s)
    PROVE  /\ ToSet(RemoveAt(s, i)) \subseteq ToSet(s)
           /\ ToSet(s) \ {s[i]} \subseteq ToSet(RemoveAt(s, i))
           /\ Once(s) => Once(RemoveAt(s, i)) /\ ToSet(RemoveAt(s, i)) = ToSet(s) \ {s[i]}
<1> DEFINE r == RemoveAt(s, i)
<1>0. Len(s) \in Nat /\ i \in Nat
  OBVIOUS
<1>1. r \in Seq(S) /\ Len(r) = Len(s) - 1
      /\ \A j \in 1..Len(s) - 1 : r[j] = IF j < i THEN s[j] ELSE s[j + 1]
  BY RemovedAt
<1> HIDE DEF r
<1>2. ToSet(s) = {s[j] : j \in 1..Len(s)} /\ ToSet(r) = {r[j] : j \in 1..Len(s) - 1}
  BY <1>1, MembersOfList
<1>3. \A j \in 1..Len(s) - 1 : \E k \in 1..Len(s) \ {i} : r[j] = s[k] /\ k = IF j < i THEN j ELSE j + 1
  <2> TAKE j \in 1..Len(s) - 1
  <2>1. CASE j < i
    <3>1. j \in 1..Len(s) \ {i}
      BY <1>0, <2>1
    <3> QED BY <1>1, <2>1, <3>1
  <2>2. CASE ~(j < i)
    <3>1. j + 1 \in 1..Len(s) \ {i}
      BY <1>0, <2>2
    <3> QED BY <1>1, <2>2, <3>1
  <2> QED BY <2>1, <2>2
<1>4. \A k \in 1..Len(s) \ {i} : \E j \in 1..Len(s) - 1 : r[j] = s[k]
  <2> TAKE k \in 1..Len(s) \ {i}
  <2>1. CASE k < i
    <3>1. k \in 1..Len(s) - 1
      BY <1>0, <2>1
    <3> QED BY <1>1, <2>1, <3>1
  <2>2. CASE ~(k < i)
    <3>1. k - 1 \in 1..Len(s) - 1 /\ ~(k - 1 < i) /\ (k - 1) + 1 = k
      BY <1>0, <2>2
    <3> QED BY <1>1, <3>1
  <2> QED BY <2>1, <2>2
<1>5. ToSet(r) \subseteq ToSet(s)
  BY <1>2, <1>3
<1>6. ToSet(s) \ {s[i]} \subseteq ToSet(r)
  BY <1>2, <1>4
<1>7. ASSUME Once(s) PROVE Once(r) /\ ToSet(r) = ToSet(s) \ {s[i]}
  <2>1. \A j \in 1..Len(s) - 1 : r[j] # s[i]
    BY <1>3, <1>7 DEF Once
  <2>2. \A j, k \in 1..Len(s) - 1 : r[j] = r[k] => j = k
    <3> TAKE j, k \in 1..Len(s) - 1
    <3>1. PICK m \in 1..Len(s) \ {i} : r[j] = s[m] /\ m = IF j < i THEN j ELSE j + 1
      BY <1>3
    <3>2. PICK n \in 1..Len(s) \ {i} : r[k] = s[n] /\ n = IF k < i THEN k ELSE k + 1
      BY <1>3
    <3>3. r[j] = r[k] => m = n
      BY <1>7, <3>1, <3>2 DEF Once
    <3> QED BY <1>0, <3>1, <3>2, <3>3
  <2>3. Once(r)
    BY <1>1, <2>2 DEF Once
  <2> QED BY <1>2, <1>5, <1>6, <2>1, <2>3
<1> QED BY <1>5, <1>6, <1>7 DEF r

(* The first occurrence of e is its only one. *)
LEMMA RemovedFirst ==
    ASSUME NEW S, NEW s \in Seq(S), Once(s), NEW e
    PROVE  /\ RemoveFirst(s, e) \in Seq(S)
           /\ Once(RemoveFirst(s, e))
           /\ ToSet(RemoveFirst(s, e)) = ToSet(s) \ {e}
<1>1. CASE \E i \in 1..Len(s) : s[i] = e
  <2>1. PICK i \in 1..Len(s) : s[i] = e
    BY <1>1
  <2>2. {k \in 1..Len(s) : s[k] = e} = {i}
    BY <2>1 DEF Once
  <2>3. Min({i}) = i
    <3>1. i <= i
      OBVIOUS
    <3> QED BY <3>1 DEF Min
  <2>4. SelectInSeq(s, LAMBDA v : v = e) = i
    BY <2>2, <2>3 DEF SelectInSeq
  <2>5. RemoveFirst(s, e) = RemoveAt(s, i)
    BY <1>1, <2>4 DEF RemoveFirst
  <2> QED BY <2>1, <2>5, RemovedAt, RemovedMembers
<1>2. CASE ~\E i \in 1..Len(s) : s[i] = e
  <2>1. RemoveFirst(s, e) = s
    BY <1>2 DEF RemoveFirst
  <2>2. e \notin ToSet(s)
    BY <1>2, MembersOfList
  <2> QED BY <2>1, <2>2
<1> QED BY <1>1, <1>2

LEMMA Appended ==
    ASSUME NEW S, NEW s \in Seq(S), NEW e \in S
    PROVE  /\ Append(s, e) \in Seq(S)
           /\ ToSet(Append(s, e)) = ToSet(s) \cup {e}
           /\ Once(s) /\ e \notin ToSet(s) => Once(Append(s, e))
<1>1. /\ Append(s, e) \in Seq(S) /\ Len(Append(s, e)) = Len(s) + 1 /\ Len(s) \in Nat
      /\ \A i \in 1..Len(s) : Append(s, e)[i] = s[i]
      /\ Append(s, e)[Len(s) + 1] = e
  OBVIOUS
<1>2. \A i \in 1..Len(s) + 1 : i \in 1..Len(s) \/ i = Len(s) + 1
  BY <1>1
<1>3. \A i \in 1..Len(s) : i \in 1..Len(s) + 1
  BY <1>1
<1>4. Len(s) + 1 \in 1..Len(s) + 1
  BY <1>1
<1>5. /\ ToSet(s) = {s[i] : i \in 1..Len(s)}
      /\ ToSet(Append(s, e)) = {Append(s, e)[i] : i \in 1..Len(s) + 1}
  BY <1>1, MembersOfList
<1>6. ToSet(Append(s, e)) = ToSet(s) \cup {e}
  BY <1>1, <1>2, <1>3, <1>4, <1>5
<1>7. ASSUME Once(s), e \notin ToSet(s) PROVE Once(Append(s, e))
  <2>1. \A i \in 1..Len(s) : s[i] # e
    BY <1>5, <1>7
  <2> QED BY <1>1, <1>2, <1>7, <2>1 DEF Once
<1> QED BY <1>1, <1>6, <1>7

LEMMA HeadTaken ==
    ASSUME NEW S, NEW s \in Seq(S), s # <<>>, Once(s)
    PROVE  /\ Head(s) \in ToSet(s) /\ Tail(s) \in Seq(S) /\ Once(Tail(s))
           /\ ToSet(Tail(s)) = ToSet(s) \ {Head(s)}
<1>1. /\ Head(s) = s[1] /\ Tail(s) \in Seq(S) /\ Len(Tail(s)) = Len(s) - 1 /\ Len(s) \in Nat \ {0}
      /\ \A i \in 1..Len(s) - 1 : Tail(s)[i] = s[i + 1]
  <2>1. Len(s) \in Nat \ {0}
    OBVIOUS
  <2> QED BY <2>1, HeadTailProperties
<1>2. 1 \in 1..Len(s) /\ \A i \in 1..Len(s) - 1 : i + 1 \in 1..Len(s) /\ i + 1 # 1
  BY <1>1
<1>3. \A i \in 1..Len(s) : i = 1 \/ (i - 1 \in 1..Len(s) - 1 /\ (i - 1) + 1 = i)
  BY <1>1
<1>4. /\ ToSet(s) = {s[i] : i \in 1..Len(s)}
      /\ ToSet(Tail(s)) = {Tail(s)[i] : i \in 1..Len(s) - 1}
  BY <1>1, MembersOfList
<1>5. \A i, j \in 1..Len(s) - 1 : Tail(s)[i] = Tail(s)[j] => i = j
  <2> TAKE i, j \in 1..Len(s) - 1
  <2>1. Tail(s)[i] = Tail(s)[j] => i + 1 = j + 1
    BY <1>1, <1>2 DEF Once
  <2> QED BY <2>1
<1>6. \A i \in 1..Len(s) - 1 : Tail(s)[i] # s[1]
  BY <1>1, <1>2 DEF Once
<1>7. Once(Tail(s))
  BY <1>1, <1>5 DEF Once
<1>8. ToSet(Tail(s)) = ToSet(s) \ {s[1]}
  <2>1. ToSet(Tail(s)) \subseteq ToSet(s) \ {s[1]}
    BY <1>1, <1>2, <1>4, <1>6
  <2>2. \A i \in 1..Len(s) : s[i] = s[1] \/ s[i] \in ToSet(Tail(s))
    <3> TAKE i \in 1..Len(s)
    <3>1. CASE i = 1
      BY <3>1
    <3>2. CASE i # 1
      <4>1. i - 1 \in 1..Len(s) - 1 /\ Tail(s)[i - 1] = s[i]
        BY <1>1, <1>3, <3>2
      <4> QED BY <1>4, <4>1
    <3> QED BY <3>1, <3>2
  <2> QED BY <1>4, <2>1, <2>2
<1> QED BY <1>1, <1>2, <1>4, <1>7, <1>8

LEMMA ConcatMembers ==
    ASSUME NEW S, NEW s \in Seq(S), NEW t \in Seq(S)
    PROVE  /\ s \o t \in Seq(S)
           /\ Len(s \o t) = Len(s) + Len(t)
           /\ \A i \in 1..Len(s) : (s \o t)[i] = s[i]
           /\ ToSet(s \o t) = ToSet(s) \cup ToSet(t)
<1>1. /\ s \o t \in Seq(S)
      /\ Len(s \o t) = Len(s) + Len(t)
      /\ \A i \in 1..Len(s) + Len(t) : (s \o t)[i] = IF i <= Len(s) THEN s[i] ELSE t[i - Len(s)]
  BY ConcatProperties
<1>2. Len(s) \in Nat /\ Len(t) \in Nat
  OBVIOUS
<1>3. \A i \in 1..Len(s) : (s \o t)[i] = s[i]
  BY <1>1, <1>2
<1>4. \A i \in 1..Len(t) : (s \o t)[Len(s) + i] = t[i]
  <2> TAKE i \in 1..Len(t)
  <2>1. /\ Len(s) + i \in 1..Len(s) + Len(t) /\ ~(Len(s) + i <= Len(s))
        /\ (Len(s) + i) - Len(s) = i
    BY <1>2
  <2> QED BY <1>1, <2>1
<1>5. ToSet(s) = {s[i] : i \in 1..Len(s)} /\ ToSet(t) = {t[i] : i \in 1..Len(t)}
      /\ ToSet(s \o t) = {(s \o t)[i] : i \in 1..Len(s) + Len(t)}
  BY <1>1 DEF ToSet
<1>6. ToSet(s \o t) \subseteq ToSet(s) \cup ToSet(t)
  <2> SUFFICES ASSUME NEW i \in 1..Len(s) + Len(t) PROVE (s \o t)[i] \in ToSet(s) \cup ToSet(t)
    BY <1>5
  <2>1. CASE i <= Len(s)
    BY <1>1, <1>2, <1>5, <2>1
  <2>2. CASE ~(i <= Len(s))
    <3>1. i - Len(s) \in 1..Len(t)
      BY <1>2, <2>2
    <3> QED BY <1>1, <1>5, <2>2, <3>1
  <2> QED BY <2>1, <2>2
<1>7. ToSet(s) \cup ToSet(t) \subseteq ToSet(s \o t)
  <2>1. \A i \in 1..Len(s) : s[i] \in ToSet(s \o t)
    <3> TAKE i \in 1..Len(s)
    <3>1. i \in 1..Len(s) + Len(t)
      BY <1>2
    <3> QED BY <1>3, <1>5, <3>1
  <2>2. \A i \in 1..Len(t) : t[i] \in ToSet(s \o t)
    <3> TAKE i \in 1..Len(t)
    <3>1. Len(s) + i \in 1..Len(s) + Len(t)
      BY <1>2
    <3> QED BY <1>4, <1>5, <3>1
  <2> QED BY <1>5, <2>1, <2>2
<1> QED BY <1>1, <1>3, <1>6, <1>7

(* A list of the members of a finite set has them all. *)
LEMMA ListsOfSet ==
    ASSUME NEW S, IsFiniteSet(S), NEW s \in SetToSeqs(S)
    PROVE  s \in Seq(S) /\ ToSet(s) = S
<1> DEFINE n == Cardinality(S)
<1>1. n \in Nat
  BY FS_CardinalityType
<1>2. s \in [1..n -> S] /\ \A i, j \in 1..n : i # j => s[i] # s[j]
  BY DEF SetToSeqs
<1>3. s \in Injection(1..n, S)
  BY <1>2 DEF Injection, IsInjective
<1>4. Cardinality(1..n) = n
  BY <1>1, FS_Interval
<1>5. s \in Surjection(1..n, S)
  BY <1>3, <1>4, FS_Injection
<1>6. ToSet(s) = S
  BY <1>2, <1>5 DEF ToSet, Surjection
<1> QED BY <1>1, <1>2, <1>6

-----------------------------------------------------------------------------
(* The inductive invariant                                                 *)

Phases == {"load", "requires", "needs", "depends", "conflicts", "sort", "done"}

(* Every variable stays in its domain, and what is put down as required is *)
(* loaded.                                                                 *)
TypeInv ==
    /\ pc \in Phases
    /\ at \in Nat \ {0}
    /\ argv \in Seq(Names) /\ args \in Seq(Names) /\ plugins \in Seq(Names)
    /\ declared \subseteq Names \X Kinds \X Names
    /\ required_plugins \subseteq Loaded
    /\ pc # "done" => error = "none"
    /\ pc = "load" => at = 1

(* The plugins that the loop over them has passed. *)
Passed == {plugins[i] : i \in {j \in 1..Len(plugins) : j < at}}

(* The loop named label has been through all plugins of the final list. *)
Through(label) ==
    LET later == [needs |-> {"depends", "conflicts", "sort", "done"},
                  conflicts |-> {"sort", "done"}]
    IN  pc \in later[label] /\ error = "none"

(* What is needed is put down as required, so it can not be unloaded. *)
NeedsInv ==
    /\ pc = "needs" => \A p \in Passed : Dependencies(p, "needs") \subseteq required_plugins
    /\ Through("needs") => \A p \in Loaded : Dependencies(p, "needs") \subseteq required_plugins

ConflictsInv ==
    /\ pc = "conflicts" => \A p \in Passed : Dependencies(p, "conflicts") \cap Loaded = {}
    /\ Through("conflicts") => \A p \in Loaded : Dependencies(p, "conflicts") \cap Loaded = {}

(* What was asked for is loaded before anything is unloaded, and unloaded  *)
(* only for want of a prerequisite, which does not come back.              *)
AskedFor == ToSet(argv) \cup UNION {Dependencies(q, "requires") : q \in Loaded}
AskedInv ==
    /\ pc = "load" => ToSet(argv) \subseteq Loaded \cup ToSet(args)
    /\ pc = "requires" =>
          /\ ToSet(argv) \subseteq Loaded
          /\ \A p \in Passed : Dependencies(p, "requires") \subseteq Loaded
    /\ pc = "needs" => AskedFor \subseteq Loaded
    /\ Through("needs") =>
          \A p \in AskedFor : p \in Loaded \/ ~(Dependencies(p, "depends") \subseteq Loaded)

DependenciesInv ==
    TypeInv /\ NeedsInv /\ ConflictsInv /\ OrderAsDeclared /\ AskedInv

USE DependenciesAssumption DEF Phases, Loaded

LEMMA InitInv == Init => DependenciesInv
<1> SUFFICES ASSUME Init PROVE DependenciesInv
  OBVIOUS
<1>1. ToSet(<<>>) = {}
  BY DEF ToSet
<1> QED BY <1>1 DEF Init, DependenciesInv, TypeInv, NeedsInv, ConflictsInv, OrderAsDeclared,
       AskedInv, Through, Resolved

(* Where a loop ends, it has passed every plugin. *)
LEMMA AllPassed ==
    ASSUME plugins \in Seq(Names), at \in Nat, at > Len(plugins)
    PROVE  Passed = Loaded
BY DEF Passed, ToSet

LEMMA NonePassed == at = 1 => Passed = {}
BY DEF Passed

(* One more plugin is passed; others may have been appended to the list.   *)
LEMMA OnePassed ==
    ASSUME plugins \in Seq(Names), plugins' \in Seq(Names), at \in 1..Len(plugins),
           at' = at + 1, Len(plugins) <= Len(plugins'),
           \A i \in 1..Len(plugins) : plugins'[i] = plugins[i]
    PROVE  Passed' = Passed \cup {plugins[at]}
<1>1. \A i \in 1..Len(plugins') : i < at + 1 <=> i < at \/ i = at
  OBVIOUS
<1>2. \A i \in 1..Len(plugins') : i < at + 1 => i \in 1..Len(plugins)
  OBVIOUS
<1>3. at \in 1..Len(plugins')
  OBVIOUS
<1>4. {j \in 1..Len(plugins') : j < at'} = {j \in 1..Len(plugins) : j < at} \cup {at}
  BY <1>1, <1>2, <1>3
<1>5. Passed' = {plugins'[i] : i \in {j \in 1..Len(plugins) : j < at} \cup {at}}
  BY <1>4 DEF Passed
<1>6. \A i \in {j \in 1..Len(plugins) : j < at} \cup {at} : plugins'[i] = plugins[i]
  OBVIOUS
<1> QED BY <1>5, <1>6 DEF Passed

LEMMA SameDependencies ==
    UNCHANGED declared => \A p, kind : Dependencies(p, kind)' = Dependencies(p, kind)
BY DEF Dependencies

-----------------------------------------------------------------------------
(* One lemma per loop                                                      *)

(* After an error only the type part says anything. *)
LEMMA FailStep ==
    ASSUME TypeInv', pc' = "done", error' # "none"
    PROVE  DependenciesInv'
BY DEF DependenciesInv, NeedsInv, ConflictsInv, OrderAsDeclared, Resolved, AskedInv, Through

(* A loop ends and the next one, which is not about what was just checked, *)
(* begins.                                                                 *)
LEMMA NextLoopStep ==
    ASSUME DependenciesInv, NEW label, NextLoop(label),
           <<pc, label>> \in {<<"requires", "needs">>, <<"needs", "depends">>,
                              <<"depends", "conflicts">>, <<"conflicts", "sort">>}
    PROVE  DependenciesInv'
<1>0. TypeInv /\ pc # "done" /\ pc # "load" /\ error = "none" /\ pc' = label
      /\ \/ pc = "requires" /\ label = "needs"
         \/ pc = "needs" /\ label = "depends"
         \/ pc = "depends" /\ label = "conflicts"
         \/ pc = "conflicts" /\ label = "sort"
  <2>1. \/ pc = "requires" /\ label = "needs"
        \/ pc = "needs" /\ label = "depends"
        \/ pc = "depends" /\ label = "conflicts"
        \/ pc = "conflicts" /\ label = "sort"
    OBVIOUS
  <2> QED BY <2>1 DEF DependenciesInv, TypeInv, NextLoop
<1>1. UNCHANGED <<plugins, args, argv, declared, files, required_plugins, error>> /\ at' = 1
  BY DEF NextLoop, input
<1>2. TypeInv'
  BY <1>0, <1>1 DEF TypeInv, NextLoop
<1>3. Passed = Loaded /\ Passed' = {}
  <2>1. Passed' = {}
    BY <1>1 DEF Passed
  <2> QED BY <1>0, <2>1, AllPassed DEF TypeInv, NextLoop
<1>4. \A p, kind : Dependencies(p, kind)' = Dependencies(p, kind)
  BY <1>1, SameDependencies
<1>5. NeedsInv'
  BY <1>0, <1>1, <1>3, <1>4 DEF DependenciesInv, NeedsInv, Through
<1>6. ConflictsInv'
  BY <1>0, <1>1, <1>3, <1>4 DEF DependenciesInv, ConflictsInv, Through
<1>7. OrderAsDeclared'
  BY <1>0, <1>1 DEF OrderAsDeclared, Resolved
<1>8. AskedFor' = AskedFor /\ Loaded' = Loaded
  BY <1>1, <1>4 DEF AskedFor
<1>9. AskedInv'
  <2>1. CASE pc = "requires"
    BY <1>0, <1>1, <1>3, <1>8, <2>1 DEF DependenciesInv, AskedInv, AskedFor, Through
  <2>2. CASE pc # "requires"
    BY <1>0, <1>1, <1>4, <1>8, <2>2 DEF DependenciesInv, AskedInv, Through
  <2> QED BY <2>1, <2>2
<1> QED BY <1>2, <1>5, <1>6, <1>7, <1>9 DEF DependenciesInv

LEMMA LoadStep == DependenciesInv /\ (LoadArgument \/ LoadDone) => DependenciesInv'
<1> SUFFICES ASSUME DependenciesInv, LoadArgument \/ LoadDone PROVE DependenciesInv'
  OBVIOUS
<1>0. TypeInv /\ pc = "load" /\ ToSet(argv) \subseteq Loaded \cup ToSet(args)
  BY DEF DependenciesInv, AskedInv, LoadArgument, LoadDone
<1>1. CASE LoadDone
  <2>1. ToSet(args) = {}
    BY <1>1 DEF LoadDone, ToSet
  <2>2. Passed' = {}
    BY <1>0, <1>1 DEF LoadDone, Passed, TypeInv
  <2> QED BY <1>0, <1>1, <2>1, <2>2
     DEF LoadDone, DependenciesInv, TypeInv, NeedsInv, ConflictsInv, OrderAsDeclared, Resolved,
         AskedInv, Through, input
<1>2. CASE LoadArgument
  <2>1. PICK new \in SetToSeqs(Missing({Head(args)})) :
            IF \A name \in ToSet(new) : CanBeOpened(name)
            THEN plugins' = plugins \o new /\ args' = Tail(args) /\ UNCHANGED <<pc, error>>
            ELSE Fail("load") /\ UNCHANGED <<plugins, args>>
    BY <1>2 DEF LoadArgument
  <2>2. /\ args # <<>> /\ Head(args) \in Names /\ Tail(args) \in Seq(Names)
        /\ UNCHANGED <<at, argv, declared, files, required_plugins>>
    BY <1>0, <1>2 DEF LoadArgument, TypeInv, input
  <2>3. IsFiniteSet(Missing({Head(args)})) /\ Missing({Head(args)}) \subseteq Names
    BY <2>2, FS_Subset, FS_Singleton DEF Missing
  <2>4. new \in Seq(Names) /\ ToSet(new) = {Head(args)} \ Loaded
    BY <2>1, <2>3, ListsOfSet, SeqMonotonic DEF Missing
  <2>5. CASE plugins' = plugins \o new /\ args' = Tail(args) /\ UNCHANGED <<pc, error>>
    <3>1. plugins' \in Seq(Names) /\ Loaded' = Loaded \cup {Head(args)}
      BY <1>0, <2>4, <2>5, ConcatMembers DEF TypeInv
    <3>2. ToSet(args) \subseteq {Head(args)} \cup ToSet(Tail(args))
      <4>1. \A i \in 1..Len(args) : i = 1 \/ i - 1 \in 1..Len(Tail(args))
        BY <1>0, <2>2, HeadTailProperties DEF TypeInv
      <4>2. \A i \in 1..Len(args) : i # 1 => args[i] = Tail(args)[i - 1]
        BY <1>0, <2>2, <4>1, HeadTailProperties DEF TypeInv
      <4>3. args[1] = Head(args)
        BY <1>0, <2>2 DEF TypeInv
      <4>4. \A i \in 1..Len(args) : args[i] \in {Head(args)} \cup ToSet(Tail(args))
        BY <4>1, <4>2, <4>3, <2>2, MembersOfList
      <4>5. ToSet(args) = {args[i] : i \in 1..Len(args)}
        BY <1>0 DEF ToSet, TypeInv
      <4> QED BY <4>4, <4>5
    <3>3. ToSet(argv) \subseteq Loaded' \cup ToSet(args')
      BY <1>0, <2>5, <3>1, <3>2
    <3>4. TypeInv'
      BY <1>0, <2>2, <2>5, <3>1 DEF TypeInv
    <3> QED BY <1>0, <2>2, <2>5, <3>3, <3>4
       DEF DependenciesInv, NeedsInv, ConflictsInv, OrderAsDeclared, Resolved, AskedInv, Through
  <2>6. CASE Fail("load") /\ UNCHANGED <<plugins, args>>
    <3>1. TypeInv'
      BY <1>0, <2>2, <2>6 DEF TypeInv, Fail
    <3> QED BY <2>6, <3>1, FailStep DEF Fail
  <2> QED BY <2>1, <2>5, <2>6
<1> QED BY <1>1, <1>2

LEMMA RequireStep == DependenciesInv /\ RequirePlugin => DependenciesInv'
<1> SUFFICES ASSUME DependenciesInv, RequirePlugin PROVE DependenciesInv'
  OBVIOUS
<1> DEFINE p == plugins[at]
           names == Dependencies(p, "requires")
           able == {name \in Missing(names) : CanBeOpened(name)}
<1>0. /\ TypeInv /\ pc = "requires" /\ at \in 1..Len(plugins) /\ p \in Loaded
      /\ UNCHANGED <<args, argv, declared, files>>
      /\ names \subseteq Names
  BY DEF DependenciesInv, RequirePlugin, TypeInv, ToSet, input, Dependencies
<1>1. ASSUME NEW some \in SUBSET able, NEW new \in SetToSeqs(some), plugins' = plugins \o new
      PROVE  /\ plugins' \in Seq(Names) /\ Loaded' = Loaded \cup some
             /\ Len(plugins) <= Len(plugins')
             /\ \A i \in 1..Len(plugins) : plugins'[i] = plugins[i]
  <2>1. some \subseteq Names /\ IsFiniteSet(some)
    BY <1>0, FS_Subset DEF Missing
  <2>2. new \in Seq(Names) /\ ToSet(new) = some
    BY <2>1, ListsOfSet, SeqMonotonic
  <2> QED BY <1>0, <1>1, <2>2, ConcatMembers DEF TypeInv
<1>2. CASE /\ able = Missing(names)
           /\ \E new \in SetToSeqs(able) : plugins' = plugins \o new
           /\ required_plugins' = required_plugins \cup {q \in {p} : names # {}}
           /\ at' = at + 1
           /\ UNCHANGED <<pc, error>>
  <2>1. /\ plugins' \in Seq(Names) /\ Loaded' = Loaded \cup names
        /\ Len(plugins) <= Len(plugins')
        /\ \A i \in 1..Len(plugins) : plugins'[i] = plugins[i]
    BY <1>1, <1>2 DEF Missing
  <2>2. TypeInv'
    BY <1>0, <1>2, <2>1 DEF TypeInv
  <2>3. Passed' = Passed \cup {p}
    BY <1>0, <1>2, <2>1, OnePassed DEF TypeInv
  <2>4. \A q, kind : Dependencies(q, kind)' = Dependencies(q, kind)
    BY <1>0, SameDependencies
  <2>5. \A q \in Passed' : Dependencies(q, "requires")' \subseteq Loaded'
    BY <1>0, <2>1, <2>3, <2>4 DEF DependenciesInv, AskedInv
  <2>6. AskedInv'
    BY <1>0, <1>2, <2>1, <2>5 DEF DependenciesInv, AskedInv, Through
  <2> QED BY <1>0, <1>2, <2>2, <2>6
     DEF DependenciesInv, NeedsInv, ConflictsInv, OrderAsDeclared, Resolved, Through
<1>3. CASE /\ \E some \in SUBSET able : \E new \in SetToSeqs(some) : plugins' = plugins \o new
           /\ Fail("requires")
           /\ UNCHANGED <<at, required_plugins>>
  <2>1. plugins' \in Seq(Names) /\ Loaded \subseteq Loaded'
    BY <1>1, <1>3
  <2>2. TypeInv'
    BY <1>0, <1>3, <2>1 DEF TypeInv, Fail
  <2> QED BY <1>3, <2>2, FailStep DEF Fail
<1> QED BY <1>2, <1>3 DEF RequirePlugin

LEMMA NeedStep == DependenciesInv /\ NeedPlugin => DependenciesInv'
<1> SUFFICES ASSUME DependenciesInv, NeedPlugin PROVE DependenciesInv'
  OBVIOUS
<1> DEFINE names == Dependencies(plugins[at], "needs")
<1>0. /\ TypeInv /\ pc = "needs" /\ at \in 1..Len(plugins)
      /\ UNCHANGED <<args, argv, declared, files, plugins>>
  BY DEF DependenciesInv, NeedPlugin, TypeInv, input
<1>1. CASE /\ names \subseteq Loaded
           /\ required_plugins' = required_plugins \cup names
           /\ at' = at + 1
           /\ UNCHANGED <<pc, error>>
  <2>1. TypeInv'
    BY <1>0, <1>1 DEF TypeInv
  <2>2. Passed' = Passed \cup {plugins[at]}
    BY <1>0, <1>1, OnePassed DEF TypeInv
  <2>3. \A q, kind : Dependencies(q, kind)' = Dependencies(q, kind)
    BY <1>0, SameDependencies
  <2>4. NeedsInv'
    BY <1>0, <1>1, <2>2, <2>3 DEF DependenciesInv, NeedsInv, Through
  <2>5. AskedInv'
    BY <1>0, <1>1, <2>3 DEF DependenciesInv, AskedInv, AskedFor, Through
  <2> QED BY <1>0, <1>1, <2>1, <2>4, <2>5
     DEF DependenciesInv, ConflictsInv, OrderAsDeclared, Resolved, Through
<1>2. CASE Fail("needs") /\ UNCHANGED <<at, required_plugins>>
  <2>1. TypeInv'
    BY <1>0, <1>2 DEF TypeInv, Fail
  <2> QED BY <1>2, <2>1, FailStep DEF Fail
<1> QED BY <1>1, <1>2 DEF NeedPlugin

LEMMA DependStep == DependenciesInv /\ (KeepPlugin \/ DropPlugin) => DependenciesInv'
<1> SUFFICES ASSUME DependenciesInv, KeepPlugin \/ DropPlugin PROVE DependenciesInv'
  OBVIOUS
<1>0. /\ TypeInv /\ pc = "depends" /\ error = "none" /\ at \in 1..Len(plugins)
      /\ UNCHANGED <<args, argv, declared, files, required_plugins>>
  BY DEF DependenciesInv, KeepPlugin, DropPlugin, TypeInv, input
<1>1. \A q, kind : Dependencies(q, kind)' = Dependencies(q, kind)
  BY <1>0, SameDependencies
<1>2. CASE KeepPlugin
  <2>1. TypeInv'
    BY <1>0, <1>2 DEF TypeInv, KeepPlugin
  <2> QED BY <1>0, <1>1, <1>2, <2>1
     DEF KeepPlugin, DependenciesInv, NeedsInv, ConflictsInv, OrderAsDeclared, Resolved,
         AskedInv, AskedFor, Through
<1>3. CASE /\ ~(Dependencies(plugins[at], "depends") \subseteq Loaded)
           /\ plugins[at] \notin required_plugins
           /\ plugins' = RemoveAt(plugins, at)
           /\ UNCHANGED <<at, pc, error>>
  <2>1. /\ plugins' \in Seq(Names)
        /\ Loaded' \subseteq Loaded /\ Loaded \ {plugins[at]} \subseteq Loaded'
    BY <1>0, <1>3, RemovedAt, RemovedMembers DEF TypeInv
  <2>2. TypeInv'
    BY <1>0, <1>3, <2>1 DEF TypeInv
  <2>3. NeedsInv'
    BY <1>0, <1>1, <1>3, <2>1 DEF DependenciesInv, NeedsInv, Through
  <2>4. AskedInv'
    <3>1. AskedFor' \subseteq AskedFor
      BY <1>0, <1>1, <2>1 DEF AskedFor
    <3>2. \A q \in AskedFor : q \in Loaded \/ ~(Dependencies(q, "depends") \subseteq Loaded)
      BY <1>0 DEF DependenciesInv, AskedInv, Through
    <3>3. \A q \in AskedFor' : q \in Loaded' \/ ~(Dependencies(q, "depends")' \subseteq Loaded')
      BY <1>1, <1>3, <2>1, <3>1, <3>2
    <3> QED BY <1>0, <1>3, <3>3 DEF AskedInv, Through
  <2> QED BY <1>0, <1>3, <2>2, <2>3, <2>4
     DEF DependenciesInv, ConflictsInv, OrderAsDeclared, Resolved, Through
<1>4. CASE Fail("depends") /\ UNCHANGED <<at, plugins>>
  <2>1. TypeInv'
    BY <1>0, <1>4 DEF TypeInv, Fail
  <2> QED BY <1>4, <2>1, FailStep DEF Fail
<1> QED BY <1>2, <1>3, <1>4 DEF DropPlugin

LEMMA ConflictStep == DependenciesInv /\ ConflictPlugin => DependenciesInv'
<1> SUFFICES ASSUME DependenciesInv, ConflictPlugin PROVE DependenciesInv'
  OBVIOUS
<1>0. /\ TypeInv /\ pc = "conflicts" /\ error = "none" /\ at \in 1..Len(plugins)
      /\ UNCHANGED <<args, argv, declared, files, plugins, required_plugins>>
  BY DEF DependenciesInv, ConflictPlugin, TypeInv, input
<1>1. CASE /\ Dependencies(plugins[at], "conflicts") \cap Loaded = {}
           /\ at' = at + 1
           /\ UNCHANGED <<pc, error>>
  <2>1. TypeInv'
    BY <1>0, <1>1 DEF TypeInv
  <2>2. Passed' = Passed \cup {plugins[at]}
    BY <1>0, <1>1, OnePassed DEF TypeInv
  <2>3. \A q, kind : Dependencies(q, kind)' = Dependencies(q, kind)
    BY <1>0, SameDependencies
  <2>4. ConflictsInv'
    BY <1>0, <1>1, <2>2, <2>3 DEF DependenciesInv, ConflictsInv, Through
  <2>5. NeedsInv' /\ AskedInv'
    BY <1>0, <1>1, <2>3 DEF DependenciesInv, NeedsInv, AskedInv, AskedFor, Through
  <2> QED BY <1>0, <1>1, <2>1, <2>4, <2>5
     DEF DependenciesInv, OrderAsDeclared, Resolved
<1>2. CASE Fail("conflicts") /\ UNCHANGED at
  <2>1. TypeInv'
    BY <1>0, <1>2 DEF TypeInv, Fail
  <2> QED BY <1>2, <2>1, FailStep DEF Fail
<1> QED BY <1>1, <1>2 DEF ConflictPlugin

LEMMA SortStep == DependenciesInv /\ SortPlugins => DependenciesInv'
<1> SUFFICES ASSUME DependenciesInv, SortPlugins PROVE DependenciesInv'
  OBVIOUS
<1>0. /\ TypeInv /\ pc = "sort" /\ error = "none" /\ pc' = "done"
      /\ UNCHANGED <<at, args, argv, declared, files, required_plugins>>
  BY DEF DependenciesInv, SortPlugins, TypeInv, input, Fail
<1>1. \A q, kind : Dependencies(q, kind)' = Dependencies(q, kind)
  BY <1>0, SameDependencies
<1>2. CASE /\ plugins' \in {s \in SetToSeqs(Loaded) : Forward(s)}
           /\ UNCHANGED error
  <2>1. IsFiniteSet(Loaded) /\ Loaded \subseteq Names
    <3>1. Loaded \subseteq Names
      BY <1>0 DEF TypeInv, ToSet
    <3> QED BY <3>1, FS_Subset
  <2>2. plugins' \in Seq(Names) /\ Loaded' = Loaded
    BY <1>2, <2>1, ListsOfSet, SeqMonotonic
  <2>3. TypeInv'
    BY <1>0, <1>2, <2>2 DEF TypeInv
  <2>4. OrderAsDeclared'
    <3> SUFFICES ASSUME NEW i \in 1..Len(plugins'), NEW j \in 1..Len(plugins'),
                        \/ plugins'[j] \in Dependencies(plugins'[i], "preceeds")
                        \/ plugins'[i] \in Dependencies(plugins'[j], "succeeds")
                 PROVE  i < j
      BY <1>1 DEF OrderAsDeclared
    <3>1. plugins'[i] \in Loaded /\ plugins'[j] \in Loaded
      <4>1. ToSet(plugins') = Loaded
        BY <2>2
      <4>2. plugins'[i] \in ToSet(plugins') /\ plugins'[j] \in ToSet(plugins')
        BY <2>2, MembersOfList
      <4> QED BY <4>1, <4>2
    <3>2. <<plugins'[i], plugins'[j]>> \in get_edges
      BY <3>1 DEF get_edges, Dependencies
    <3> QED BY <1>2, <3>2 DEF Forward
  <2>5. NeedsInv' /\ ConflictsInv' /\ AskedInv'
    BY <1>0, <1>1, <1>2, <2>2
       DEF DependenciesInv, NeedsInv, ConflictsInv, AskedInv, AskedFor, Through
  <2> QED BY <2>3, <2>4, <2>5 DEF DependenciesInv
<1>3. CASE Fail("circular") /\ UNCHANGED plugins
  <2>1. TypeInv'
    BY <1>0, <1>3 DEF TypeInv, Fail
  <2> QED BY <1>3, <2>1, FailStep DEF Fail
<1> QED BY <1>0, <1>2, <1>3 DEF SortPlugins

LEMMA StutterStep == DependenciesInv /\ UNCHANGED vars => DependenciesInv'
<1> SUFFICES ASSUME DependenciesInv, UNCHANGED vars PROVE DependenciesInv'
  OBVIOUS
<1>1. UNCHANGED <<pc, at, argv, args, declared, files, plugins, required_plugins, error>>
  BY DEF vars, input
<1>2. \A q, kind : Dependencies(q, kind)' = Dependencies(q, kind)
  BY <1>1, SameDependencies
<1>3. Passed' = Passed /\ AskedFor' = AskedFor
  BY <1>1, <1>2 DEF Passed, AskedFor
<1>4. TypeInv' /\ OrderAsDeclared'
  BY <1>1, <1>2 DEF DependenciesInv, TypeInv, OrderAsDeclared, Resolved
<1>5. NeedsInv' /\ ConflictsInv' /\ AskedInv'
  BY <1>1, <1>2, <1>3 DEF DependenciesInv, NeedsInv, ConflictsInv, AskedInv, Through
<1> QED BY <1>4, <1>5 DEF DependenciesInv

LEMMA NextInv == DependenciesInv /\ [Next]_vars => DependenciesInv'
<1> SUFFICES ASSUME DependenciesInv, [Next]_vars PROVE DependenciesInv'
  OBVIOUS
<1>1. CASE RequiresDone \/ NeedsDone \/ DependsDone \/ ConflictsDone
  BY <1>1, NextLoopStep DEF RequiresDone, NeedsDone, DependsDone, ConflictsDone
<1> QED BY <1>1, LoadStep, RequireStep, NeedStep, DependStep, ConflictStep, SortStep, StutterStep
   DEF Next, Finished

-----------------------------------------------------------------------------
(* The theorems                                                            *)

LEMMA Invariance == Spec => []DependenciesInv
BY InitInv, NextInv, PTL DEF Spec

(* After a successful resolution every plugin has what it needs, although  *)
(* plugins were unloaded after that was checked; none conflicts with       *)
(* another one loaded; and their order is the one they declared.           *)
THEOREM ResolutionKeepsDeclarations == Spec => []DeclarationsKept
<1>1. DependenciesInv => DeclarationsKept
  BY DEF DependenciesInv, DeclarationsKept, NeedsMet, NoConflicts, TypeInv, NeedsInv,
         ConflictsInv, Through, Resolved
<1> QED BY <1>1, Invariance, PTL

(* A plugin named on the command line, or required by one that is loaded,  *)
(* is missing in the end only if something it depends on is.               *)
THEOREM NothingDroppedInVain == Spec => []DroppedForAReason
<1>1. DependenciesInv => DroppedForAReason
  BY DEF DependenciesInv, DroppedForAReason, AskedInv, AskedFor, Through, Resolved
<1> QED BY <1>1, Invariance, PTL

-----------------------------------------------------------------------------
(* Resolution succeeds where it can                                        *)

LEMMA WantedProperties ==
    ASSUME argv \in Seq(Names)
    PROVE  /\ Wanted \subseteq Names
           /\ ToSet(argv) \subseteq Wanted
           /\ \A p \in Wanted : Dependencies(p, "requires") \subseteq Wanted
           /\ \A S \in SUBSET Names :
                 /\ ToSet(argv) \subseteq S
                 /\ \A p \in S : Dependencies(p, "requires") \subseteq S
                 => Wanted \subseteq S
<1>1. ToSet(argv) \subseteq Names
  BY DEF ToSet
<1>2. \A p : Dependencies(p, "requires") \subseteq Names
  BY DEF Dependencies
<1> DEFINE closed == {S \in SUBSET Names :
                         /\ ToSet(argv) \subseteq S
                         /\ \A p \in S : Dependencies(p, "requires") \subseteq S}
<1>3. Wanted = {p \in Names : \A S \in closed : p \in S}
  BY DEF Wanted
<1> QED BY <1>1, <1>2, <1>3

LEMMA SameWanted ==
    UNCHANGED <<argv, declared, files>> => Wanted' = Wanted /\ CanWork' = CanWork
<1> SUFFICES ASSUME UNCHANGED <<argv, declared, files>> PROVE Wanted' = Wanted /\ CanWork' = CanWork
  OBVIOUS
<1>1. \A p, kind : Dependencies(p, kind)' = Dependencies(p, kind)
  BY SameDependencies
<1>2. Wanted' = Wanted
  BY <1>1 DEF Wanted
<1>3. \A p : CanBeOpened(p)' = CanBeOpened(p)
  BY DEF CanBeOpened, ModuleOpens, NoSuchModule
<1> QED BY <1>1, <1>2, <1>3 DEF CanWork

(* As long as the plugins wanted agree with one another nothing else is    *)
(* loaded, nothing fails, and once all of them are there none goes.        *)
PossibleInv ==
    CanWork =>
        /\ error = "none"
        /\ Loaded \subseteq Wanted /\ ToSet(args) \subseteq Wanted
        /\ pc \in {"needs", "depends", "conflicts", "sort", "done"} => Loaded = Wanted

LEMMA PossibleInit == Init => PossibleInv
<1> SUFFICES ASSUME Init PROVE PossibleInv
  OBVIOUS
<1>1. argv \in Seq(Names) /\ Loaded = {}
  BY DEF Init, ToSet
<1> QED BY <1>1, WantedProperties DEF Init, PossibleInv

(* What is loaded when the second loop ends is all that is wanted.         *)
LEMMA PossibleLoad ==
    DependenciesInv /\ PossibleInv /\ (LoadArgument \/ LoadDone) => PossibleInv'
<1> SUFFICES ASSUME DependenciesInv, PossibleInv, LoadArgument \/ LoadDone, CanWork'
             PROVE  /\ error' = "none" /\ Loaded' \subseteq Wanted'
                    /\ ToSet(args') \subseteq Wanted'
                    /\ pc' \in {"load", "requires"}
  BY DEF PossibleInv
<1>0. TypeInv /\ pc = "load" /\ UNCHANGED <<argv, declared, files>>
  BY DEF DependenciesInv, LoadArgument, LoadDone, input
<1>1. Wanted' = Wanted /\ CanWork
  BY <1>0, SameWanted
<1>2. error = "none" /\ Loaded \subseteq Wanted /\ ToSet(args) \subseteq Wanted
  BY <1>1 DEF PossibleInv
<1>3. CASE LoadDone
  BY <1>1, <1>2, <1>3 DEF LoadDone
<1>4. CASE LoadArgument
  <2>1. PICK new \in SetToSeqs(Missing({Head(args)})) :
            IF \A name \in ToSet(new) : CanBeOpened(name)
            THEN plugins' = plugins \o new /\ args' = Tail(args) /\ UNCHANGED <<pc, error>>
            ELSE Fail("load") /\ UNCHANGED <<plugins, args>>
    BY <1>4 DEF LoadArgument
  <2>2. args \in Seq(Names) /\ args # <<>> /\ Head(args) \in Names
        /\ Tail(args) \in Seq(Names) /\ Len(Tail(args)) = Len(args) - 1
        /\ \A i \in 1..Len(Tail(args)) : Tail(args)[i] = args[i + 1]
    BY <1>0, <1>4, HeadTailProperties DEF LoadArgument, TypeInv
  <2>3. IsFiniteSet(Missing({Head(args)})) /\ Missing({Head(args)}) \subseteq Names
    BY <2>2, FS_Subset, FS_Singleton DEF Missing
  <2>4. new \in Seq(Names) /\ ToSet(new) = {Head(args)} \ Loaded
    BY <2>1, <2>3, ListsOfSet, SeqMonotonic DEF Missing
  <2>5. Head(args) \in ToSet(args)
    <3>1. 1 \in 1..Len(args) /\ Head(args) = args[1]
      BY <2>2
    <3> QED BY <2>2, <3>1, MembersOfList
  <2>6. ToSet(Tail(args)) \subseteq ToSet(args)
    <3>1. \A i \in 1..Len(Tail(args)) : i + 1 \in 1..Len(args)
      BY <2>2
    <3>2. \A i \in 1..Len(Tail(args)) : Tail(args)[i] \in ToSet(args)
      BY <2>2, <3>1, MembersOfList
    <3>3. ToSet(Tail(args)) = {Tail(args)[i] : i \in 1..Len(Tail(args))}
      BY <2>2, MembersOfList
    <3> QED BY <3>2, <3>3
  <2>7. \A name \in ToSet(new) : CanBeOpened(name)
    BY <1>1, <1>2, <2>4, <2>5 DEF CanWork
  <2>8. plugins' = plugins \o new /\ args' = Tail(args) /\ UNCHANGED <<pc, error>>
    BY <2>1, <2>7
  <2>9. Loaded' = Loaded \cup ({Head(args)} \ Loaded)
    BY <1>0, <2>4, <2>8, ConcatMembers DEF TypeInv
  <2> QED BY <1>0, <1>1, <1>2, <2>5, <2>6, <2>8, <2>9
<1> QED BY <1>3, <1>4

LEMMA PossibleRequire ==
    DependenciesInv /\ PossibleInv /\ (RequirePlugin \/ RequiresDone) => PossibleInv'
<1> SUFFICES ASSUME DependenciesInv, PossibleInv, RequirePlugin \/ RequiresDone, CanWork'
             PROVE  /\ error' = "none" /\ Loaded' \subseteq Wanted'
                    /\ ToSet(args') \subseteq Wanted'
                    /\ pc' # "requires" => Loaded' = Wanted'
  BY DEF PossibleInv
<1>0. TypeInv /\ pc = "requires" /\ UNCHANGED <<argv, declared, files, args>>
  BY DEF DependenciesInv, RequirePlugin, RequiresDone, NextLoop, input
<1>1. Wanted' = Wanted /\ CanWork
  BY <1>0, SameWanted
<1>2. error = "none" /\ Loaded \subseteq Wanted /\ ToSet(args) \subseteq Wanted
  BY <1>1 DEF PossibleInv
<1>3. argv \in Seq(Names) /\ Loaded \subseteq Names
  BY <1>0 DEF TypeInv, ToSet
<1>4. CASE RequirePlugin
  <2> DEFINE p == plugins[at]
             names == Dependencies(p, "requires")
             able == {name \in Missing(names) : CanBeOpened(name)}
  <2>1. p \in Loaded
    BY <1>0, <1>4, MembersOfList DEF RequirePlugin, TypeInv
  <2>2. names \subseteq Wanted
    BY <1>2, <1>3, <2>1, WantedProperties
  <2>3. able = Missing(names)
    BY <1>1, <2>2 DEF CanWork, Missing
  <2>4. PICK new \in SetToSeqs(able) : plugins' = plugins \o new
    BY <1>4, <2>3 DEF RequirePlugin
  <2>5. UNCHANGED <<pc, error>>
    BY <1>4, <2>3 DEF RequirePlugin
  <2>6. able \subseteq Names /\ IsFiniteSet(able)
    <3>1. able \subseteq Names
      BY DEF Missing, Dependencies
    <3> QED BY <3>1, FS_Subset
  <2>7. Loaded' = Loaded \cup able
    BY <1>0, <2>4, <2>6, ListsOfSet, SeqMonotonic, ConcatMembers DEF TypeInv
  <2> QED BY <1>0, <1>1, <1>2, <2>2, <2>3, <2>5, <2>7 DEF Missing
<1>5. CASE RequiresDone
  <2>1. Passed = Loaded
    BY <1>0, <1>5, AllPassed DEF RequiresDone, NextLoop, TypeInv
  <2>2. Wanted \subseteq Loaded
    BY <1>0, <1>3, <2>1, WantedProperties DEF DependenciesInv, AskedInv
  <2> QED BY <1>0, <1>1, <1>2, <1>5, <2>2 DEF RequiresDone, NextLoop
<1> QED BY <1>4, <1>5

(* The other loops have all that is wanted before them, and find no fault. *)
LEMMA PossibleLater ==
    /\ DependenciesInv /\ PossibleInv
    /\ \/ NeedPlugin \/ NeedsDone \/ KeepPlugin \/ DropPlugin \/ DependsDone
       \/ ConflictPlugin \/ ConflictsDone \/ SortPlugins
    => PossibleInv'
<1> SUFFICES ASSUME DependenciesInv, PossibleInv, CanWork',
                    \/ NeedPlugin \/ NeedsDone \/ KeepPlugin \/ DropPlugin \/ DependsDone
                    \/ ConflictPlugin \/ ConflictsDone \/ SortPlugins
             PROVE  error' = "none" /\ Loaded' = Wanted' /\ ToSet(args') \subseteq Wanted'
  BY DEF PossibleInv
<1>0. TypeInv /\ pc \in {"needs", "depends", "conflicts", "sort"}
      /\ UNCHANGED <<argv, declared, files, args>>
  BY DEF DependenciesInv, NeedPlugin, NeedsDone, KeepPlugin, DropPlugin, DependsDone,
         ConflictPlugin, ConflictsDone, SortPlugins, NextLoop, input
<1>1. Wanted' = Wanted /\ CanWork
  BY <1>0, SameWanted
<1>2. error = "none" /\ Loaded = Wanted /\ ToSet(args) \subseteq Wanted
  BY <1>0, <1>1 DEF PossibleInv
<1>3. at <= Len(plugins) => plugins[at] \in Wanted
  BY <1>0, <1>2, MembersOfList DEF TypeInv
<1>4. CASE NeedsDone \/ DependsDone \/ ConflictsDone \/ KeepPlugin
  BY <1>0, <1>1, <1>2, <1>4 DEF NeedsDone, DependsDone, ConflictsDone, KeepPlugin, NextLoop
<1>5. CASE NeedPlugin
  <2>1. at <= Len(plugins) /\ Dependencies(plugins[at], "needs") \subseteq Loaded
    BY <1>1, <1>2, <1>3, <1>5 DEF NeedPlugin, CanWork
  <2> QED BY <1>0, <1>1, <1>2, <1>5, <2>1 DEF NeedPlugin
<1>6. CASE DropPlugin
  <2>1. at <= Len(plugins) /\ Dependencies(plugins[at], "depends") \subseteq Loaded
    BY <1>1, <1>2, <1>3, <1>6 DEF DropPlugin, CanWork
  <2> QED BY <1>6, <2>1 DEF DropPlugin
<1>7. CASE ConflictPlugin
  <2>1. at <= Len(plugins) /\ Dependencies(plugins[at], "conflicts") \cap Loaded = {}
    BY <1>1, <1>2, <1>3, <1>7 DEF ConflictPlugin, CanWork
  <2> QED BY <1>0, <1>1, <1>2, <1>7, <2>1 DEF ConflictPlugin
<1>8. CASE SortPlugins
  <2>1. ~Circular
    <3>1. \A p, q : <<p, q>> \in get_edges =>
              q \in Dependencies(p, "preceeds") \/ p \in Dependencies(q, "succeeds")
      <4> SUFFICES ASSUME NEW p, NEW q, <<p, q>> \in get_edges
                   PROVE  q \in Dependencies(p, "preceeds") \/ p \in Dependencies(q, "succeeds")
        OBVIOUS
      <4>1. p \in Names /\ q \in Names
        BY <1>0 DEF get_edges, TypeInv, ToSet
      <4> QED BY <4>1 DEF get_edges, Dependencies
    <3>2. Loaded = Wanted
      BY <1>1, <1>2, <1>8 DEF SortPlugins
    <3>3. ASSUME NEW S \in (SUBSET Loaded) \ {{}}, \A q \in S : \E p \in S : <<p, q>> \in get_edges
          PROVE  FALSE
      <4>1. \A q \in S : \E p \in S : q \in Dependencies(p, "preceeds") \/ p \in Dependencies(q, "succeeds")
        BY <3>1, <3>3
      <4> QED BY <1>1, <3>2, <4>1 DEF CanWork
    <3> QED BY <3>3 DEF Circular
  <2>2. plugins' \in SetToSeqs(Loaded) /\ UNCHANGED error
    BY <1>8, <2>1 DEF SortPlugins
  <2>3. IsFiniteSet(Loaded)
    <3>1. Loaded \subseteq Names
      BY <1>0 DEF TypeInv, ToSet
    <3> QED BY <3>1, FS_Subset
  <2>4. Loaded' = Loaded
    BY <2>2, <2>3, ListsOfSet
  <2> QED BY <1>0, <1>1, <1>2, <2>2, <2>4
<1> QED BY <1>4, <1>5, <1>6, <1>7, <1>8

LEMMA PossibleNext == DependenciesInv /\ PossibleInv /\ [Next]_vars => PossibleInv'
<1> SUFFICES ASSUME DependenciesInv, PossibleInv, [Next]_vars PROVE PossibleInv'
  OBVIOUS
<1>1. CASE UNCHANGED vars
  <2>1. UNCHANGED <<pc, at, argv, args, declared, files, plugins, required_plugins, error>>
    BY <1>1 DEF vars, input
  <2> QED BY <2>1, SameWanted DEF PossibleInv
<1> QED BY <1>1, PossibleLoad, PossibleRequire, PossibleLater DEF Next, Finished

(* Loading and resolving end without an error, and with exactly the        *)
(* plugins asked for and what they require, whenever those can all be      *)
(* loaded and agree with one another: no order of the command line, of the *)
(* lists or of the checks makes vlock refuse to start.                     *)
THEOREM ResolutionSucceeds == Spec => []SucceedsIfPossible
<1>1. PossibleInv => SucceedsIfPossible
  BY DEF PossibleInv, SucceedsIfPossible
<1>2. Init => PossibleInv
  BY PossibleInit
<1>3. DependenciesInv /\ PossibleInv /\ [Next]_vars => PossibleInv'
  BY PossibleNext
<1> QED BY <1>1, <1>2, <1>3, Invariance, PTL DEF Spec

-----------------------------------------------------------------------------
(* tsort(): the inductive invariant                                        *)

SortTypeInv ==
    /\ phase \in {"zeros", "take", "edges", "done"}
    /\ all_edges \in Seq(EdgesOn(NodeSet)) /\ edges \in Seq(EdgesOn(NodeSet))
    /\ zeros \in Seq(NodeSet) /\ sorted_nodes \in Seq(NodeSet)
    /\ position \in Nat \ {0}

(* Until its last edge is looked at, a node may still turn out a zero.     *)
FindInv ==
    phase = "zeros" =>
        /\ edges = all_edges /\ sorted_nodes = <<>>
        /\ \A n \in NodeSet :
              n \in ToSet(zeros) <=> \A i \in 1..Len(edges) : i < position => edges[i].successor # n

(* The zeros and the sorted nodes are those that no edge left leads to;    *)
(* the edges left are those that leave the other nodes, and some of the    *)
(* last zero that the loop has yet to come to.                             *)
LoopInv ==
    phase \in {"take", "edges"} =>
        /\ ToSet(edges) \subseteq ToSet(all_edges)
        /\ \A e \in ToSet(all_edges) : e.predecessor \in ToSet(sorted_nodes) \/ e \in ToSet(edges)
        /\ \A i \in 1..Len(edges) : edges[i].predecessor \in ToSet(sorted_nodes) =>
               phase = "edges" /\ edges[i].predecessor = zero /\ position <= i
        /\ \A n \in NodeSet :
               n \in ToSet(zeros) \/ n \in ToSet(sorted_nodes)
                   <=> \A e \in ToSet(edges) : e.successor # n
        /\ phase = "edges" => zero \in ToSet(sorted_nodes)

(* Every node gets into one of the lists once. *)
OnceInv == Once(zeros) /\ ToSet(zeros) \cap ToSet(sorted_nodes) = {}

SortInv == SortTypeInv /\ FindInv /\ LoopInv /\ OnceInv

USE TSortAssumption

LEMMA EndsOfEdges ==
    ASSUME NEW S, NEW e \in EdgesOn(S)
    PROVE  e.predecessor \in S /\ e.successor \in S
BY DEF EdgesOn, Edge

LEMMA IsZero ==
    ASSUME NEW n, NEW es \in Seq(EdgesOn(NodeSet))
    PROVE  is_zero(n, es) <=> \A e \in ToSet(es) : e.successor # n
BY MembersOfList DEF is_zero

LEMMA SortInitInv == TSortInit => SortInv
<1> SUFFICES ASSUME TSortInit PROVE SortInv
  OBVIOUS
<1>1. SortTypeInv /\ LoopInv
  BY DEF TSortInit, SortTypeInv, LoopInv
<1>2. ToSet(NodeList) = NodeSet /\ Once(NodeList) /\ ToSet(<<>>) = {}
  <2>1. DOMAIN NodeList = 1..Len(NodeList)
    OBVIOUS
  <2>2. ToSet(<<>>) = {}
    BY DEF ToSet
  <2> QED BY <2>1, <2>2 DEF IsInjective, Once, NodeSet
<1>3. FindInv
  BY <1>1, <1>2 DEF TSortInit, FindInv, SortTypeInv
<1>4. OnceInv
  BY <1>2 DEF TSortInit, OnceInv
<1> QED BY <1>1, <1>3, <1>4 DEF SortInv

LEMMA FindStep == SortInv /\ (DropSuccessor \/ ZerosFound) => SortInv'
<1> SUFFICES ASSUME SortInv, DropSuccessor \/ ZerosFound PROVE SortInv'
  OBVIOUS
<1>0. /\ SortTypeInv /\ FindInv /\ OnceInv /\ phase = "zeros"
      /\ UNCHANGED <<all_edges, edges, sorted_nodes, zero>>
      /\ edges = all_edges /\ sorted_nodes = <<>>
  BY DEF SortInv, DropSuccessor, ZerosFound, FindInv
<1>1. CASE DropSuccessor
  <2> DEFINE s == edges[position].successor
  <2>1. position \in 1..Len(edges) /\ position' = position + 1 /\ zeros' = RemoveFirst(zeros, s) /\ phase' = "zeros"
    BY <1>0, <1>1 DEF DropSuccessor, SortTypeInv
  <2>2. zeros' \in Seq(NodeSet) /\ Once(zeros') /\ ToSet(zeros') = ToSet(zeros) \ {s}
    BY <1>0, <2>1, RemovedFirst DEF SortTypeInv, OnceInv
  <2>3. \A i \in 1..Len(edges) : i < position + 1 <=> i < position \/ i = position
    BY <2>1
  <2>4. FindInv'
    <3> SUFFICES ASSUME NEW n \in NodeSet
                 PROVE  n \in ToSet(zeros') <=>
                            \A i \in 1..Len(edges) : i < position + 1 => edges[i].successor # n
      BY <1>0, <2>1 DEF FindInv
    <3>1. n \in ToSet(zeros) <=> \A i \in 1..Len(edges) : i < position => edges[i].successor # n
      BY <1>0 DEF FindInv
    <3> QED BY <2>1, <2>2, <2>3, <3>1
  <2>5. SortTypeInv'
    BY <1>0, <2>1, <2>2 DEF SortTypeInv
  <2>6. LoopInv' /\ OnceInv'
    BY <1>0, <2>1, <2>2 DEF LoopInv, OnceInv
  <2> QED BY <2>4, <2>5, <2>6 DEF SortInv
<1>2. CASE ZerosFound
  <2>1. position > Len(edges) /\ phase' = "take" /\ UNCHANGED <<zeros, position>>
    BY <1>2 DEF ZerosFound
  <2>2. SortTypeInv' /\ FindInv' /\ OnceInv'
    BY <1>0, <2>1 DEF SortTypeInv, FindInv, OnceInv
  <2>3. ToSet(sorted_nodes) = {}
    BY <1>0 DEF ToSet
  <2>4. \A i \in 1..Len(edges) : i < position
    BY <1>0, <2>1 DEF SortTypeInv
  <2>5. \A n \in NodeSet : n \in ToSet(zeros) <=> \A e \in ToSet(edges) : e.successor # n
    <3>1. ToSet(edges) = {edges[i] : i \in 1..Len(edges)}
      BY <1>0, MembersOfList DEF SortTypeInv
    <3> QED BY <1>0, <2>4, <3>1 DEF FindInv
  <2>6. LoopInv'
    BY <1>0, <2>1, <2>3, <2>5 DEF LoopInv
  <2> QED BY <2>2, <2>6 DEF SortInv
<1> QED BY <1>1, <1>2

LEMMA TakeStep == SortInv /\ TakeZero => SortInv'
<1> SUFFICES ASSUME SortInv, TakeZero PROVE SortInv'
  OBVIOUS
<1>0. /\ SortTypeInv /\ LoopInv /\ OnceInv /\ phase = "take" /\ phase' = "edges" /\ position' = 1
      /\ UNCHANGED <<all_edges, edges>> /\ zeros # <<>>
      /\ zero' = Head(zeros) /\ zeros' = Tail(zeros)
      /\ sorted_nodes' = Append(sorted_nodes, zero')
  BY DEF SortInv, TakeZero
<1>1. /\ zero' \in ToSet(zeros) /\ zeros' \in Seq(NodeSet) /\ Once(zeros')
      /\ ToSet(zeros') = ToSet(zeros) \ {zero'}
  BY <1>0, HeadTaken DEF SortTypeInv, OnceInv
<1>2. zero' \in NodeSet
  BY <1>0, <1>1, MembersOfList DEF SortTypeInv
<1>3. sorted_nodes' \in Seq(NodeSet) /\ ToSet(sorted_nodes') = ToSet(sorted_nodes) \cup {zero'}
  BY <1>0, <1>2, Appended DEF SortTypeInv
<1>4. SortTypeInv' /\ FindInv' /\ OnceInv'
  BY <1>0, <1>1, <1>3 DEF SortTypeInv, FindInv, OnceInv
<1>5. LoopInv'
  <2>1. \A i \in 1..Len(edges) : edges[i].predecessor \in ToSet(sorted_nodes') =>
            edges[i].predecessor = zero' /\ 1 <= i
    BY <1>0, <1>3 DEF LoopInv, SortTypeInv
  <2>2. \A n \in NodeSet : n \in ToSet(zeros') \/ n \in ToSet(sorted_nodes')
                               <=> \A e \in ToSet(edges) : e.successor # n
    BY <1>0, <1>1, <1>3, SMTT(30) DEF LoopInv
  <2>3. \A e \in ToSet(all_edges) : e.predecessor \in ToSet(sorted_nodes') \/ e \in ToSet(edges)
    BY <1>0, <1>3 DEF LoopInv
  <2>4. ToSet(edges) \subseteq ToSet(all_edges)
    BY <1>0 DEF LoopInv
  <2> QED BY <1>0, <1>3, <2>1, <2>2, <2>3, <2>4 DEF LoopInv
<1> QED BY <1>4, <1>5 DEF SortInv

LEMMA RemoveStep == SortInv /\ RemoveEdge => SortInv'
<1> SUFFICES ASSUME SortInv, RemoveEdge PROVE SortInv'
  OBVIOUS
<1> DEFINE e0 == edges[position]
           s == e0.successor
<1>0. /\ SortTypeInv /\ LoopInv /\ OnceInv /\ phase = "edges" /\ position \in 1..Len(edges)
      /\ UNCHANGED <<phase, all_edges, sorted_nodes, zero, position>>
      /\ e0.predecessor = zero /\ edges' = RemoveAt(edges, position)
      /\ zeros' = IF is_zero(s, edges') THEN Append(zeros, s) ELSE zeros
  BY DEF SortInv, RemoveEdge, SortTypeInv
<1>1. /\ edges' \in Seq(EdgesOn(NodeSet)) /\ Len(edges') = Len(edges) - 1
      /\ \A j \in 1..Len(edges) - 1 : edges'[j] = IF j < position THEN edges[j] ELSE edges[j + 1]
  BY <1>0, RemovedAt DEF SortTypeInv
<1>2. ToSet(edges') \subseteq ToSet(edges) /\ ToSet(edges) \ {e0} \subseteq ToSet(edges')
  BY <1>0, RemovedMembers DEF SortTypeInv
<1>3. e0 \in ToSet(edges) /\ e0 \in EdgesOn(NodeSet)
  BY <1>0, MembersOfList DEF SortTypeInv
<1>4. s \in NodeSet
  BY <1>3, EndsOfEdges
<1>5. s \notin ToSet(zeros) /\ s \notin ToSet(sorted_nodes)
  BY <1>0, <1>3, <1>4 DEF LoopInv
<1>6. is_zero(s, edges') <=> \A e \in ToSet(edges') : e.successor # s
  BY <1>1, IsZero
<1>7. /\ zeros' \in Seq(NodeSet) /\ Once(zeros')
      /\ ToSet(zeros') = ToSet(zeros) \cup
             (IF \A e \in ToSet(edges') : e.successor # s THEN {s} ELSE {})
  <2>1. zeros \in Seq(NodeSet) /\ Once(zeros)
    BY <1>0 DEF SortTypeInv, OnceInv
  <2>2. CASE is_zero(s, edges')
    BY <1>0, <1>4, <1>5, <1>6, <2>1, <2>2, Appended
  <2>3. CASE ~is_zero(s, edges')
    BY <1>0, <1>6, <2>1, <2>3
  <2> QED BY <2>2, <2>3
<1>8. SortTypeInv' /\ FindInv'
  BY <1>0, <1>1, <1>7 DEF SortTypeInv, FindInv
<1>9. OnceInv'
  BY <1>0, <1>5, <1>7 DEF OnceInv
<1>10. LoopInv'
  <2>1. ToSet(edges') \subseteq ToSet(all_edges)
    BY <1>0, <1>2 DEF LoopInv
  <2>2. \A e \in ToSet(all_edges) : e.predecessor \in ToSet(sorted_nodes) \/ e \in ToSet(edges')
    BY <1>0, <1>2 DEF LoopInv
  <2>3. \A i \in 1..Len(edges') : edges'[i].predecessor \in ToSet(sorted_nodes) =>
            edges'[i].predecessor = zero /\ position <= i
    <3> SUFFICES ASSUME NEW i \in 1..Len(edges'),
                        edges'[i].predecessor \in ToSet(sorted_nodes)
                 PROVE  edges'[i].predecessor = zero /\ position <= i
      OBVIOUS
    <3>1. \A k \in 1..Len(edges) : edges[k].predecessor \in ToSet(sorted_nodes) =>
              edges[k].predecessor = zero /\ position <= k
      BY <1>0 DEF LoopInv
    <3>2. Len(edges) \in Nat /\ position \in Nat
      BY <1>0 DEF SortTypeInv
    <3>3. i \in 1..Len(edges) - 1
      BY <1>1
    <3>4. CASE i < position
      <4>1. i \in 1..Len(edges) /\ edges'[i] = edges[i]
        BY <1>1, <3>2, <3>3, <3>4
      <4>2. position <= i
        BY <3>1, <4>1
      <4> QED BY <3>2, <3>3, <3>4, <4>2
    <3>5. CASE ~(i < position)
      <4>1. i + 1 \in 1..Len(edges) /\ edges'[i] = edges[i + 1]
        BY <1>1, <3>2, <3>3, <3>5
      <4> QED BY <3>1, <3>2, <3>3, <3>5, <4>1
    <3> QED BY <3>4, <3>5
  <2>4. ASSUME NEW n \in NodeSet
        PROVE  n \in ToSet(zeros') \/ n \in ToSet(sorted_nodes)
                   <=> \A e \in ToSet(edges') : e.successor # n
    <3>1. n \in ToSet(zeros) \/ n \in ToSet(sorted_nodes)
              <=> \A e \in ToSet(edges) : e.successor # n
      BY <1>0 DEF LoopInv
    <3>2. CASE n = s
      BY <1>5, <1>7, <3>2
    <3>3. CASE n # s
      <4>1. (\A e \in ToSet(edges) : e.successor # n) <=> \A e \in ToSet(edges') : e.successor # n
        BY <1>2, <3>3
      <4>2. n \in ToSet(zeros') <=> n \in ToSet(zeros)
        BY <1>7, <3>3
      <4> QED BY <3>1, <4>1, <4>2
    <3> QED BY <3>2, <3>3
  <2> QED BY <1>0, <2>1, <2>2, <2>3, <2>4 DEF LoopInv
<1> QED BY <1>8, <1>9, <1>10 DEF SortInv

LEMMA SkipStep == SortInv /\ (SkipEdge \/ EdgesDone) => SortInv'
<1> SUFFICES ASSUME SortInv, SkipEdge \/ EdgesDone PROVE SortInv'
  OBVIOUS
<1>0. /\ SortTypeInv /\ LoopInv /\ OnceInv /\ phase = "edges"
      /\ UNCHANGED <<all_edges, edges, zeros, sorted_nodes, zero>>
      /\ Len(edges) \in Nat /\ position \in Nat \ {0}
  BY DEF SortInv, SkipEdge, EdgesDone, SortTypeInv
<1>1. CASE SkipEdge
  <2>1. phase' = "edges" /\ position' = position + 1 /\ position \in 1..Len(edges) /\ edges[position].predecessor # zero
    BY <1>0, <1>1 DEF SkipEdge
  <2>2. \A i \in 1..Len(edges) : edges[i].predecessor \in ToSet(sorted_nodes) =>
            edges[i].predecessor = zero /\ position + 1 <= i
    <3> SUFFICES ASSUME NEW i \in 1..Len(edges), edges[i].predecessor \in ToSet(sorted_nodes)
                 PROVE  edges[i].predecessor = zero /\ position + 1 <= i
      OBVIOUS
    <3>1. edges[i].predecessor = zero /\ position <= i
      BY <1>0 DEF LoopInv
    <3>2. i # position
      BY <2>1, <3>1
    <3> QED BY <1>0, <3>1, <3>2
  <2>3. LoopInv'
    BY <1>0, <2>1, <2>2 DEF LoopInv
  <2>4. SortTypeInv' /\ FindInv' /\ OnceInv'
    BY <1>0, <2>1 DEF SortTypeInv, FindInv, OnceInv
  <2> QED BY <2>3, <2>4 DEF SortInv
<1>2. CASE EdgesDone
  <2>1. phase' = "take" /\ position' = position /\ position > Len(edges)
    BY <1>2 DEF EdgesDone
  <2>2. \A i \in 1..Len(edges) : edges[i].predecessor \notin ToSet(sorted_nodes)
    BY <1>0, <2>1 DEF LoopInv
  <2>3. LoopInv'
    BY <1>0, <2>1, <2>2 DEF LoopInv
  <2>4. SortTypeInv' /\ FindInv' /\ OnceInv'
    BY <1>0, <2>1 DEF SortTypeInv, FindInv, OnceInv
  <2> QED BY <2>3, <2>4 DEF SortInv
<1> QED BY <1>1, <1>2

LEMMA ReturnStep == SortInv /\ (Return \/ UNCHANGED tsort_vars) => SortInv'
<1> SUFFICES ASSUME SortInv, Return \/ UNCHANGED tsort_vars PROVE SortInv'
  OBVIOUS
<1>0. SortTypeInv /\ FindInv /\ LoopInv /\ OnceInv
  BY DEF SortInv
<1>1. CASE Return
  <2>1. /\ phase' = "done" /\ UNCHANGED <<all_edges, edges, zeros, zero, position>>
        /\ sorted_nodes' = IF edges = <<>> THEN sorted_nodes ELSE <<>>
    BY <1>1 DEF Return
  <2>2. ToSet(<<>>) = {} /\ <<>> \in Seq(NodeSet)
    BY DEF ToSet
  <2> QED BY <1>0, <2>1, <2>2 DEF SortInv, SortTypeInv, FindInv, LoopInv, OnceInv
<1>2. CASE UNCHANGED tsort_vars
  BY <1>0, <1>2 DEF tsort_vars, SortInv, SortTypeInv, FindInv, LoopInv, OnceInv
<1> QED BY <1>1, <1>2

LEMMA SortNextInv == SortInv /\ [TSortNext]_tsort_vars => SortInv'
BY FindStep, TakeStep, RemoveStep, SkipStep, ReturnStep DEF TSortNext, Returned

LEMMA SortInvariance == TSortSpec => []SortInv
BY SortInitInv, SortNextInv, PTL DEF TSortSpec

-----------------------------------------------------------------------------
(* tsort(): the refinement                                                 *)

LEMMA ArcsAreEdges ==
    ASSUME SortTypeInv
    PROVE  /\ \A m, n : <<m, n>> \in arcs <=>
                 \E e \in ToSet(all_edges) : e.predecessor = m /\ e.successor = n
           /\ arcs \subseteq NodeSet \X NodeSet
           /\ Order!Placed = ToSet(sorted_nodes)
<1>1. ToSet(all_edges) = {all_edges[i] : i \in 1..Len(all_edges)} /\ ToSet(all_edges) \subseteq EdgesOn(NodeSet)
  BY MembersOfList DEF SortTypeInv
<1>2. \A m, n : <<m, n>> \in arcs <=>
          \E e \in ToSet(all_edges) : e.predecessor = m /\ e.successor = n
  BY <1>1 DEF arcs
<1>3. \A i \in 1..Len(all_edges) : all_edges[i].predecessor \in NodeSet /\ all_edges[i].successor \in NodeSet
  BY <1>1, EndsOfEdges
<1>4. arcs \subseteq NodeSet \X NodeSet
  BY <1>3 DEF arcs
<1>5. Order!Placed = ToSet(sorted_nodes)
  BY MembersOfList DEF SortTypeInv, Order!Placed
<1> QED BY <1>2, <1>4, <1>5

LEMMA ReadyNodes ==
    ASSUME SortTypeInv, NEW n
    PROVE  n \in Order!Ready <=>
               /\ n \in NodeSet \ ToSet(sorted_nodes)
               /\ \A e \in ToSet(all_edges) :
                     e.successor = n => e.predecessor \in ToSet(sorted_nodes)
<1>1. \A e \in ToSet(all_edges) : e.predecessor \in NodeSet
  BY MembersOfList, EndsOfEdges DEF SortTypeInv
<1>2. \A m : m \in Order!Predecessors(n) <=>
          m \in NodeSet /\ \E e \in ToSet(all_edges) : e.predecessor = m /\ e.successor = n
  BY ArcsAreEdges DEF Order!Predecessors, arcs
<1> QED BY <1>1, <1>2, ArcsAreEdges DEF Order!Ready

LEMMA RefinesInit == TSortInit => Order!Init
<1> SUFFICES ASSUME TSortInit PROVE Order!Init
  OBVIOUS
<1>1. SortTypeInv
  BY SortInitInv DEF SortInv
<1>2. arcs \subseteq NodeSet \X NodeSet
  BY <1>1, ArcsAreEdges
<1> QED BY <1>2 DEF TSortInit, Order!Init, verdict

(* A zero is ready: an edge from a node that is not yet sorted would be    *)
(* left and lead to it.                                                    *)
LEMMA RefinesTake == SortInv /\ TakeZero => Order!Place
<1> SUFFICES ASSUME SortInv, TakeZero PROVE Order!Place
  OBVIOUS
<1>0. /\ SortTypeInv /\ LoopInv /\ OnceInv /\ phase = "take" /\ phase' = "edges" /\ zeros # <<>>
      /\ UNCHANGED <<all_edges, edges>>
      /\ zero' = Head(zeros) /\ sorted_nodes' = Append(sorted_nodes, zero')
  BY DEF SortInv, TakeZero
<1>1. zero' \in ToSet(zeros)
  BY <1>0, HeadTaken DEF SortTypeInv, OnceInv
<1>2. zero' \in NodeSet \ ToSet(sorted_nodes)
  BY <1>0, <1>1, MembersOfList DEF SortTypeInv, OnceInv
<1>3. \A e \in ToSet(all_edges) : e.successor = zero' => e.predecessor \in ToSet(sorted_nodes)
  BY <1>0, <1>1, <1>2 DEF LoopInv
<1>4. zero' \in Order!Ready
  BY <1>0, <1>2, <1>3, ReadyNodes
<1> QED BY <1>0, <1>4 DEF Order!Place, arcs, verdict

(* Without zeros every node is sorted if no edges are left; otherwise none *)
(* is ready, and there are some that are not sorted.                       *)
LEMMA RefinesReturn == SortInv /\ Return => Order!Next
<1> SUFFICES ASSUME SortInv, Return PROVE Order!Next
  OBVIOUS
<1>0. /\ SortTypeInv /\ LoopInv /\ phase = "take" /\ phase' = "done" /\ zeros = <<>>
      /\ UNCHANGED <<all_edges, edges>>
      /\ sorted_nodes' = IF edges = <<>> THEN sorted_nodes ELSE <<>>
  BY DEF SortInv, Return
<1>1. ToSet(zeros) = {} /\ ToSet(sorted_nodes) \subseteq NodeSet
  <2>1. ToSet(zeros) = {}
    BY <1>0 DEF ToSet
  <2>2. sorted_nodes \in Seq(NodeSet)
    BY <1>0 DEF SortTypeInv
  <2> QED BY <2>1, <2>2, MembersOfList
<1>2. \A n \in NodeSet : n \in ToSet(sorted_nodes) <=> \A e \in ToSet(edges) : e.successor # n
  BY <1>0, <1>1 DEF LoopInv
<1>3. Order!Placed = ToSet(sorted_nodes)
  BY <1>0, ArcsAreEdges
<1>4. CASE edges = <<>>
  <2>1. ToSet(edges) = {}
    BY <1>4 DEF ToSet
  <2>2. Order!Placed = NodeSet
    BY <1>1, <1>2, <1>3, <2>1
  <2>3. Order!Succeed
    BY <1>0, <1>4, <2>2 DEF Order!Succeed, arcs, verdict
  <2> QED BY <2>3 DEF Order!Next
<1>5. CASE edges # <<>>
  <2>1. \A i \in 1..Len(edges) : edges[i].predecessor \notin ToSet(sorted_nodes)
    BY <1>0 DEF LoopInv
  <2>2. 1 \in 1..Len(edges) /\ edges[1] \in EdgesOn(NodeSet)
    BY <1>0, <1>5 DEF SortTypeInv
  <2>3. Order!Placed # NodeSet
    BY <1>3, <2>1, <2>2, EndsOfEdges
  <2>4. ASSUME NEW n \in Order!Ready PROVE FALSE
    <3>1. n \in NodeSet \ ToSet(sorted_nodes)
      BY <1>0, ReadyNodes
    <3>2. PICK e \in ToSet(edges) : e.successor = n
      BY <1>2, <3>1
    <3>3. e \in ToSet(all_edges)
      BY <1>0, <3>2 DEF LoopInv
    <3>4. e.predecessor \in ToSet(sorted_nodes)
      BY <1>0, <3>2, <3>3, ReadyNodes
    <3>5. PICK i \in 1..Len(edges) : e = edges[i]
      BY <1>0, <3>2, MembersOfList DEF SortTypeInv
    <3> QED BY <2>1, <3>4, <3>5
  <2>5. Order!Fail
    BY <1>0, <1>5, <2>3, <2>4 DEF Order!Fail, arcs, verdict
  <2> QED BY <2>5 DEF Order!Next
<1> QED BY <1>4, <1>5

LEMMA RefinesNext == SortInv /\ [TSortNext]_tsort_vars => [Order!Next]_(Order!vars)
<1> SUFFICES ASSUME SortInv, [TSortNext]_tsort_vars PROVE [Order!Next]_(Order!vars)
  OBVIOUS
<1>1. CASE TakeZero
  BY <1>1, RefinesTake DEF Order!Next
<1>2. CASE Return
  BY <1>2, RefinesReturn
<1>3. CASE DropSuccessor \/ ZerosFound \/ RemoveEdge \/ SkipEdge \/ EdgesDone
  <2>1. UNCHANGED <<all_edges, sorted_nodes>> /\ phase # "done" /\ phase' # "done"
    BY <1>3 DEF DropSuccessor, ZerosFound, RemoveEdge, SkipEdge, EdgesDone
  <2> QED BY <2>1 DEF Order!vars, arcs, verdict
<1>4. CASE Returned \/ UNCHANGED tsort_vars
  BY <1>4 DEF Returned, tsort_vars, Order!vars, arcs, verdict
<1> QED BY <1>1, <1>2, <1>3, <1>4 DEF TSortNext

(* tsort() puts the nodes in place as TopologicalOrder allows, one by one, *)
(* and gives up only where it must, on any graph and with its edges in any *)
(* order and any number of times: SortedIsOrder and VerdictIsRight, proved *)
(* of TopologicalOrder, hold of it.                                        *)
THEOREM SortImplementsOrder == TSortSpec => SortFollowsOrder
<1>1. TSortInit => Order!Init
  BY RefinesInit
<1>2. SortInv /\ [TSortNext]_tsort_vars => [Order!Next]_(Order!vars)
  BY RefinesNext
<1> QED BY <1>1, <1>2, SortInvariance, PTL DEF TSortSpec, SortFollowsOrder

-----------------------------------------------------------------------------
(* What the abstract specification guarantees                              *)

(* No node is placed twice, and each was placed after its predecessors;    *)
(* so no node that waits for itself in a circle ever was.                  *)
OrderInv ==
    /\ arcs \subseteq NodeSet \X NodeSet
    /\ sorted_nodes \in Seq(NodeSet)
    /\ verdict \in {"none", "sorted", "circular"}
    /\ \A i, j \in 1..Len(sorted_nodes) : sorted_nodes[i] = sorted_nodes[j] => i = j
    /\ \A j \in 1..Len(sorted_nodes) : \A m \in NodeSet :
          <<m, sorted_nodes[j]>> \in arcs => \E i \in 1..Len(sorted_nodes) : i < j /\ sorted_nodes[i] = m
    /\ \A S \in SUBSET NodeSet : Order!Waiting(S) => S \cap Order!Placed = {}
    /\ verdict = "sorted" => Order!Placed = NodeSet
    /\ verdict = "circular" => Order!Cyclic

LEMMA OrderInit == Order!Init => OrderInv
BY DEF Order!Init, OrderInv, Order!Placed

(* What waits for one another depends on the graph alone. *)
LEMMA WaitingUnchanged ==
    ASSUME UNCHANGED arcs
    PROVE  /\ \A S \in SUBSET NodeSet : Order!Waiting(S)' <=> Order!Waiting(S)
           /\ Order!Cyclic' <=> Order!Cyclic
<1>1. ASSUME NEW S \in SUBSET NodeSet
      PROVE  Order!Waiting(S)' <=> Order!Waiting(S)
  BY DEF Order!Waiting
<1>2. Order!Cyclic' <=> Order!Cyclic
  BY <1>1 DEF Order!Cyclic
<1> QED BY <1>1, <1>2

LEMMA PlaceStep == OrderInv /\ Order!Place => OrderInv'
<1> SUFFICES ASSUME OrderInv, Order!Place PROVE OrderInv'
  OBVIOUS
<1>0. /\ arcs \subseteq NodeSet \X NodeSet /\ sorted_nodes \in Seq(NodeSet)
      /\ \A i, j \in 1..Len(sorted_nodes) : sorted_nodes[i] = sorted_nodes[j] => i = j
      /\ \A S \in SUBSET NodeSet : Order!Waiting(S) => S \cap Order!Placed = {}
  BY DEF OrderInv
<1>1. PICK n \in Order!Ready : sorted_nodes' = Append(sorted_nodes, n)
  BY DEF Order!Place
<1>2. /\ n \in NodeSet
      /\ n \notin Order!Placed
      /\ \A m \in NodeSet : <<m, n>> \in arcs => m \in Order!Placed
  BY <1>1 DEF Order!Ready, Order!Predecessors
<1> DEFINE k == Len(sorted_nodes)
<1>3. /\ sorted_nodes' \in Seq(NodeSet) /\ k \in Nat
      /\ Len(sorted_nodes') = k + 1
      /\ sorted_nodes'[k + 1] = n
      /\ \A i \in 1..k : sorted_nodes'[i] = sorted_nodes[i]
  BY <1>0, <1>1, <1>2
<1>4. Order!Placed = {sorted_nodes[i] : i \in 1..k}
      /\ Order!Placed' = {sorted_nodes'[i] : i \in 1..k + 1}
  BY <1>3 DEF Order!Placed
<1> HIDE DEF k
<1>5. \A i \in 1..k + 1 : i \in 1..k \/ i = k + 1
  BY <1>3
<1>6. Order!Placed' = Order!Placed \cup {n}
  BY <1>3, <1>4, <1>5
<1>7. \A i, j \in 1..k + 1 : sorted_nodes'[i] = sorted_nodes'[j] => i = j
  BY <1>0, <1>2, <1>3, <1>4, <1>5 DEF k
<1>8. ASSUME NEW j \in 1..k + 1, NEW m \in NodeSet, <<m, sorted_nodes'[j]>> \in arcs
      PROVE  \E i \in 1..k + 1 : i < j /\ sorted_nodes'[i] = m
  <2>1. CASE j \in 1..k
    <3>1. <<m, sorted_nodes[j]>> \in arcs
      BY <1>3, <1>8, <2>1
    <3>2. PICK i \in 1..k : i < j /\ sorted_nodes[i] = m
      BY <2>1, <3>1 DEF OrderInv, k
    <3> QED BY <1>3, <3>2
  <2>2. CASE j = k + 1
    <3>1. PICK i \in 1..k : sorted_nodes[i] = m
      BY <1>2, <1>3, <1>4, <1>8, <2>2
    <3>2. i \in 1..k + 1 /\ i < j /\ sorted_nodes'[i] = m
      BY <1>3, <2>2, <3>1
    <3> QED BY <3>2
  <2> QED BY <1>5, <2>1, <2>2
<1>9. UNCHANGED <<arcs, verdict>> /\ verdict = "none"
  BY DEF Order!Place
<1>10. ASSUME NEW S \in SUBSET NodeSet, Order!Waiting(S)'
       PROVE  S \cap Order!Placed' = {}
  <2>1. Order!Waiting(S)
    BY <1>9, <1>10 DEF Order!Waiting
  <2>2. n \notin S
    BY <1>0, <1>2, <2>1 DEF Order!Waiting
  <2> QED BY <1>0, <1>6, <2>1, <2>2
<1> QED BY <1>0, <1>3, <1>7, <1>8, <1>9, <1>10 DEF OrderInv

LEMMA OrderFails == OrderInv /\ Order!Fail => OrderInv'
<1> SUFFICES ASSUME OrderInv, Order!Fail PROVE OrderInv'
  OBVIOUS
<1> USE DEF OrderInv, Order!Fail
<1>1. sorted_nodes' = <<>> /\ verdict' = "circular" /\ UNCHANGED arcs
  OBVIOUS
<1>2. Order!Placed' = {}
  BY <1>1 DEF Order!Placed
<1>3. Order!Cyclic
  <2> DEFINE S == NodeSet \ Order!Placed
  <2>1. S \in SUBSET NodeSet /\ S # {}
    BY DEF Order!Placed
  <2>2. \A n \in S : \E m \in S : <<m, n>> \in arcs
    BY DEF Order!Ready, Order!Predecessors
  <2> HIDE DEF S
  <2>3. Order!Waiting(S)
    BY <2>2 DEF Order!Waiting
  <2> QED BY <2>1, <2>3 DEF Order!Cyclic
<1> QED BY <1>1, <1>2, <1>3, WaitingUnchanged

LEMMA OrderNext == OrderInv /\ [Order!Next]_(Order!vars) => OrderInv'
<1> SUFFICES ASSUME OrderInv, [Order!Next]_(Order!vars) PROVE OrderInv'
  OBVIOUS
<1>1. CASE Order!Place
  BY <1>1, PlaceStep
<1>2. CASE Order!Succeed
  <2>1. UNCHANGED <<arcs, sorted_nodes>> /\ verdict' = "sorted" /\ Order!Placed = NodeSet
    BY <1>2 DEF Order!Succeed
  <2>2. Order!Placed' = Order!Placed
    BY <2>1 DEF Order!Placed
  <2> QED BY <2>1, <2>2, WaitingUnchanged DEF OrderInv
<1>3. CASE Order!Fail
  BY <1>3, OrderFails
<1>4. CASE UNCHANGED Order!vars
  <2>1. UNCHANGED <<arcs, sorted_nodes, verdict>>
    BY <1>4 DEF Order!vars
  <2>2. Order!Placed' = Order!Placed
    BY <2>1 DEF Order!Placed
  <2> QED BY <2>1, <2>2, WaitingUnchanged DEF OrderInv
<1> QED BY <1>1, <1>2, <1>3, <1>4 DEF Order!Next, Order!Done

LEMMA OrderInvariance == SortFollowsOrder => []OrderInv
BY OrderInit, OrderNext, PTL DEF SortFollowsOrder

LEMMA InvariantGivesOrder == OrderInv => Order!SortedIsOrder /\ Order!VerdictIsRight
<1> SUFFICES ASSUME OrderInv PROVE Order!SortedIsOrder /\ Order!VerdictIsRight
  OBVIOUS
<1>0. Order!SortedIsOrder
  <2> DEFINE k == Len(sorted_nodes)
  <2>1. /\ k \in Nat /\ \A j \in 1..k : sorted_nodes[j] \in NodeSet
        /\ \A i, j \in 1..k : sorted_nodes[i] = sorted_nodes[j] => i = j
        /\ \A j \in 1..k : \A m \in NodeSet :
              <<m, sorted_nodes[j]>> \in arcs => \E i \in 1..k : i < j /\ sorted_nodes[i] = m
        /\ verdict = "sorted" => Order!Placed = NodeSet
    BY DEF OrderInv
  <2> HIDE DEF k
  <2>2. ASSUME NEW i \in 1..k, NEW j \in 1..k, <<sorted_nodes[i], sorted_nodes[j]>> \in arcs
        PROVE  i < j
    <3>1. PICK h \in 1..k : h < j /\ sorted_nodes[h] = sorted_nodes[i]
      BY <2>1, <2>2
    <3> QED BY <2>1, <3>1
  <2> QED BY <2>1, <2>2 DEF Order!SortedIsOrder, k
<1>1. ASSUME verdict = "sorted", Order!Cyclic PROVE FALSE
  <2>1. PICK S \in SUBSET NodeSet : S # {} /\ Order!Waiting(S)
    BY <1>1 DEF Order!Cyclic
  <2>2. S \cap NodeSet = {}
    BY <1>1, <2>1 DEF OrderInv
  <2> QED BY <2>1, <2>2
<1> QED BY <1>0, <1>1 DEF OrderInv, Order!VerdictIsRight

(* The order sort_plugins() would install holds each node once, and every  *)
(* arc points forward in it, whatever does what TopologicalOrder says.     *)
THEOREM SortedOrderIsRight == SortFollowsOrder => []Order!SortedIsOrder
BY InvariantGivesOrder, OrderInvariance, PTL

(* Sorting fails exactly when there is a circle. *)
THEOREM VerdictRight == SortFollowsOrder => []Order!VerdictIsRight
BY InvariantGivesOrder, OrderInvariance, PTL

(* The list tsort() returns holds each node once, with every edge pointing *)
(* forward; it returns none only if the edges have a circle.               *)
THEOREM TSortIsRight == TSortSpec => [](Order!SortedIsOrder /\ Order!VerdictIsRight)
BY SortImplementsOrder, SortedOrderIsRight, VerdictRight, PTL

-----------------------------------------------------------------------------
(* sort_plugins() with tsort()                                             *)

(* sort_plugins() calls tsort() with the plugins and the edges between     *)
(* them.  If no edge is left, what it returns becomes the list of plugins.  *)
SortedByTsort ==
    /\ pc = "sort"
    /\ phase = "done" /\ NodeSet = Loaded /\ arcs = get_edges
    /\ \/ /\ edges = <<>>
          /\ plugins' = sorted_nodes /\ pc' = "done"
          /\ UNCHANGED error
       \/ /\ edges # <<>>
          /\ Fail("circular")
          /\ UNCHANGED plugins
    /\ UNCHANGED <<at, args, input, required_plugins>>

LEMMA ListOfAll ==
    ASSUME NEW S, NEW s \in Seq(S), ToSet(s) = S, Once(s)
    PROVE  s \in SetToSeqs(S)
<1> DEFINE n == Len(s)
<1>1. n \in Nat /\ s \in [1..n -> S]
  BY LenProperties
<1>2. s \in Bijection(1..n, S)
  <2>1. s \in Injection(1..n, S)
    BY <1>1 DEF Once, Injection, IsInjective
  <2>2. s \in Surjection(1..n, S)
    BY <1>1, MembersOfList DEF Surjection
  <2> QED BY <2>1, <2>2 DEF Bijection
<1>3. Cardinality(S) = n
  <2>1. ExistsBijection(1..n, S)
    BY <1>2 DEF ExistsBijection
  <2> QED BY <1>1, <2>1, FS_CountingElements
<1> QED BY <1>1, <1>3 DEF SetToSeqs, Once

LEMMA SameCircles ==
    ASSUME NodeSet = Loaded, arcs = get_edges
    PROVE  Order!Cyclic <=> Circular
BY DEF Order!Cyclic, Order!Waiting, Circular

(* The abstract step that the proofs about Dependencies use is what the    *)
(* code does: with what tsort() returns for the list of plugins and their  *)
(* edges, sort_plugins() installs an order of all the plugins in which the *)
(* edges point forward, or fails because there is none.                    *)
THEOREM PluginsSortedByTsort == TSortSpec => [][SortedByTsort => SortPlugins]_vars
<1>1. SortInv /\ OrderInv => (SortedByTsort => SortPlugins)
  <2> SUFFICES ASSUME SortInv, OrderInv, SortedByTsort PROVE SortPlugins
    OBVIOUS
  <2>1. Order!SortedIsOrder /\ Order!VerdictIsRight /\ (Order!Cyclic <=> Circular)
    BY InvariantGivesOrder, SameCircles DEF SortedByTsort
  <2>2. CASE edges = <<>> /\ plugins' = sorted_nodes /\ pc' = "done" /\ UNCHANGED error
    <3>1. verdict = "sorted"
      BY <2>2 DEF SortedByTsort, verdict
    <3>2. ~Circular /\ Order!Placed = Loaded /\ sorted_nodes \in Seq(Loaded) /\ Once(sorted_nodes)
      BY <2>1, <3>1 DEF Order!SortedIsOrder, Order!VerdictIsRight, SortedByTsort, OrderInv, Once
    <3>3. sorted_nodes \in SetToSeqs(Loaded)
      BY <3>2, ListOfAll, MembersOfList DEF Order!Placed
    <3>4. Forward(sorted_nodes)
      BY <2>1, <3>1 DEF Order!SortedIsOrder, SortedByTsort, Forward
    <3> QED BY <2>2, <3>2, <3>3, <3>4 DEF SortPlugins, SortedByTsort
  <2>3. CASE edges # <<>> /\ Fail("circular") /\ UNCHANGED plugins
    <3>1. verdict = "circular"
      BY <2>3 DEF SortedByTsort, verdict
    <3>2. Circular
      BY <2>1, <3>1 DEF Order!VerdictIsRight
    <3> QED BY <2>3, <3>2 DEF SortPlugins, SortedByTsort
  <2> QED BY <2>2, <2>3 DEF SortedByTsort
<1>2. SortInv /\ OrderInv => [SortedByTsort => SortPlugins]_vars
  BY <1>1
<1> QED BY <1>2, SortInvariance, SortImplementsOrder, OrderInvariance, PTL
=============================================================================
