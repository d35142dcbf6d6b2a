--------------------------- MODULE MCDependencies ---------------------------
(* Three plugins with up to three declarations about each other.           *)
EXTENDS Dependencies

CONSTANTS a, b, c

Installed == [module |-> "ok", script |-> "none"]
Absent == [module |-> "none", script |-> "none"]
OnlyScript == [module |-> "none", script |-> "ok"]
BrokenModule == [module |-> "bad", script |-> "ok"]

(* Plugins that are there or not, and some that are scripts or broken. *)
PresentOrNot == [Names -> {Installed, Absent}]
SomeInstallations ==
    PresentOrNot \cup {[n \in Names |-> IF n = c THEN Absent ELSE OnlyScript],
                       [n \in Names |-> IF n = b THEN BrokenModule ELSE Installed],
                       [n \in Names |-> IF n = c THEN BrokenModule ELSE OnlyScript]}

(* Declarations about another plugin, and single ones about itself. *)
Possible == {d \in Names \X Kinds \X Names : d[1] # d[3]}
OneDeclaration == {{d} : d \in Names \X Kinds \X Names}
TwoDeclarations == {{}} \cup {{d, e} : d, e \in Possible}
ThreeDeclarations == OneDeclaration \cup TwoDeclarations \cup {{d, e, f} : d, e, f \in Possible}

Lines == {<<a, b>>, <<a>>, <<a, a>>}
=============================================================================
