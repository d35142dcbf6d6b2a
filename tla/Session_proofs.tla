--------------------------- MODULE Session_proofs ---------------------------
(***************************************************************************)
(* Theorems about Session for every number of plugins, every finite set of *)
(* signals and every setting of its other constants.                       *)
(***************************************************************************)
EXTENDS Session, FiniteSetTheorems, SequenceTheorems, TLAPS

-----------------------------------------------------------------------------
(* The inductive invariant                                                 *)

(* The exit functions are called in the order opposite to their            *)
(* registration, so the list always is one of these five.                  *)
D == <<"display_auth_tries">>
U == <<"unload_plugins", "display_auth_tries">>
E == <<"call_end_hook", "unload_plugins", "display_auth_tries">>
R == <<"restore_terminal", "call_end_hook", "unload_plugins", "display_auth_tries">>

ListType ==
    /\ pc \in Labels
    /\ at \in 0..MaxPlugins + 1
    /\ first \in 1..MaxPlugins + 1 /\ count \in 0..MaxPlugins
    /\ first <= count + 1
    /\ atexit_functions \in {<<>>, D, U, E, R}

PluginType ==
    /\ stage \in [Positions -> {"absent", "loaded", "started", "failed", "ended"}]
    /\ saver \in [Positions -> {"off", "on", "broken", "retired"}]
    /\ save_disabled \in [Positions -> BOOLEAN]
    /\ ends \in [Positions -> Nat]
    /\ freed \in [Positions -> BOOLEAN]

OtherType ==
    /\ handled \subseteq Signals
    /\ killed_in \in Labels \cup {"nowhere"}
    /\ status \in {"none", "success", "failure"}
    /\ tries \in 0..2 /\ who \in 1..AuthNames
    /\ stdin \in Consoles
    /\ mode \in [Consoles -> {"original", "secured"}]

(* Labels of main() and auth_loop(), where no exit is under way. *)
AuthLabels == {"message", "save", "save_failed", "wake", "save_abort", "auth"}
MainLabels ==
    AuthLabels \cup {"install", "load", "resolve", "start", "rollback",
                     "register_end", "isatty", "secure", "register_restore"}

(* How often the plugins may have been asked to end by now: once for the   *)
(* rollback or the exit, once for every signal.                            *)
Passes == Cardinality(handled) + (IF status = "none" /\ pc # "rollback" THEN 0 ELSE 1)

(* Which exit functions are registered where control is. *)
ExitInv ==
    /\ pc \in MainLabels => handled = {} /\ status = "none"
    /\ pc = "install" => atexit_functions = <<>>
    /\ pc = "load" => atexit_functions = D
    /\ pc \in {"resolve", "start", "rollback", "register_end"} => atexit_functions = U
    /\ pc \in {"isatty", "secure", "register_restore"} => atexit_functions = E
    /\ pc \in AuthLabels => atexit_functions = R
    /\ pc = "display_auth_tries" => atexit_functions = D
    /\ pc \in {"unload_plugins", "unlink_plugin"} => atexit_functions = U
    /\ pc = "call_end_hook" => atexit_functions = E
    /\ pc = "restore_terminal" => atexit_functions = R
    /\ pc = "delete_link" => atexit_functions # <<>>

(* While vlock_end may still be called, every plugin of the list has been  *)
(* started and none was given back.                                        *)
StageInv ==
    /\ pc \in MainLabels \/ atexit_functions \in {E, R} =>
          first = 1 /\ \A p \in Positions : ~freed[p]
    /\ atexit_functions \in {E, R} =>
          \A p \in Positions :
              stage[p] \in IF p <= count THEN {"started", "ended"} ELSE {"absent"}
    /\ pc \in {"isatty", "secure", "register_restore", "register_end"} \cup AuthLabels =>
          \A p \in Positions : stage[p] = IF p <= count THEN "started" ELSE "absent"
    /\ pc \in {"install", "load", "resolve"} =>
          \A p \in Positions : stage[p] = IF p <= count THEN "loaded" ELSE "absent"
    /\ pc = "install" => count = 0
    /\ pc = "start" =>
          /\ at >= 1 /\ at <= count + 1
          /\ \A p \in Positions :
                stage[p] = IF p > count THEN "absent"
                           ELSE IF p < at THEN "started" ELSE "loaded"
    /\ pc = "rollback" =>
          /\ at < count
          /\ \A p \in Positions : p <= at => stage[p] = "started" /\ ends[p] = 0
    /\ \A p \in Positions : p <= count => stage[p] # "absent"
    /\ pc = "unlink_plugin" => first <= count

(* How often each plugin has been asked to end. *)
EndsInv ==
    /\ \A p \in Positions : ends[p] <= Passes
    /\ pc \in MainLabels \ {"rollback"} => \A p \in Positions : ends[p] = 0
    /\ pc = "call_end_hook" =>
          /\ at <= count
          /\ \A p \in Positions : p <= at => ends[p] < Passes
    /\ pc \in {"invoke_atexit", "restore_terminal"} /\ atexit_functions \in {E, R} =>
          \A p \in Positions : ends[p] < Passes
    /\ pc = "delete_link" /\ atexit_functions = R =>
          \A p \in Positions : ends[p] < Passes

(* The screen savers during the rounds of vlock_save and vlock_save_abort. *)
SaverInv ==
    /\ \A p \in Positions : save_disabled[p] <=> saver[p] \in {"broken", "retired"}
    /\ pc \in MainLabels \ {"save", "save_failed", "wake", "save_abort"} =>
          \A p \in Positions : saver[p] \in {"off", "retired"}
    /\ pc \in {"save", "save_failed"} =>
          /\ at >= 1
          /\ at <= count + 1
          /\ \A p \in Positions :
                /\ p < at => saver[p] \in {"on", "retired"}
                /\ p > at => saver[p] \in {"off", "retired"}
    /\ pc = "save" => \A p \in Positions : p = at => saver[p] \in {"off", "retired"}
    /\ pc = "save_failed" => at <= count /\ saver[at] = "broken"
    /\ pc = "wake" =>
          \A p \in Positions :
              saver[p] \in IF p <= count THEN {"on", "retired"} ELSE {"off", "retired"}
    /\ pc = "save_abort" =>
          /\ at <= count
          /\ \A p \in Positions :
                saver[p] \in IF p <= at THEN {"on", "retired"} ELSE {"off", "retired"}

IInv ==
    /\ ListType /\ PluginType /\ OtherType
    /\ ExitInv /\ StageInv /\ EndsInv /\ SaverInv

-----------------------------------------------------------------------------
(* Lemmas about the data                                                   *)

(* Putting a function in front of a list gives the list that has it there. *)
LEMMA PrependIs ==
    ASSUME NEW s \in Seq(Functions), NEW t \in Seq(Functions), NEW f \in Functions,
           Len(t) = Len(s) + 1, t[1] = f, \A i \in 1..Len(s) : t[i + 1] = s[i]
    PROVE  <<f>> \o s = t
<1> DEFINE u == <<f>> \o s
<1>1. u \in Seq(Functions) /\ Len(u) = Len(s) + 1
  OBVIOUS
<1>2. \A i \in 1..Len(u) : u[i] = t[i]
  <2> TAKE i \in 1..Len(u)
  <2>1. CASE i = 1
    BY <2>1
  <2>2. CASE i # 1
    <3>1. i - 1 \in 1..Len(s) /\ i = (i - 1) + 1
      BY <1>1, <2>2
    <3> QED BY <3>1
  <2> QED BY <2>1, <2>2
<1> HIDE DEF u
<1>3. u = t
  BY <1>1, <1>2, SeqEqual
<1> QED BY <1>3 DEF u

(* The five lists differ, and each is the one before it with a function    *)
(* put in front.                                                           *)
LEMMA ListFacts ==
    /\ <<>> \in Seq(Functions) /\ D \in Seq(Functions) /\ U \in Seq(Functions)
    /\ E \in Seq(Functions) /\ R \in Seq(Functions)
    /\ <<>> # D /\ <<>> # U /\ <<>> # E /\ <<>> # R
    /\ D # U /\ D # E /\ D # R /\ U # E /\ U # R /\ E # R
    /\ <<"display_auth_tries">> \o <<>> = D
    /\ <<"unload_plugins">> \o D = U
    /\ <<"call_end_hook">> \o U = E
    /\ <<"restore_terminal">> \o E = R
    /\ Head(D) = "display_auth_tries" /\ Tail(D) = <<>>
    /\ Head(U) = "unload_plugins" /\ Tail(U) = D
    /\ Head(E) = "call_end_hook" /\ Tail(E) = U
    /\ Head(R) = "restore_terminal" /\ Tail(R) = E
<1>2. {"unload_plugins", "call_end_hook", "restore_terminal"} \subseteq Functions
  BY DEF Functions
<1>1. /\ <<>> \in Seq(Functions)
      /\ D \in Seq(Functions) /\ U \in Seq(Functions)
      /\ E \in Seq(Functions) /\ R \in Seq(Functions)
  BY DEF D, U, E, R, Functions
<1>3. <<"unload_plugins">> \o D = U
  <2>1. Len(U) = Len(D) + 1 /\ U[1] = "unload_plugins" /\ \A i \in 1..Len(D) : U[i + 1] = D[i]
    BY DEF D, U
  <2> QED BY <1>1, <1>2, <2>1, PrependIs
<1>4. <<"call_end_hook">> \o U = E
  <2>1. Len(E) = Len(U) + 1 /\ E[1] = "call_end_hook" /\ \A i \in 1..Len(U) : E[i + 1] = U[i]
    BY DEF E, U
  <2> QED BY <1>1, <1>2, <2>1, PrependIs
<1>5. <<"restore_terminal">> \o E = R
  <2>1. Len(R) = Len(E) + 1 /\ R[1] = "restore_terminal" /\ \A i \in 1..Len(E) : R[i + 1] = E[i]
    BY DEF E, R
  <2> QED BY <1>1, <1>2, <2>1, PrependIs
<1>6. <<"display_auth_tries">> \o <<>> = D
  BY DEF D
<1>7. /\ <<>> # D /\ <<>> # U /\ <<>> # E /\ <<>> # R
      /\ D # U /\ D # E /\ D # R /\ U # E /\ U # R /\ E # R
  BY DEF D, U, E, R
<1>8. /\ Head(D) = "display_auth_tries" /\ Tail(D) = <<>>
      /\ Head(U) = "unload_plugins" /\ Tail(U) = D
      /\ Head(E) = "call_end_hook" /\ Tail(E) = U
      /\ Head(R) = "restore_terminal" /\ Tail(R) = E
  BY DEF D, U, E, R
<1> QED BY <1>1, <1>3, <1>4, <1>5, <1>6, <1>7, <1>8

(* How many signals were handled is a number, and one more after another   *)
(* signal.                                                                 *)
LEMMA HandledCount ==
    ASSUME handled \subseteq Signals
    PROVE  /\ Cardinality(handled) \in Nat
           /\ Cardinality(Signals) \in Nat
           /\ Cardinality(handled) <= Cardinality(Signals)
           /\ \A s \in Signals \ handled :
                 Cardinality(handled \cup {s}) = Cardinality(handled) + 1
<1>1. IsFiniteSet(Signals) /\ IsFiniteSet(handled)
  BY SessionAssumption, FS_Subset
<1>2. /\ Cardinality(handled) \in Nat
      /\ Cardinality(Signals) \in Nat
  BY <1>1, FS_CardinalityType
<1>3. Cardinality(handled) <= Cardinality(Signals)
  BY <1>1, FS_Subset
<1>4. \A s \in Signals \ handled :
          Cardinality(handled \cup {s}) = Cardinality(handled) + 1
  BY <1>1, FS_AddElement
<1> QED BY <1>2, <1>3, <1>4

(* Used throughout. *)
USE SessionAssumption, ListFacts
    DEF Positions, Consoles, MainLabels, AuthLabels, Goto, Exit, Atexit, CallEnd,
        list, plugin, terminal, exiting, auth

-----------------------------------------------------------------------------
(* The initial state                                                       *)

LEMMA InitInv == Init => IInv
<1> SUFFICES ASSUME Init PROVE IInv
  OBVIOUS
<1>1. Cardinality(handled) = 0
  BY FS_EmptySet DEF Init
<1>2. ListType /\ PluginType /\ OtherType
  BY DEF Init, ListType, PluginType, OtherType, Labels, AuthNames
<1>3. ExitInv
  BY DEF Init, ExitInv
<1>4. StageInv
  BY DEF Init, StageInv
<1>5. EndsInv
  BY <1>1 DEF Init, EndsInv, Passes
<1>6. SaverInv
  BY DEF Init, SaverInv
<1> QED BY <1>2, <1>3, <1>4, <1>5, <1>6 DEF IInv

-----------------------------------------------------------------------------
(* One lemma per action                                                    *)

LEMMA RegisterTriesStep == IInv /\ RegisterTries => IInv'
<1> SUFFICES ASSUME IInv, RegisterTries PROVE IInv'
  OBVIOUS
<1> USE DEF IInv, RegisterTries
<1>1. ListType' /\ PluginType' /\ OtherType'
  BY DEF ListType, PluginType, OtherType, ExitInv, StageInv, SaverInv,
         Labels, AuthNames
<1>2. ExitInv'
  BY DEF ExitInv, ListType
<1>3. StageInv'
  BY DEF StageInv, ExitInv, ListType, PluginType
<1>4. EndsInv'
  BY HandledCount
     DEF EndsInv, StageInv, ExitInv, ListType, PluginType, OtherType, Passes
<1>5. SaverInv'
  BY DEF SaverInv, StageInv, ListType, PluginType
<1> QED BY <1>1, <1>2, <1>3, <1>4, <1>5

LEMMA LoadPluginStep == IInv /\ LoadPlugin => IInv'
<1> SUFFICES ASSUME IInv, LoadPlugin PROVE IInv'
  OBVIOUS
<1> USE DEF IInv, LoadPlugin
<1>0. count < MaxPlugins => count + 1 \in Positions
  BY DEF ListType, StageInv, EndsInv, SaverInv
<1>1. ListType' /\ PluginType' /\ OtherType'
  <2>1. ListType'
    BY <1>0 DEF ListType, ExitInv, StageInv, SaverInv, Labels
  <2>2. PluginType'
    BY <1>0 DEF PluginType
  <2>3. OtherType'
    BY DEF OtherType, AuthNames
  <2> QED BY <2>1, <2>2, <2>3
<1>2. ExitInv'
  BY DEF ExitInv, ListType
<1>3. StageInv'
  <2>1. CASE count < MaxPlugins /\ count' = count + 1 /\ UNCHANGED pc
              /\ stage' = [stage EXCEPT ![count + 1] = "loaded"]
    <3>1. \A p \in Positions : stage'[p] = IF p = count + 1 THEN "loaded" ELSE stage[p]
      BY <1>0, <2>1 DEF PluginType
    <3> QED BY <1>0, <2>1, <3>1 DEF StageInv, ExitInv, ListType
  <2>2. CASE pc' = "invoke_atexit" /\ UNCHANGED <<count, stage>>
    BY <2>2 DEF StageInv, ExitInv, ListType
  <2> QED BY <2>1, <2>2
<1>4. EndsInv'
  BY <1>0, HandledCount, SMTT(30)
     DEF EndsInv, StageInv, ExitInv, ListType, PluginType, OtherType, Passes
<1>5. SaverInv'
  BY <1>0 DEF SaverInv, StageInv, ListType, PluginType
<1> QED BY <1>1, <1>2, <1>3, <1>4, <1>5

LEMMA RegisterUnloadStep == IInv /\ RegisterUnload => IInv'
<1> SUFFICES ASSUME IInv, RegisterUnload PROVE IInv'
  OBVIOUS
<1> USE DEF IInv, RegisterUnload
<1>1. ListType' /\ PluginType' /\ OtherType'
  BY DEF ListType, PluginType, OtherType, ExitInv, StageInv, SaverInv,
         Labels, AuthNames
<1>2. ExitInv'
  BY DEF ExitInv, ListType
<1>3. StageInv'
  BY DEF StageInv, ExitInv, ListType, PluginType
<1>4. EndsInv'
  BY HandledCount
     DEF EndsInv, StageInv, ExitInv, ListType, PluginType, OtherType, Passes
<1>5. SaverInv'
  BY DEF SaverInv, StageInv, ListType, PluginType
<1> QED BY <1>1, <1>2, <1>3, <1>4, <1>5

LEMMA ResolveDependenciesStep == IInv /\ ResolveDependencies => IInv'
<1> SUFFICES ASSUME IInv, ResolveDependencies PROVE IInv'
  OBVIOUS
<1> USE DEF IInv, ResolveDependencies
<1>1. ListType' /\ PluginType' /\ OtherType'
  BY SMTT(30) DEF ListType, PluginType, OtherType, ExitInv, StageInv, SaverInv,
         Labels, AuthNames
<1>2. ExitInv'
  BY DEF ExitInv, ListType
<1>3. StageInv'
  BY DEF StageInv, ExitInv, ListType, PluginType
<1>4. EndsInv'
  BY HandledCount
     DEF EndsInv, StageInv, ExitInv, ListType, PluginType, OtherType, Passes
<1>5. SaverInv'
  BY DEF SaverInv, StageInv, ListType, PluginType
<1> QED BY <1>1, <1>2, <1>3, <1>4, <1>5

LEMMA StartPluginStep == IInv /\ StartPlugin => IInv'
<1> SUFFICES ASSUME IInv, StartPlugin PROVE IInv'
  OBVIOUS
<1> USE DEF IInv, StartPlugin
<1>0. at \in Positions
  BY DEF ListType, StageInv, EndsInv, SaverInv
<1>1. ListType' /\ PluginType' /\ OtherType'
  <2>1. ListType'
    BY <1>0 DEF ListType, ExitInv, StageInv, SaverInv, Labels
  <2>2. PluginType'
    BY <1>0 DEF PluginType
  <2>3. OtherType'
    BY DEF OtherType, AuthNames
  <2> QED BY <2>1, <2>2, <2>3
<1>2. ExitInv'
  BY DEF ExitInv, ListType
<1>3. StageInv'
  <2>1. CASE stage' = [stage EXCEPT ![at] = "started"] /\ at' = at + 1 /\ UNCHANGED pc
    <3>1. \A p \in Positions : stage'[p] = IF p = at THEN "started" ELSE stage[p]
      BY <1>0, <2>1 DEF PluginType
    <3> QED BY <1>0, <2>1, <3>1 DEF StageInv, ExitInv, ListType
  <2>2. CASE stage' = [stage EXCEPT ![at] = "failed"] /\ at' = at - 1 /\ pc' = "rollback"
    <3>1. \A p \in Positions : stage'[p] = IF p = at THEN "failed" ELSE stage[p]
      BY <1>0, <2>2 DEF PluginType
    <3> QED BY <1>0, <2>2, <3>1 DEF StageInv, EndsInv, ExitInv, ListType
  <2> QED BY <2>1, <2>2
<1>4. EndsInv'
  BY <1>0, HandledCount
     DEF EndsInv, StageInv, ExitInv, ListType, PluginType, OtherType, Passes
<1>5. SaverInv'
  BY <1>0 DEF SaverInv, StageInv, ListType, PluginType
<1> QED BY <1>1, <1>2, <1>3, <1>4, <1>5

LEMMA RollbackPluginStep == IInv /\ RollbackPlugin => IInv'
<1> SUFFICES ASSUME IInv, RollbackPlugin PROVE IInv'
  OBVIOUS
<1> USE DEF IInv, RollbackPlugin
<1>1. ListType' /\ PluginType' /\ OtherType'
  BY DEF ListType, PluginType, OtherType, ExitInv, StageInv, SaverInv,
         Labels, AuthNames
<1>2. ExitInv'
  BY DEF ExitInv, ListType
<1>3. StageInv'
  BY DEF StageInv, ExitInv, ListType, PluginType
<1>4. EndsInv'
  BY HandledCount, SMTT(30)
     DEF EndsInv, StageInv, ExitInv, ListType, PluginType, OtherType, Passes
<1>5. SaverInv'
  BY DEF SaverInv, StageInv, ListType, PluginType
<1> QED BY <1>1, <1>2, <1>3, <1>4, <1>5

LEMMA RollbackDoneStep == IInv /\ RollbackDone => IInv'
<1> SUFFICES ASSUME IInv, RollbackDone PROVE IInv'
  OBVIOUS
<1> USE DEF IInv, RollbackDone
<1>1. ListType' /\ PluginType' /\ OtherType'
  BY DEF ListType, PluginType, OtherType, ExitInv, StageInv, SaverInv,
         Labels, AuthNames
<1>2. ExitInv'
  BY DEF ExitInv, ListType
<1>3. StageInv'
  BY DEF StageInv, ExitInv, ListType, PluginType
<1>4. EndsInv'
  BY HandledCount
     DEF EndsInv, StageInv, ExitInv, ListType, PluginType, OtherType, Passes
<1>5. SaverInv'
  BY DEF SaverInv, StageInv, ListType, PluginType
<1> QED BY <1>1, <1>2, <1>3, <1>4, <1>5

LEMMA StartDoneStep == IInv /\ StartDone => IInv'
<1> SUFFICES ASSUME IInv, StartDone PROVE IInv'
  OBVIOUS
<1> USE DEF IInv, StartDone
<1>1. ListType' /\ PluginType' /\ OtherType'
  BY DEF ListType, PluginType, OtherType, ExitInv, StageInv, SaverInv,
         Labels, AuthNames
<1>2. ExitInv'
  BY DEF ExitInv, ListType
<1>3. StageInv'
  BY DEF StageInv, ExitInv, ListType, PluginType
<1>4. EndsInv'
  BY HandledCount
     DEF EndsInv, StageInv, ExitInv, ListType, PluginType, OtherType, Passes
<1>5. SaverInv'
  BY DEF SaverInv, StageInv, ListType, PluginType
<1> QED BY <1>1, <1>2, <1>3, <1>4, <1>5

LEMMA RegisterEndStep == IInv /\ RegisterEnd => IInv'
<1> SUFFICES ASSUME IInv, RegisterEnd PROVE IInv'
  OBVIOUS
<1> USE DEF IInv, RegisterEnd
<1>1. ListType' /\ PluginType' /\ OtherType'
  BY DEF ListType, PluginType, OtherType, ExitInv, StageInv, SaverInv,
         Labels, AuthNames
<1>2. ExitInv'
  BY DEF ExitInv, ListType
<1>3. StageInv'
  BY DEF StageInv, ExitInv, ListType, PluginType
<1>4. EndsInv'
  BY HandledCount
     DEF EndsInv, StageInv, ExitInv, ListType, PluginType, OtherType, Passes
<1>5. SaverInv'
  BY DEF SaverInv, StageInv, ListType, PluginType
<1> QED BY <1>1, <1>2, <1>3, <1>4, <1>5

LEMMA IsATtyStep == IInv /\ IsATty => IInv'
<1> SUFFICES ASSUME IInv, IsATty PROVE IInv'
  OBVIOUS
<1> USE DEF IInv, IsATty
<1>1. ListType' /\ PluginType' /\ OtherType'
  BY DEF ListType, PluginType, OtherType, ExitInv, StageInv, SaverInv,
         Labels, AuthNames
<1>2. ExitInv'
  BY DEF ExitInv, ListType
<1>3. StageInv'
  BY DEF StageInv, ExitInv, ListType, PluginType
<1>4. EndsInv'
  BY HandledCount
     DEF EndsInv, StageInv, ExitInv, ListType, PluginType, OtherType, Passes
<1>5. SaverInv'
  BY DEF SaverInv, StageInv, ListType, PluginType
<1> QED BY <1>1, <1>2, <1>3, <1>4, <1>5

LEMMA SecureTerminalStep == IInv /\ SecureTerminal => IInv'
<1> SUFFICES ASSUME IInv, SecureTerminal PROVE IInv'
  OBVIOUS
<1> USE DEF IInv, SecureTerminal
<1>1. ListType' /\ PluginType' /\ OtherType'
  BY DEF ListType, PluginType, OtherType, ExitInv, StageInv, SaverInv,
         Labels, AuthNames
<1>2. ExitInv'
  BY DEF ExitInv, ListType
<1>3. StageInv'
  BY DEF StageInv, ExitInv, ListType, PluginType
<1>4. EndsInv'
  BY HandledCount
     DEF EndsInv, StageInv, ExitInv, ListType, PluginType, OtherType, Passes
<1>5. SaverInv'
  BY DEF SaverInv, StageInv, ListType, PluginType
<1> QED BY <1>1, <1>2, <1>3, <1>4, <1>5

LEMMA RegisterRestoreStep == IInv /\ RegisterRestore => IInv'
<1> SUFFICES ASSUME IInv, RegisterRestore PROVE IInv'
  OBVIOUS
<1> USE DEF IInv, RegisterRestore
<1>1. ListType' /\ PluginType' /\ OtherType'
  BY DEF ListType, PluginType, OtherType, ExitInv, StageInv, SaverInv,
         Labels, AuthNames
<1>2. ExitInv'
  BY DEF ExitInv, ListType
<1>3. StageInv'
  BY DEF StageInv, ExitInv, ListType, PluginType
<1>4. EndsInv'
  BY HandledCount
     DEF EndsInv, StageInv, ExitInv, ListType, PluginType, OtherType, Passes
<1>5. SaverInv'
  BY DEF SaverInv, StageInv, ListType, PluginType
<1> QED BY <1>1, <1>2, <1>3, <1>4, <1>5

LEMMA AwaitKeyStep == IInv /\ AwaitKey => IInv'
<1> SUFFICES ASSUME IInv, AwaitKey PROVE IInv'
  OBVIOUS
<1> USE DEF IInv, AwaitKey
<1>1. ListType' /\ PluginType' /\ OtherType'
  BY SMTT(30) DEF ListType, PluginType, OtherType, ExitInv, StageInv, SaverInv,
         Labels, AuthNames
<1>2. ExitInv'
  BY DEF ExitInv, ListType
<1>3. StageInv'
  BY DEF StageInv, ExitInv, ListType, PluginType
<1>4. EndsInv'
  BY HandledCount
     DEF EndsInv, StageInv, ExitInv, ListType, PluginType, OtherType, Passes
<1>5. SaverInv'
  BY DEF SaverInv, StageInv, ListType, PluginType
<1> QED BY <1>1, <1>2, <1>3, <1>4, <1>5

LEMMA SavePluginStep == IInv /\ SavePlugin => IInv'
<1> SUFFICES ASSUME IInv, SavePlugin PROVE IInv'
  OBVIOUS
<1> USE DEF IInv, SavePlugin
<1>0. at \in Positions
  BY DEF ListType, StageInv, EndsInv, SaverInv
<1>1. ListType' /\ PluginType' /\ OtherType'
  <2>1. ListType'
    BY <1>0 DEF ListType, ExitInv, StageInv, SaverInv, Labels
  <2>2. PluginType'
    <3>1. CASE save_disabled[at]
      BY <1>0, <3>1 DEF PluginType
    <3>2. CASE saver' = [saver EXCEPT ![at] = "on"] /\ at' = at + 1 /\ UNCHANGED <<pc, save_disabled>>
      BY <1>0, <3>2 DEF PluginType
    <3>3. CASE saver' = [saver EXCEPT ![at] = "broken"] /\ save_disabled' = [save_disabled EXCEPT ![at] = TRUE]
      BY <1>0, <3>3 DEF PluginType
    <3> QED BY <3>1, <3>2, <3>3
  <2>3. OtherType'
    BY DEF OtherType, AuthNames
  <2> QED BY <2>1, <2>2, <2>3
<1>2. ExitInv'
  BY DEF ExitInv, ListType
<1>3. StageInv'
  BY <1>0 DEF StageInv, ExitInv, ListType, PluginType
<1>4. EndsInv'
  BY <1>0, HandledCount
     DEF EndsInv, StageInv, ExitInv, ListType, PluginType, OtherType, Passes
<1>5. SaverInv'
  <2>1. CASE save_disabled[at]
    BY <2>1, <1>0, SMTT(30) DEF SaverInv, StageInv, ListType, PluginType
  <2>2. CASE saver' = [saver EXCEPT ![at] = "on"] /\ at' = at + 1 /\ UNCHANGED <<pc, save_disabled>>
    BY <2>2, <1>0 DEF SaverInv, StageInv, ListType, PluginType
  <2>3. CASE saver' = [saver EXCEPT ![at] = "broken"] /\ save_disabled' = [save_disabled EXCEPT ![at] = TRUE]
    BY <2>3, <1>0, SMTT(30) DEF SaverInv, StageInv, ListType, PluginType
  <2> QED BY <2>1, <2>2, <2>3
<1> QED BY <1>1, <1>2, <1>3, <1>4, <1>5

LEMMA SaveFailedStep == IInv /\ SaveFailed => IInv'
<1> SUFFICES ASSUME IInv, SaveFailed PROVE IInv'
  OBVIOUS
<1> USE DEF IInv, SaveFailed
<1>1. ListType' /\ PluginType' /\ OtherType'
  BY DEF ListType, PluginType, OtherType, ExitInv, StageInv, SaverInv,
         Labels, AuthNames
<1>2. ExitInv'
  BY DEF ExitInv, ListType
<1>3. StageInv'
  BY DEF StageInv, ExitInv, ListType, PluginType
<1>4. EndsInv'
  BY HandledCount
     DEF EndsInv, StageInv, ExitInv, ListType, PluginType, OtherType, Passes
<1>5. SaverInv'
  BY DEF SaverInv, StageInv, ListType, PluginType
<1> QED BY <1>1, <1>2, <1>3, <1>4, <1>5

LEMMA SaveDoneStep == IInv /\ SaveDone => IInv'
<1> SUFFICES ASSUME IInv, SaveDone PROVE IInv'
  OBVIOUS
<1> USE DEF IInv, SaveDone
<1>1. ListType' /\ PluginType' /\ OtherType'
  BY DEF ListType, PluginType, OtherType, ExitInv, StageInv, SaverInv,
         Labels, AuthNames
<1>2. ExitInv'
  BY DEF ExitInv, ListType
<1>3. StageInv'
  BY DEF StageInv, ExitInv, ListType, PluginType
<1>4. EndsInv'
  BY HandledCount
     DEF EndsInv, StageInv, ExitInv, ListType, PluginType, OtherType, Passes
<1>5. SaverInv'
  BY DEF SaverInv, StageInv, ListType, PluginType
<1> QED BY <1>1, <1>2, <1>3, <1>4, <1>5

LEMMA WakeKeyStep == IInv /\ WakeKey => IInv'
<1> SUFFICES ASSUME IInv, WakeKey PROVE IInv'
  OBVIOUS
<1> USE DEF IInv, WakeKey
<1>1. ListType' /\ PluginType' /\ OtherType'
  BY DEF ListType, PluginType, OtherType, ExitInv, StageInv, SaverInv,
         Labels, AuthNames
<1>2. ExitInv'
  BY DEF ExitInv, ListType
<1>3. StageInv'
  BY DEF StageInv, ExitInv, ListType, PluginType
<1>4. EndsInv'
  BY HandledCount
     DEF EndsInv, StageInv, ExitInv, ListType, PluginType, OtherType, Passes
<1>5. SaverInv'
  BY DEF SaverInv, StageInv, ListType, PluginType
<1> QED BY <1>1, <1>2, <1>3, <1>4, <1>5

LEMMA SaveAbortPluginStep == IInv /\ SaveAbortPlugin => IInv'
<1> SUFFICES ASSUME IInv, SaveAbortPlugin PROVE IInv'
  OBVIOUS
<1> USE DEF IInv, SaveAbortPlugin
<1>0. at \in Positions
  BY DEF ListType, StageInv, EndsInv, SaverInv
<1>1. ListType' /\ PluginType' /\ OtherType'
  <2>1. ListType'
    BY <1>0 DEF ListType, ExitInv, StageInv, SaverInv, Labels
  <2>2. PluginType'
    <3>1. CASE save_disabled[at]
      BY <1>0, <3>1 DEF PluginType
    <3>2. CASE saver' = [saver EXCEPT ![at] = "off"] /\ UNCHANGED save_disabled
      BY <1>0, <3>2 DEF PluginType
    <3>3. CASE saver' = [saver EXCEPT ![at] = "retired"] /\ save_disabled' = [save_disabled EXCEPT ![at] = TRUE]
      BY <1>0, <3>3 DEF PluginType
    <3> QED BY <3>1, <3>2, <3>3
  <2>3. OtherType'
    BY DEF OtherType, AuthNames
  <2> QED BY <2>1, <2>2, <2>3
<1>2. ExitInv'
  BY DEF ExitInv, ListType
<1>3. StageInv'
  BY <1>0 DEF StageInv, ExitInv, ListType, PluginType
<1>4. EndsInv'
  BY <1>0, HandledCount
     DEF EndsInv, StageInv, ExitInv, ListType, PluginType, OtherType, Passes
<1>5. SaverInv'
  <2>1. CASE save_disabled[at]
    BY <2>1, <1>0, SMTT(30) DEF SaverInv, StageInv, ListType, PluginType
  <2>2. CASE saver' = [saver EXCEPT ![at] = "off"] /\ UNCHANGED save_disabled
    BY <2>2, <1>0 DEF SaverInv, StageInv, ListType, PluginType
  <2>3. CASE saver' = [saver EXCEPT ![at] = "retired"] /\ save_disabled' = [save_disabled EXCEPT ![at] = TRUE]
    BY <2>3, <1>0 DEF SaverInv, StageInv, ListType, PluginType
  <2> QED BY <2>1, <2>2, <2>3
<1> QED BY <1>1, <1>2, <1>3, <1>4, <1>5

LEMMA SaveAbortDoneStep == IInv /\ SaveAbortDone => IInv'
<1> SUFFICES ASSUME IInv, SaveAbortDone PROVE IInv'
  OBVIOUS
<1> USE DEF IInv, SaveAbortDone
<1>1. ListType' /\ PluginType' /\ OtherType'
  BY DEF ListType, PluginType, OtherType, ExitInv, StageInv, SaverInv,
         Labels, AuthNames
<1>2. ExitInv'
  BY DEF ExitInv, ListType
<1>3. StageInv'
  BY DEF StageInv, ExitInv, ListType, PluginType
<1>4. EndsInv'
  BY HandledCount
     DEF EndsInv, StageInv, ExitInv, ListType, PluginType, OtherType, Passes
<1>5. SaverInv'
  BY DEF SaverInv, StageInv, ListType, PluginType
<1> QED BY <1>1, <1>2, <1>3, <1>4, <1>5

LEMMA AuthenticateStep == IInv /\ Authenticate => IInv'
<1> SUFFICES ASSUME IInv, Authenticate PROVE IInv'
  OBVIOUS
<1> USE DEF IInv, Authenticate
<1>1. ListType' /\ PluginType' /\ OtherType'
  BY DEF ListType, PluginType, OtherType, ExitInv, StageInv, SaverInv,
         Labels, AuthNames
<1>2. ExitInv'
  BY DEF ExitInv, ListType
<1>3. StageInv'
  BY DEF StageInv, ExitInv, ListType, PluginType
<1>4. EndsInv'
  BY HandledCount, SMTT(30)
     DEF EndsInv, StageInv, ExitInv, ListType, PluginType, OtherType, Passes
<1>5. SaverInv'
  BY DEF SaverInv, StageInv, ListType, PluginType
<1> QED BY <1>1, <1>2, <1>3, <1>4, <1>5

LEMMA InvokeAtexitStep == IInv /\ InvokeAtexit => IInv'
<1> SUFFICES ASSUME IInv, InvokeAtexit PROVE IInv'
  OBVIOUS
<1> USE DEF IInv, InvokeAtexit
<1>1. ListType' /\ PluginType' /\ OtherType'
  BY DEF ListType, PluginType, OtherType, ExitInv, StageInv, SaverInv,
         Labels, AuthNames
<1>2. ExitInv'
  BY DEF ExitInv, ListType
<1>3. StageInv'
  BY DEF StageInv, ExitInv, ListType, PluginType
<1>4. EndsInv'
  <2>0. Passes' = Passes /\ Passes \in Nat
    BY HandledCount, SMTT(30) DEF Passes, ListType, OtherType
  <2>. /\ UNCHANGED <<count, ends, atexit_functions>> /\ pc' = Head(atexit_functions)
       /\ at' = count /\ pc = "invoke_atexit" /\ atexit_functions # <<>>
    BY DEF list, exiting, plugin
  <2>6. \A p \in Positions : ends'[p] <= Passes'
    BY <2>0 DEF EndsInv
  <2>1. CASE atexit_functions = R
    BY <2>0, <2>1, <2>6 DEF EndsInv, MainLabels
  <2>2. CASE atexit_functions = E
    <3>1. \A p \in Positions : ends[p] < Passes
      BY <2>2 DEF EndsInv
    <3>2. QED
      BY <2>0, <2>2, <2>6, <3>1 DEF EndsInv, MainLabels, ListType
  <2>3. CASE atexit_functions = U
    BY <2>0, <2>3, <2>6 DEF EndsInv, MainLabels
  <2>4. CASE atexit_functions = D
    BY <2>0, <2>4, <2>6 DEF EndsInv, MainLabels
  <2> QED BY <2>1, <2>2, <2>3, <2>4 DEF ListType
<1>5. SaverInv'
  BY DEF SaverInv, StageInv, ListType, PluginType
<1> QED BY <1>1, <1>2, <1>3, <1>4, <1>5

LEMMA DisplayAuthTriesStep == IInv /\ DisplayAuthTries => IInv'
<1> SUFFICES ASSUME IInv, DisplayAuthTries PROVE IInv'
  OBVIOUS
<1> USE DEF IInv, DisplayAuthTries
<1>1. ListType' /\ PluginType' /\ OtherType'
  BY DEF ListType, PluginType, OtherType, ExitInv, StageInv, SaverInv,
         Labels, AuthNames
<1>2. ExitInv'
  BY DEF ExitInv, ListType
<1>3. StageInv'
  BY DEF StageInv, ExitInv, ListType, PluginType
<1>4. EndsInv'
  BY HandledCount
     DEF EndsInv, StageInv, ExitInv, ListType, PluginType, OtherType, Passes
<1>5. SaverInv'
  BY DEF SaverInv, StageInv, ListType, PluginType
<1> QED BY <1>1, <1>2, <1>3, <1>4, <1>5

LEMMA RestoreTerminalStep == IInv /\ RestoreTerminal => IInv'
<1> SUFFICES ASSUME IInv, RestoreTerminal PROVE IInv'
  OBVIOUS
<1> USE DEF IInv, RestoreTerminal
<1>1. ListType' /\ PluginType' /\ OtherType'
  BY DEF ListType, PluginType, OtherType, ExitInv, StageInv, SaverInv,
         Labels, AuthNames
<1>2. ExitInv'
  BY DEF ExitInv, ListType
<1>3. StageInv'
  BY DEF StageInv, ExitInv, ListType, PluginType
<1>4. EndsInv'
  BY HandledCount
     DEF EndsInv, StageInv, ExitInv, ListType, PluginType, OtherType, Passes
<1>5. SaverInv'
  BY DEF SaverInv, StageInv, ListType, PluginType
<1> QED BY <1>1, <1>2, <1>3, <1>4, <1>5

LEMMA EndPluginStep == IInv /\ EndPlugin => IInv'
<1> SUFFICES ASSUME IInv, EndPlugin PROVE IInv'
  OBVIOUS
<1> USE DEF IInv, EndPlugin
<1>0. at \in Positions
  BY DEF ListType, StageInv, EndsInv, SaverInv
<1>1. ListType' /\ PluginType' /\ OtherType'
  <2>1. ListType'
    BY <1>0 DEF ListType, ExitInv, StageInv, SaverInv, Labels
  <2>2. PluginType'
    BY <1>0, SMTT(30) DEF PluginType
  <2>3. OtherType'
    BY DEF OtherType, AuthNames
  <2> QED BY <2>1, <2>2, <2>3
<1>2. ExitInv'
  BY DEF ExitInv, ListType
<1>3. StageInv'
  <2>1. \A p \in Positions : stage'[p] = IF p = at THEN "ended" ELSE stage[p]
    BY <1>0 DEF PluginType
  <2>2. stage[at] \in {"started", "ended"} /\ atexit_functions = E
    BY <1>0 DEF StageInv, EndsInv, ExitInv
  <2> QED BY <1>0, <2>1, <2>2 DEF StageInv, ExitInv
<1>4. EndsInv'
  <2>1. Passes' = Passes /\ Passes \in Nat
    BY HandledCount DEF Passes, OtherType
  <2>2. \A p \in Positions : ends'[p] = IF p = at THEN ends[p] + 1 ELSE ends[p]
    BY <1>0 DEF PluginType
  <2>3. \A p \in Positions : ends[p] \in Nat
    BY DEF PluginType
  <2> QED BY <1>0, <2>1, <2>2, <2>3, SMTT(30) DEF EndsInv, ListType
<1>5. SaverInv'
  BY <1>0 DEF SaverInv, StageInv, ListType, PluginType
<1> QED BY <1>1, <1>2, <1>3, <1>4, <1>5

LEMMA EndDoneStep == IInv /\ EndDone => IInv'
<1> SUFFICES ASSUME IInv, EndDone PROVE IInv'
  OBVIOUS
<1> USE DEF IInv, EndDone
<1>1. ListType' /\ PluginType' /\ OtherType'
  BY DEF ListType, PluginType, OtherType, ExitInv, StageInv, SaverInv,
         Labels, AuthNames
<1>2. ExitInv'
  BY DEF ExitInv, ListType
<1>3. StageInv'
  BY DEF StageInv, ExitInv, ListType, PluginType
<1>4. EndsInv'
  BY HandledCount
     DEF EndsInv, StageInv, ExitInv, ListType, PluginType, OtherType, Passes
<1>5. SaverInv'
  BY DEF SaverInv, StageInv, ListType, PluginType
<1> QED BY <1>1, <1>2, <1>3, <1>4, <1>5

LEMMA UnrefPluginStep == IInv /\ UnrefPlugin => IInv'
<1> SUFFICES ASSUME IInv, UnrefPlugin PROVE IInv'
  OBVIOUS
<1> USE DEF IInv, UnrefPlugin
<1>1. ListType' /\ PluginType' /\ OtherType'
  BY DEF ListType, PluginType, OtherType, ExitInv, StageInv, SaverInv,
         Labels, AuthNames
<1>2. ExitInv'
  BY DEF ExitInv, ListType
<1>3. StageInv'
  BY DEF StageInv, ExitInv, ListType, PluginType
<1>4. EndsInv'
  BY HandledCount
     DEF EndsInv, StageInv, ExitInv, ListType, PluginType, OtherType, Passes
<1>5. SaverInv'
  BY DEF SaverInv, StageInv, ListType, PluginType
<1> QED BY <1>1, <1>2, <1>3, <1>4, <1>5

LEMMA UnlinkPluginStep == IInv /\ UnlinkPlugin => IInv'
<1> SUFFICES ASSUME IInv, UnlinkPlugin PROVE IInv'
  OBVIOUS
<1> USE DEF IInv, UnlinkPlugin
<1>1. ListType' /\ PluginType' /\ OtherType'
  BY DEF ListType, PluginType, OtherType, ExitInv, StageInv, SaverInv,
         Labels, AuthNames
<1>2. ExitInv'
  BY DEF ExitInv, ListType
<1>3. StageInv'
  BY DEF StageInv, ExitInv, ListType, PluginType
<1>4. EndsInv'
  BY HandledCount
     DEF EndsInv, StageInv, ExitInv, ListType, PluginType, OtherType, Passes
<1>5. SaverInv'
  BY DEF SaverInv, StageInv, ListType, PluginType
<1> QED BY <1>1, <1>2, <1>3, <1>4, <1>5

LEMMA UnloadDoneStep == IInv /\ UnloadDone => IInv'
<1> SUFFICES ASSUME IInv, UnloadDone PROVE IInv'
  OBVIOUS
<1> USE DEF IInv, UnloadDone
<1>1. ListType' /\ PluginType' /\ OtherType'
  BY DEF ListType, PluginType, OtherType, ExitInv, StageInv, SaverInv,
         Labels, AuthNames
<1>2. ExitInv'
  BY DEF ExitInv, ListType
<1>3. StageInv'
  BY DEF StageInv, ExitInv, ListType, PluginType
<1>4. EndsInv'
  BY HandledCount
     DEF EndsInv, StageInv, ExitInv, ListType, PluginType, OtherType, Passes
<1>5. SaverInv'
  BY DEF SaverInv, StageInv, ListType, PluginType
<1> QED BY <1>1, <1>2, <1>3, <1>4, <1>5

LEMMA DeleteLinkStep == IInv /\ DeleteLink => IInv'
<1> SUFFICES ASSUME IInv, DeleteLink PROVE IInv'
  OBVIOUS
<1> USE DEF IInv, DeleteLink
<1>1. ListType' /\ PluginType' /\ OtherType'
  <2>1. atexit_functions' \in {<<>>, D, U, E}
    BY DEF ListType, ExitInv
  <2>2. ListType'
    BY <2>1 DEF ListType, Labels
  <2> QED BY <2>2 DEF PluginType, OtherType, AuthNames
<1>2. ExitInv'
  BY DEF ExitInv, ListType
<1>3. StageInv'
  BY SMTT(30) DEF StageInv, ExitInv, ListType, PluginType
<1>4. EndsInv'
  <2>0. Passes' = Passes /\ Passes \in Nat
    BY HandledCount DEF Passes, ListType, OtherType
  <2>1. CASE atexit_functions = R
    BY <2>0, <2>1 DEF EndsInv, StageInv, ExitInv, ListType, PluginType
  <2>2. CASE atexit_functions = E
    BY <2>0, <2>2 DEF EndsInv, StageInv, ExitInv, ListType, PluginType
  <2>3. CASE atexit_functions = U
    BY <2>0, <2>3 DEF EndsInv, StageInv, ExitInv, ListType, PluginType
  <2>4. CASE atexit_functions = D
    BY <2>0, <2>4 DEF EndsInv, StageInv, ExitInv, ListType, PluginType
  <2>5. CASE atexit_functions = <<>>
    BY <2>0, <2>5 DEF EndsInv, StageInv, ExitInv, ListType, PluginType
  <2> QED BY <2>1, <2>2, <2>3, <2>4, <2>5 DEF ListType
<1>5. SaverInv'
  BY DEF SaverInv, StageInv, ListType, PluginType
<1> QED BY <1>1, <1>2, <1>3, <1>4, <1>5

LEMMA DieStep == IInv /\ Die => IInv'
<1> SUFFICES ASSUME IInv, Die PROVE IInv'
  OBVIOUS
<1> USE DEF IInv, Die
<1>1. ListType' /\ PluginType' /\ OtherType'
  BY DEF ListType, PluginType, OtherType, ExitInv, StageInv, SaverInv,
         Labels, AuthNames
<1>2. ExitInv'
  BY DEF ExitInv, ListType
<1>3. StageInv'
  BY DEF StageInv, ExitInv, ListType, PluginType
<1>4. EndsInv'
  BY HandledCount
     DEF EndsInv, StageInv, ExitInv, ListType, PluginType, OtherType, Passes
<1>5. SaverInv'
  BY DEF SaverInv, StageInv, ListType, PluginType
<1> QED BY <1>1, <1>2, <1>3, <1>4, <1>5


(* A signal: control moves, and one more pass over the plugins may follow. *)
LEMMA TerminateStep ==
    ASSUME NEW s \in Signals
    PROVE  IInv /\ Terminate(s) => IInv'
<1> SUFFICES ASSUME IInv, Terminate(s) PROVE IInv'
  OBVIOUS
<1> USE DEF IInv, Terminate
<1>1. ListType' /\ PluginType' /\ OtherType'
  BY DEF ListType, PluginType, OtherType, Labels, AuthNames
<1>2. ExitInv'
  BY DEF ExitInv, ListType
<1>3. StageInv'
  BY DEF StageInv, ExitInv, ListType, PluginType
<1>4. EndsInv'
  <2>1. Cardinality(handled') = Cardinality(handled) + 1
    BY HandledCount DEF OtherType
  <2>2. CASE pc = "rollback"
    <3>0. handled = {} /\ status = "none" /\ Cardinality({}) = 0
      BY <2>2, FS_EmptySet DEF ExitInv
    <3>1. Passes' = Passes
      BY <2>1, <2>2, <3>0 DEF Passes
    <3>2. atexit_functions = U
      BY <2>2 DEF ExitInv
    <3> QED BY <3>1, <3>2 DEF EndsInv
  <2>3. CASE pc # "rollback"
    <3>1. Passes \in Nat /\ Passes' \in Nat /\ Passes < Passes'
      BY <2>1, <2>3, HandledCount DEF Passes, OtherType
    <3>2. \A p \in Positions : ends[p] \in Nat /\ ends[p] < Passes'
      BY <3>1, SMTT(30) DEF EndsInv, PluginType
    <3> QED BY <3>1, <3>2 DEF EndsInv
  <2> QED BY <2>2, <2>3
<1>5. SaverInv'
  BY DEF SaverInv
<1> QED BY <1>1, <1>2, <1>3, <1>4, <1>5

LEMMA StutterStep == IInv /\ UNCHANGED vars => IInv'
BY DEF IInv, vars, ListType, PluginType, OtherType, ExitInv, StageInv, EndsInv,
       SaverInv, Passes, AuthNames, Labels

LEMMA NextInv == IInv /\ [Next]_vars => IInv'
<1> SUFFICES ASSUME IInv, [Next]_vars PROVE IInv'
  OBVIOUS
<1>1. CASE Startup
  BY <1>1, RegisterTriesStep, LoadPluginStep, RegisterUnloadStep,
     ResolveDependenciesStep, StartPluginStep, RollbackPluginStep,
     RollbackDoneStep, StartDoneStep, RegisterEndStep, IsATtyStep,
     SecureTerminalStep, RegisterRestoreStep
     DEF Startup
<1>2. CASE Saving
  BY <1>2, SavePluginStep, SaveFailedStep, SaveDoneStep, SaveAbortPluginStep,
     SaveAbortDoneStep
     DEF Saving
<1>3. CASE Keyboard
  BY <1>3, AwaitKeyStep, WakeKeyStep, AuthenticateStep DEF Keyboard
<1>4. CASE Shutdown
  BY <1>4, InvokeAtexitStep, DisplayAuthTriesStep, RestoreTerminalStep,
     EndPluginStep, EndDoneStep, UnrefPluginStep, UnlinkPluginStep,
     UnloadDoneStep, DeleteLinkStep, DieStep
     DEF Shutdown
<1>5. ASSUME NEW s \in Signals, Terminate(s) PROVE IInv'
  BY <1>5, TerminateStep
<1>6. CASE UNCHANGED vars
  BY <1>6, StutterStep
<1> QED BY <1>1, <1>2, <1>3, <1>4, <1>5, <1>6 DEF Next, Terminated

-----------------------------------------------------------------------------
(* The theorems                                                            *)

(* IInv holds in every reachable state. *)
THEOREM Invariance == Spec => []IInv
BY InitInv, NextInv, PTL DEF Spec

(* Every variable of the session stays in its domain. *)
THEOREM TypeCorrect == Spec => []TypeOK
<1>1. IInv => TypeOK
  BY DEF IInv, ListType, PluginType, OtherType, TypeOK
<1> QED BY <1>1, Invariance, PTL

(* auth_loop() asks for a password only when no plugin's screen saver is   *)
(* running, except for plugins whose save hooks have failed.               *)
THEOREM SaversAreOff == Spec => []NoSaverAtPrompt
<1>1. IInv => NoSaverAtPrompt
  BY DEF IInv, SaverInv, NoSaverAtPrompt
<1> QED BY <1>1, Invariance, PTL

(* The initial state of the session is one of each plugin's life. *)
LEMMA LifeInit ==
    ASSUME Init, NEW p \in Positions
    PROVE  Life(p)!Init
BY DEF Init, Life!Init

(* Every step of the session is a step of each plugin's life, or leaves    *)
(* the plugin alone.                                                       *)
LEMMA LifeStep ==
    ASSUME IInv, Next, NEW p \in Positions
    PROVE  [Life(p)!Next]_(Life(p)!life)
<1> USE DEF Life!Next, Life!life
<1>0. PluginType
  BY DEF IInv
<1>1. CASE LoadPlugin
  BY <1>0, <1>1, SMTT(30) DEF LoadPlugin, PluginType, IInv, StageInv, ListType, Life!Load
<1>2. CASE ResolveDependencies
  BY <1>0, <1>2
     DEF ResolveDependencies, PluginType, IInv, StageInv, ListType, Life!Load, Life!Drop
<1>3. CASE StartPlugin
  <2>1. at \in Positions /\ ~freed[at] /\ stage[at] = "loaded"
    BY <1>3 DEF StartPlugin, IInv, StageInv, ListType
  <2> QED BY <1>0, <1>3, <2>1 DEF StartPlugin, PluginType, Life!Start
<1>4. ASSUME at \in Positions, CallEnd(at), UNCHANGED <<saver, freed>>,
             ~freed[at], stage[at] \in {"started", "ended"},
             ends[at] < 1 + Cardinality(Signals)
      PROVE  [Life(p)!Next]_(Life(p)!life)
  BY <1>0, <1>4 DEF PluginType, Life!End
<1>5. CASE RollbackPlugin
  <2>1. at \in Positions /\ ~freed[at] /\ stage[at] = "started" /\ ends[at] = 0
    BY <1>5 DEF RollbackPlugin, IInv, StageInv, ListType
  <2>2. 0 < 1 + Cardinality(Signals)
    BY HandledCount DEF IInv, OtherType
  <2> QED BY <1>4, <1>5, <2>1, <2>2 DEF RollbackPlugin
<1>6. CASE EndPlugin
  <2>1. at \in Positions /\ ~freed[at] /\ stage[at] \in {"started", "ended"}
    BY <1>6 DEF EndPlugin, IInv, StageInv, ListType, ExitInv, EndsInv
  <2>2. ends[at] < Passes /\ Passes <= 1 + Cardinality(Signals) /\ Passes \in Nat
    BY <1>6, <2>1, HandledCount, SMTT(30) DEF EndPlugin, IInv, EndsInv, OtherType, Passes
  <2>3. ends[at] < 1 + Cardinality(Signals)
    BY <1>0, <2>1, <2>2, HandledCount, SMTT(30) DEF PluginType, IInv, OtherType
  <2> QED BY <1>4, <1>6, <2>1, <2>3 DEF EndPlugin
<1>7. CASE SavePlugin
  <2>1. at \in Positions /\ ~freed[at] /\ stage[at] = "started"
    BY <1>7 DEF SavePlugin, IInv, StageInv, SaverInv, ListType
  <2>2. ~save_disabled[at] => saver[at] = "off"
    BY <1>7, <2>1 DEF SavePlugin, IInv, SaverInv
  <2> QED BY <1>0, <1>7, <2>1, <2>2 DEF SavePlugin, PluginType, Life!Save
<1>8. CASE SaveFailed
  <2>1. /\ at \in Positions /\ ~freed[at] /\ stage[at] = "started"
        /\ saver[at] = "broken"
    BY <1>8 DEF SaveFailed, IInv, StageInv, SaverInv, ListType
  <2> QED BY <1>0, <1>8, <2>1 DEF SaveFailed, PluginType, Life!SaveAbort
<1>9. CASE SaveAbortPlugin
  <2>1. at \in Positions /\ ~freed[at] /\ stage[at] = "started"
    BY <1>9 DEF SaveAbortPlugin, IInv, StageInv, SaverInv, ListType
  <2>2. ~save_disabled[at] => saver[at] = "on"
    BY <1>9, <2>1 DEF SaveAbortPlugin, IInv, SaverInv
  <2> QED BY <1>0, <1>9, <2>1, <2>2 DEF SaveAbortPlugin, PluginType, Life!SaveAbort
<1>10. CASE UnrefPlugin
  <2>1. first \in Positions /\ stage[first] # "absent"
    BY <1>10 DEF UnrefPlugin, IInv, StageInv, ListType
  <2> QED BY <1>0, <1>10, <2>1 DEF UnrefPlugin, PluginType, Life!Unload
<1>11. ASSUME UNCHANGED <<stage, saver, ends, freed>>
       PROVE  [Life(p)!Next]_(Life(p)!life)
  BY <1>11
<1>12. CASE Startup
  BY <1>1, <1>2, <1>3, <1>5, <1>11, <1>12
     DEF Startup, RegisterTries, RegisterUnload, RollbackDone, StartDone, RegisterEnd,
         IsATty, SecureTerminal, RegisterRestore
<1>13. CASE Saving
  BY <1>7, <1>8, <1>9, <1>11, <1>13 DEF Saving, SaveDone, SaveAbortDone
<1>14. CASE Keyboard
  BY <1>11, <1>14 DEF Keyboard, AwaitKey, WakeKey, Authenticate
<1>15. CASE Shutdown
  BY <1>6, <1>10, <1>11, <1>15
     DEF Shutdown, InvokeAtexit, DisplayAuthTries, RestoreTerminal, EndDone,
         UnlinkPlugin, UnloadDone, DeleteLink, Die
<1>16. CASE \E s \in Signals : Terminate(s)
  BY <1>11, <1>16 DEF Terminate
<1>17. CASE Terminated
  BY <1>11, <1>17 DEF Terminated, vars
<1> QED BY <1>12, <1>13, <1>14, <1>15, <1>16, <1>17 DEF Next

(* PLUGINS, HOOKS: vlock_start once and first; vlock_save only while the   *)
(* saver is off, and each answered by one vlock_save_abort; neither after  *)
(* an error; vlock_end only after a vlock_start that succeeded; no hook    *)
(* once the plugin is unloaded.  For any list of plugins, whatever signals *)
(* arrive.                                                                 *)
THEOREM SessionImplementsLives == Spec => PluginLives
<1>1. Init => \A p \in Positions : Life(p)!Init
  BY LifeInit
<1>2. IInv /\ [Next]_vars => [\A p \in Positions : [Life(p)!Next]_(Life(p)!life)]_vars
  BY LifeStep
<1> QED BY <1>1, <1>2, Invariance, PTL DEF Spec, PluginLives

-----------------------------------------------------------------------------
(* The exit                                                                *)

(* Control is where plugin p, started, is still going to be asked to end:  *)
(* call_end_hook is about to be registered or waits to be called, or the   *)
(* loop of the rollback or of the exit has not come to p yet.              *)
EndPending(p) ==
    \/ pc \in {"start", "register_end"}
    \/ pc \in {"rollback", "call_end_hook"} /\ p <= at
    \/ /\ atexit_functions \in {E, R}
       /\ pc # "call_end_hook"
       /\ pc = "delete_link" => atexit_functions = R

(* A plugin has been asked to end if it has ended, and only then; one that *)
(* is started still waits for it, unless the first signal came too early.  *)
PendingInv ==
    /\ handled = {} => killed_in = "nowhere"
    /\ \A p \in Positions : stage[p] = "ended" <=> ends[p] > 0
    /\ killed_in \notin BeforeEndHook =>
          \A p \in Positions : stage[p] = "started" => EndPending(p)

(* Exits that were cut short leave later plugins with at least as many     *)
(* calls as earlier ones, and the loop of the running exit separates more  *)
(* from fewer.                                                             *)
ReverseInv ==
    /\ atexit_functions \in {E, R} =>
          \A p, q \in Positions : p < q /\ q <= count => ends[p] <= ends[q]
    /\ pc = "call_end_hook" =>
          \A p, q \in Positions : p <= at /\ at < q /\ q <= count => ends[p] < ends[q]

(* A console has secured flags only if it is the one of standard input and *)
(* restore_terminal() is going to run or about to be registered; a process *)
(* that is dead has run it.                                                *)
ModeInv ==
    /\ pc = "dead" => atexit_functions \in {<<>>, U}
    /\ killed_in # "register_restore" =>
          \A c \in Consoles :
              mode[c] = "secured" =>
                  /\ c = stdin
                  /\ \/ pc = "register_restore"
                     \/ atexit_functions = R /\ pc # "delete_link"

LEMMA ExitInit == Init => PendingInv /\ ReverseInv /\ ModeInv
BY DEF Init, PendingInv, ReverseInv, ModeInv

LEMMA PendingStep == IInv /\ PendingInv /\ [Next]_vars => PendingInv'
<1> SUFFICES ASSUME IInv, PendingInv, [Next]_vars PROVE PendingInv'
  OBVIOUS
<1>0. ListType /\ PluginType /\ ExitInv /\ StageInv
  BY DEF IInv
<1> USE DEF PendingInv, EndPending
<1>1. CASE RegisterTries \/ RegisterUnload \/ StartDone \/ RegisterEnd
  <2>1. CASE RegisterTries \/ RegisterUnload
    BY <1>0, <2>1 DEF RegisterTries, RegisterUnload, StageInv
  <2>2. CASE StartDone
    BY <1>0, <2>2 DEF StartDone
  <2>3. CASE RegisterEnd
    BY <1>0, <2>3 DEF RegisterEnd, ExitInv
  <2> QED BY <1>1, <2>1, <2>2, <2>3
<1>2. CASE LoadPlugin
  <2>1. \A p \in Positions : stage'[p] \in {"absent", "loaded"} /\ ends'[p] = 0
    BY <1>0, <1>2 DEF LoadPlugin, ListType, PluginType, StageInv, IInv, EndsInv
  <2>2. handled' = handled /\ killed_in' = killed_in
    BY <1>2 DEF LoadPlugin
  <2>3. ~(0 > 0)
    OBVIOUS
  <2>4. \A p \in Positions : ~(stage'[p] = "ended") /\ ~(stage'[p] = "started") /\ ~(ends'[p] > 0)
    BY <2>1, <2>3, Zenon
  <2> QED BY <2>2, <2>4, Zenon
<1>3. CASE ResolveDependencies
  <2>1. \A p \in Positions : stage'[p] \in {"absent", "loaded"} /\ ends'[p] = 0
    BY <1>0, <1>3 DEF ResolveDependencies, IInv, EndsInv
  <2> QED BY <1>3, <2>1 DEF ResolveDependencies
<1>4. CASE StartPlugin
  <2>1. /\ pc = "start" /\ at \in Positions
        /\ UNCHANGED <<ends, atexit_functions, handled, killed_in>>
        /\ \A p \in Positions : ends[p] = 0
    BY <1>0, <1>4 DEF StartPlugin, ListType, StageInv, IInv, EndsInv
  <2>2. CASE stage' = [stage EXCEPT ![at] = "started"] /\ pc' = "start"
    <3>1. \A p \in Positions : stage'[p] # "ended"
      BY <1>0, <2>1, <2>2 DEF PluginType
    <3> QED BY <2>1, <2>2, <3>1
  <2>3. CASE stage' = [stage EXCEPT ![at] = "failed"] /\ pc' = "rollback" /\ at' = at - 1
    <3>1. \A p \in Positions : stage'[p] = IF p = at THEN "failed" ELSE stage[p]
      BY <1>0, <2>1, <2>3 DEF PluginType
    <3>2. \A p \in Positions : stage'[p] = "started" => p <= at'
      <4>1. \A p \in Positions : stage[p] = "started" => p < at
        BY <1>0, <2>1 DEF StageInv
      <4> QED BY <2>1, <2>3, <3>1, <4>1
    <3> QED BY <2>1, <2>3, <3>1, <3>2
  <2> QED BY <1>4, <2>2, <2>3 DEF StartPlugin
<1>5. CASE RollbackPlugin \/ EndPlugin
  <2>1. /\ at \in Positions /\ at' = at - 1 /\ pc \in {"rollback", "call_end_hook"}
        /\ UNCHANGED <<pc, handled, killed_in, atexit_functions>>
        /\ \A p \in Positions : stage'[p] = IF p = at THEN "ended" ELSE stage[p]
        /\ \A p \in Positions : ends'[p] = IF p = at THEN ends[p] + 1 ELSE ends[p]
    <3>1. at \in Positions
      BY <1>0, <1>5 DEF RollbackPlugin, EndPlugin, ListType, StageInv, IInv, EndsInv
    <3>2. CASE RollbackPlugin
      BY <1>0, <3>1, <3>2 DEF RollbackPlugin, PluginType
    <3>3. CASE EndPlugin
      BY <1>0, <3>1, <3>3 DEF EndPlugin, PluginType
    <3> QED BY <1>5, <3>2, <3>3
  <2>2. \A p \in Positions : stage'[p] = "ended" <=> ends'[p] > 0
    BY <1>0, <2>1 DEF PluginType
  <2>3. pc = "rollback" => atexit_functions = U
    BY <1>0 DEF ExitInv
  <2>4. ASSUME killed_in \notin BeforeEndHook, NEW p \in Positions, stage'[p] = "started"
        PROVE  p <= at'
    <3>1. p # at /\ stage[p] = "started"
      BY <2>1, <2>4
    <3>2. EndPending(p)
      BY <2>4, <3>1
    <3>3. p <= at
      BY <2>1, <2>3, <3>2
    <3> QED BY <2>1, <3>1, <3>3
  <2> QED BY <2>1, <2>2, <2>4
<1>6. CASE RollbackDone
  BY <1>0, <1>6 DEF RollbackDone, StageInv, ExitInv, ListType
<1>7. CASE IsATty \/ SecureTerminal \/ RegisterRestore
  BY <1>0, <1>7 DEF IsATty, SecureTerminal, RegisterRestore, ExitInv
<1>8. CASE Saving \/ Keyboard
  BY <1>0, <1>8
     DEF Saving, SavePlugin, SaveFailed, SaveDone, SaveAbortPlugin, SaveAbortDone,
         Keyboard, AwaitKey, WakeKey, Authenticate, ExitInv
<1>9. CASE InvokeAtexit
  BY <1>0, <1>9 DEF InvokeAtexit, StageInv, ListType
<1>10. CASE DisplayAuthTries \/ RestoreTerminal
  BY <1>0, <1>10 DEF DisplayAuthTries, RestoreTerminal, ExitInv
<1>11. CASE EndDone
  BY <1>0, <1>11 DEF EndDone, ExitInv, StageInv, ListType
<1>12. CASE UnrefPlugin \/ UnlinkPlugin \/ UnloadDone
  BY <1>0, <1>12 DEF UnrefPlugin, UnlinkPlugin, UnloadDone, ExitInv
<1>13. CASE DeleteLink
  BY <1>0, <1>13 DEF DeleteLink, ExitInv, ListType
<1>14. CASE Die
  BY <1>0, <1>14 DEF Die
<1>15. ASSUME NEW s \in Signals, Terminate(s) PROVE PendingInv'
  <2>1. /\ pc' = "invoke_atexit" /\ handled' # {}
        /\ UNCHANGED <<at, atexit_functions, stage, ends>>
        /\ killed_in' = IF handled = {} THEN pc ELSE killed_in
    BY <1>15 DEF Terminate
  <2>2. ASSUME killed_in' \notin BeforeEndHook, NEW p \in Positions, stage[p] = "started"
        PROVE  atexit_functions \in {E, R}
    <3>1. pc \notin BeforeEndHook /\ killed_in \notin BeforeEndHook
      BY <1>0, <2>1, <2>2 DEF ExitInv, BeforeEndHook
    <3>2. EndPending(p)
      BY <2>2, <3>1
    <3> QED BY <1>0, <3>1, <3>2 DEF BeforeEndHook, ExitInv
  <2> QED BY <2>1, <2>2
<1>16. CASE UNCHANGED vars
  BY <1>16 DEF vars
<1> QED
  BY <1>1, <1>2, <1>3, <1>4, <1>5, <1>6, <1>7, <1>8, <1>9, <1>10, <1>11, <1>12, <1>13,
     <1>14, <1>15, <1>16
     DEF Next, Startup, Shutdown, Terminated

LEMMA ReverseStep == IInv /\ ReverseInv /\ [Next]_vars => ReverseInv'
<1> SUFFICES ASSUME IInv, ReverseInv, [Next]_vars PROVE ReverseInv'
  OBVIOUS
<1>0. ListType /\ PluginType /\ ExitInv /\ StageInv /\ EndsInv
  BY DEF IInv
<1>1. \A p \in Positions : ends[p] \in Nat
  BY <1>0 DEF PluginType
<1> USE DEF ReverseInv
<1>2. ASSUME UNCHANGED <<ends, count>>, pc' # "call_end_hook",
             atexit_functions' \in {E, R} => atexit_functions \in {E, R}
      PROVE  ReverseInv'
  BY <1>2
<1>3. CASE RegisterTries \/ LoadPlugin \/ RegisterUnload \/ ResolveDependencies
  BY <1>0, <1>3 DEF RegisterTries, LoadPlugin, RegisterUnload, ResolveDependencies, ExitInv
<1>4. CASE StartPlugin \/ RollbackPlugin
  BY <1>0, <1>4 DEF StartPlugin, RollbackPlugin, ExitInv
<1>5. CASE RegisterEnd
  <2>1. \A p \in Positions : ends[p] = 0
    BY <1>0, <1>5 DEF RegisterEnd, EndsInv
  <2> QED BY <1>5, <2>1 DEF RegisterEnd
<1>6. CASE RollbackDone \/ StartDone \/ IsATty \/ SecureTerminal \/ RegisterRestore
  BY <1>0, <1>2, <1>6
     DEF RollbackDone, StartDone, IsATty, SecureTerminal, RegisterRestore, ExitInv
<1>7. CASE Saving \/ Keyboard
  BY <1>2, <1>7
     DEF Saving, SavePlugin, SaveFailed, SaveDone, SaveAbortPlugin, SaveAbortDone,
         Keyboard, AwaitKey, WakeKey, Authenticate
<1>8. CASE InvokeAtexit
  <2>1. UNCHANGED <<ends, count, atexit_functions>> /\ at' = count
    BY <1>8 DEF InvokeAtexit
  <2>2. count \in Nat
    BY <1>0 DEF ListType
  <2> QED BY <2>1, <2>2
<1>9. CASE EndPlugin
  <2>1. /\ at \in Positions /\ at' = at - 1 /\ at <= count /\ count \in Nat
        /\ UNCHANGED <<pc, count, atexit_functions>> /\ atexit_functions = E
        /\ \A p \in Positions : ends'[p] = IF p = at THEN ends[p] + 1 ELSE ends[p]
    BY <1>0, <1>9 DEF EndPlugin, ListType, PluginType, StageInv, ExitInv, EndsInv
  <2>2. /\ \A p, q \in Positions : p < q /\ q <= count => ends[p] <= ends[q]
        /\ \A p, q \in Positions : p <= at /\ at < q /\ q <= count => ends[p] < ends[q]
    BY <1>9, <2>1 DEF EndPlugin
  <2>3. ASSUME NEW p \in Positions, NEW q \in Positions, p < q, q <= count
        PROVE  ends'[p] <= ends'[q] /\ (p <= at' /\ at' < q => ends'[p] < ends'[q])
    <3>1. CASE q = at
      <4>1. ends[p] <= ends[at] /\ ends'[p] = ends[p] /\ ends'[at] = ends[at] + 1
        BY <2>1, <2>2, <2>3, <3>1
      <4>2. ends[p] \in Nat /\ ends[at] \in Nat
        BY <1>1, <2>1
      <4> QED BY <3>1, <4>1, <4>2
    <3>2. CASE p = at
      <4>1. ends[p] < ends[q]
        BY <2>1, <2>2, <2>3, <3>2
      <4> QED BY <1>1, <2>1, <2>3, <3>2, <4>1
    <3>3. CASE p # at /\ q # at
      <4>1. p <= at' /\ at' < q => p <= at /\ at < q
        BY <2>1, <2>3, <3>3
      <4> QED BY <1>1, <2>1, <2>2, <2>3, <3>3, <4>1
    <3> QED BY <3>1, <3>2, <3>3
  <2>4. \A p, q \in Positions : p <= at' /\ at' < q => p < q
    BY <2>1
  <2> QED BY <2>1, <2>3, <2>4
<1>10. CASE DisplayAuthTries \/ RestoreTerminal \/ EndDone \/ UnrefPlugin \/ UnlinkPlugin
            \/ UnloadDone \/ Die
  BY <1>2, <1>10
     DEF DisplayAuthTries, RestoreTerminal, EndDone, UnrefPlugin, UnlinkPlugin, UnloadDone, Die
<1>11. CASE DeleteLink
  BY <1>0, <1>2, <1>11, SMTT(30) DEF DeleteLink, ExitInv, ListType
<1>12. ASSUME NEW s \in Signals, Terminate(s) PROVE ReverseInv'
  BY <1>2, <1>12 DEF Terminate
<1>13. CASE UNCHANGED vars
  BY <1>13 DEF vars
<1> QED
  BY <1>3, <1>4, <1>5, <1>6, <1>7, <1>8, <1>9, <1>10, <1>11, <1>12, <1>13
     DEF Next, Startup, Shutdown, Terminated

LEMMA ModeStep == IInv /\ PendingInv /\ ModeInv /\ [Next]_vars => ModeInv'
<1> SUFFICES ASSUME IInv, PendingInv, ModeInv, [Next]_vars PROVE ModeInv'
  OBVIOUS
<1>0. ListType /\ ExitInv /\ OtherType
  BY DEF IInv
<1>1. stdin \in Consoles /\ mode \in [Consoles -> {"original", "secured"}]
  BY <1>0 DEF OtherType
<1> USE DEF ModeInv
<1>2. ASSUME UNCHANGED <<stdin, mode, killed_in, handled>>,
             pc # "register_restore",
             atexit_functions = R /\ pc # "delete_link" =>
                 atexit_functions' = R /\ pc' # "delete_link",
             pc' = "dead" => atexit_functions' \in {<<>>, U}
      PROVE  ModeInv'
  BY <1>2
<1>3. CASE RegisterTries \/ LoadPlugin \/ RegisterUnload \/ ResolveDependencies
           \/ RollbackDone \/ StartDone \/ RegisterEnd \/ IsATty
  BY <1>0, <1>2, <1>3
     DEF RegisterTries, LoadPlugin, RegisterUnload, ResolveDependencies, RollbackDone,
         StartDone, RegisterEnd, IsATty, ExitInv
<1>4. CASE StartPlugin \/ RollbackPlugin \/ EndPlugin
  BY <1>0, <1>4 DEF StartPlugin, RollbackPlugin, EndPlugin, ExitInv
<1>5. CASE SecureTerminal
  BY <1>0, <1>1, <1>5 DEF SecureTerminal, ExitInv
<1>6. CASE RegisterRestore
  BY <1>0, <1>6 DEF RegisterRestore, ExitInv
<1>7. CASE Saving \/ Keyboard
  BY <1>0, <1>2, <1>7
     DEF Saving, SavePlugin, SaveFailed, SaveDone, SaveAbortPlugin, SaveAbortDone,
         Keyboard, AwaitKey, WakeKey, Authenticate, ExitInv
<1>8. CASE InvokeAtexit
  BY <1>0, <1>2, <1>8 DEF InvokeAtexit, ListType
<1>9. CASE RestoreTerminal
  BY <1>0, <1>1, <1>9 DEF RestoreTerminal, ExitInv
<1>10. CASE DisplayAuthTries \/ EndDone \/ UnrefPlugin \/ UnlinkPlugin \/ UnloadDone
            \/ DeleteLink \/ Die
  BY <1>0, <1>2, <1>10
     DEF DisplayAuthTries, EndDone, UnrefPlugin, UnlinkPlugin, UnloadDone, DeleteLink, Die,
         ExitInv
<1>11. ASSUME NEW s \in Signals, Terminate(s) PROVE ModeInv'
  BY <1>0, <1>11 DEF Terminate, ExitInv, PendingInv
<1>12. CASE UNCHANGED vars
  BY <1>12 DEF vars
<1> QED
  BY <1>3, <1>4, <1>5, <1>6, <1>7, <1>8, <1>9, <1>10, <1>11, <1>12
     DEF Next, Startup, Shutdown, Terminated

(* What the exit relies on holds in every reachable state. *)
LEMMA ExitInvariance == Spec => [](IInv /\ PendingInv /\ ReverseInv /\ ModeInv)
BY InitInv, NextInv, ExitInit, PendingStep, ReverseStep, ModeStep, PTL DEF Spec

(* handle_vlock_start and call_end_hook: no plugin is asked to end without *)
(* a successful vlock_start or more often than once for the rollback or    *)
(* the exit and once for each signal; every plugin started has been asked  *)
(* when the process is gone, unless the first signal came before           *)
(* call_end_hook was registered.                                           *)
THEOREM EveryStartIsEnded == Spec => []EndMatchesStart
<1>1. IInv /\ PendingInv /\ ModeInv => EndMatchesStart
  <2> SUFFICES ASSUME IInv, PendingInv, ModeInv, NEW p \in Positions
               PROVE  /\ stage[p] \in {"started", "ended"} =>
                             ends[p] <= 1 + Cardinality(handled)
                      /\ stage[p] \notin {"started", "ended"} => ends[p] <= 0
                      /\ pc = "dead" /\ stage[p] \in {"started", "ended"}
                            /\ killed_in \notin BeforeEndHook => ends[p] >= 1
    BY DEF EndMatchesStart
  <2>1. ends[p] \in Nat /\ Cardinality(handled) \in Nat /\ ends[p] <= Passes
    BY HandledCount DEF IInv, PluginType, OtherType, EndsInv
  <2>2. ends[p] <= 1 + Cardinality(handled)
    BY <2>1 DEF Passes
  <2>3. stage[p] = "ended" <=> ends[p] > 0
    BY DEF PendingInv
  <2>4. pc = "dead" /\ killed_in \notin BeforeEndHook => stage[p] # "started"
    BY DEF PendingInv, EndPending, ModeInv
  <2> QED BY <2>1, <2>2, <2>3, <2>4
<1> QED BY <1>1, ExitInvariance, PTL

(* handle_vlock_end and the rollback in handle_vlock_start: vlock_end goes *)
(* from the last plugin to the first, and over those that were started     *)
(* later before any that was started earlier, in every one of the exits    *)
(* that signals may have cut short.                                        *)
THEOREM EndsAreInReverse == Spec => EndInReverse
<1>1. IInv /\ PendingInv /\ ReverseInv /\ [Next]_vars =>
          [\A p \in Positions :
              ends'[p] # ends[p] =>
                  \A q \in Positions :
                      q > p /\ stage[q] \in {"started", "ended"} => ends[q] > ends[p]]_vars
  <2> SUFFICES ASSUME IInv, PendingInv, ReverseInv, Next,
                      NEW p \in Positions, ends'[p] # ends[p],
                      NEW q \in Positions, q > p, stage[q] \in {"started", "ended"}
               PROVE  ends[q] > ends[p]
    BY DEF vars
  <2>0. ListType /\ PluginType /\ ExitInv /\ StageInv /\ EndsInv
    BY DEF IInv
  <2>1. RollbackPlugin \/ EndPlugin
    BY DEF Next, Startup, Saving, Keyboard, Shutdown, RegisterTries, LoadPlugin, vars,
       RegisterUnload, ResolveDependencies, StartPlugin, RollbackDone, Terminate,
       StartDone, RegisterEnd, IsATty, SecureTerminal, RegisterRestore, SavePlugin,
       SaveFailed, SaveDone, SaveAbortPlugin, SaveAbortDone, AwaitKey, WakeKey,
       Authenticate, InvokeAtexit, DisplayAuthTries, RestoreTerminal,
       EndDone, UnrefPlugin, UnlinkPlugin, UnloadDone, DeleteLink, Die, Terminated
  <2>2. p = at
    BY <2>0, <2>1 DEF RollbackPlugin, EndPlugin, PluginType
  <2>3. CASE RollbackPlugin
    <3>1. handled = {} /\ pc = "rollback" /\ atexit_functions = U
      BY <2>0, <2>3 DEF RollbackPlugin, ExitInv
    <3>2. ends[q] > 0
      <4>1. killed_in \notin BeforeEndHook
        BY <3>1 DEF PendingInv, BeforeEndHook
      <4>2. stage[q] # "started"
        BY <2>0, <2>2, <3>1, <4>1 DEF PendingInv, EndPending, ListType
      <4> QED BY <4>2 DEF PendingInv
    <3>3. ends[p] = 0
      BY <2>0, <2>2, <3>1 DEF StageInv, ListType
    <3> QED BY <3>2, <3>3
  <2>4. CASE EndPlugin
    <3>1. pc = "call_end_hook" /\ atexit_functions = E
      BY <2>0, <2>4 DEF EndPlugin, ExitInv
    <3>2. q <= count
      BY <2>0, <3>1 DEF StageInv
    <3>3. \A p1, q1 \in Positions : p1 <= at /\ at < q1 /\ q1 <= count => ends[p1] < ends[q1]
      BY <3>1 DEF ReverseInv
    <3>4. ends[p] < ends[q] /\ ends[p] \in Nat /\ ends[q] \in Nat
      BY <2>0, <2>2, <3>2, <3>3 DEF PluginType
    <3> QED BY <3>4
  <2> QED BY <2>1, <2>3, <2>4
<1> QED BY <1>1, ExitInvariance, PTL DEF Spec, EndInReverse

(* secure_terminal() and restore_terminal(): however the process ends, the *)
(* console whose flags were changed is the one that gets them back, also   *)
(* with a plugin that moves standard input; except when the first signal   *)
(* comes before restore_terminal() is registered.                          *)
THEOREM TerminalComesBack == Spec => []TerminalRestored
<1>1. IInv /\ ModeInv => TerminalRestored
  <2> SUFFICES ASSUME IInv, ModeInv, pc = "dead", killed_in # "register_restore",
                      NEW c \in Consoles
               PROVE  mode[c] = "original"
    BY DEF TerminalRestored
  <2>1. mode[c] # "secured"
    BY DEF ModeInv
  <2> QED BY <2>1 DEF IInv, OtherType
<1> QED BY <1>1, ExitInvariance, PTL

=============================================================================
