-------------------------- MODULE Console_proofs --------------------------
(***************************************************************************)
(* Theorems about Console for any set of virtual consoles, every list of   *)
(* the three plugins, and the user switching at any moment.                *)
(***************************************************************************)
EXTENDS Console, FiniteSetTheorems, TLAPS

-----------------------------------------------------------------------------
(* The inductive invariant                                                 *)

SysrqCalls == {"open_sysrq", "write_sysrq", "restore_sysrq"}
NewCalls == {"openqry", "activate", "waitactive", "restore_stdin", "activate_old", "waitactive_old"}
AllCalls == {"getmode", "set_usr1", "set_usr2", "setmode", "unsetmode", "reset_usr1", "reset_usr2"}

(* While hooks are still being started, and from the first vlock_end on.   *)
Starting == {"start", "open_sysrq", "write_sysrq", "openqry", "activate", "waitactive",
             "getmode", "set_usr1", "set_usr2", "setmode", "locked"}
Ending == {"end", "restore_sysrq", "restore_stdin", "activate_old", "waitactive_old",
           "unsetmode", "reset_usr1", "reset_usr2", "exit"}

(* The order is such that all comes last, and no plugin comes twice.       *)
OrderInv ==
    /\ order \in Seq(Plugins) /\ Len(order) \in Nat \ {0}
    /\ \A i, j \in 1..Len(order) : order[i] = order[j] => i = j
    /\ order[Len(order)] = "all"

(* A call is made for its own plugin; vlock is not dead.                   *)
PlaceInv ==
    /\ pc \in Starting \cup Ending
    /\ pc \in SysrqCalls => at \in 1..Len(order) /\ order[at] = "nosysrq"
    /\ pc \in NewCalls => at \in 1..Len(order) /\ order[at] = "new"
    /\ pc \in AllCalls => at \in 1..Len(order) /\ order[at] = "all"
    /\ pc = "start" => at \in 1..Len(order) + 1
    /\ pc = "locked" => at = Len(order) + 1
    /\ pc = "end" => at \in 0..Len(order)
    /\ pc = "exit" => at = 0

(* The plugins that were started and not yet ended.                        *)
Up == {order[i] : i \in {j \in 1..Len(order) : IF pc \in Starting THEN j < at ELSE j <= at}}

(* nosysrq knows how SysRq was while it keeps it off.                      *)
SysrqInv ==
    /\ {sysrq, found} \subseteq {"on", "off"} /\ value \in {"none", "on"}
    /\ value = "on" => found = "on"
    /\ pc = "write_sysrq" => sysrq = "on"
    /\ sysrq_stuck => pc \notin Starting
    /\ value = "none" \/ "nosysrq" \notin Up => sysrq = found \/ sysrq_stuck

(* new knows where to go back to; before and after it stdin is where vlock *)
(* was started.                                                            *)
NewInv ==
    /\ stdin \in Consoles /\ active \in Consoles
    /\ "new" \in Up \/ pc \in {"activate", "waitactive"} => old_vtno \in Consoles
    /\ "new" \notin Up \/ pc \in {"activate_old", "waitactive_old"} => stdin = First

AllAuto == \A c \in Consoles : mode[c] = "auto"
NoHandlers == usr1 = "default" /\ usr2 = "default"
BothHandlers == usr1 = "handler" /\ usr2 = "handler"
FoundNone == vtm = "auto" /\ sa_usr1 = "default" /\ sa_usr2 = "default"

(* How far all is in taking hold of the console and in letting go of it.   *)
AllInv ==
    /\ mode \in [Consoles -> {"auto", "process"}] /\ stuck \in BOOLEAN
    /\ "all" \notin Up /\ pc \notin {"set_usr2", "setmode"} /\ ~stuck => NoHandlers /\ AllAuto
    /\ pc = "set_usr1" => vtm = "auto"
    /\ pc = "set_usr2" =>
          usr1 = "handler" /\ usr2 = "default" /\ AllAuto /\ vtm = "auto" /\ sa_usr1 = "default"
    /\ pc = "setmode" => BothHandlers /\ AllAuto /\ FoundNone
    /\ "all" \in Up =>
          /\ FoundNone /\ ~stuck
          /\ \A c \in Consoles \ {stdin} : mode[c] = "auto"
          /\ pc # "reset_usr2" => BothHandlers
          /\ pc = "reset_usr1" => AllAuto
          /\ pc = "reset_usr2" => AllAuto /\ usr1 = "default"
    /\ stuck => pc \in Ending /\ BothHandlers

ConsoleInv == OrderInv /\ PlaceInv /\ SysrqInv /\ NewInv /\ AllInv

USE ConsolesAssumption DEF Plugins, Starting, Ending, SysrqCalls, NewCalls, AllCalls

-----------------------------------------------------------------------------
(* The order                                                               *)

LEMMA OrdersSorted == order \in Orders => OrderInv
<1> SUFFICES ASSUME order \in Orders PROVE OrderInv
  OBVIOUS
<1>1. PICK T \in SUBSET Plugins : /\ T # {} /\ (\A p \in T : needs[p] \subseteq T)
                                  /\ order \in SetToSeqs(T)
  BY DEF Orders
<1> DEFINE n == Cardinality(T)
<1>2. IsFiniteSet(T) /\ n \in Nat /\ n # 0
  <2>1. IsFiniteSet(Plugins)
    <3>1. IsFiniteSet({"all"}) /\ IsFiniteSet({"new"}) /\ IsFiniteSet({"nosysrq"})
      BY FS_Singleton
    <3>2. IsFiniteSet({"all"} \cup {"new"} \cup {"nosysrq"})
      BY <3>1, FS_Union
    <3>3. Plugins = {"all"} \cup {"new"} \cup {"nosysrq"}
      OBVIOUS
    <3> QED BY <3>2, <3>3
  <2>2. IsFiniteSet(T)
    BY <2>1, FS_Subset
  <2> QED BY <1>1, <2>2, FS_CardinalityType, FS_EmptySet
<1> HIDE DEF n
<1>3. order \in [1..n -> T] /\ \A i, j \in 1..n : i # j => order[i] # order[j]
  BY <1>1 DEF SetToSeqs, n
<1>4. order \in Seq(Plugins) /\ Len(order) = n
  <2>1. order \in [1..n -> Plugins]
    <3>1. \A i \in 1..n : order[i] \in T
      BY <1>3
    <3> QED BY <1>1, <1>3, <3>1
  <2> QED BY <1>2, <2>1
<1>5. order \in Surjection(1..n, T)
  <2>1. order \in Injection(1..n, T)
    BY <1>3 DEF Injection, IsInjective
  <2>2. Cardinality(1..n) = n
    BY <1>2, FS_Interval
  <2>3. Cardinality(T) = Cardinality(1..n) /\ IsFiniteSet(1..n)
    BY <1>2, <2>2, FS_Interval DEF n
  <2> QED BY <1>2, <2>1, <2>3, FS_Injection
<1>6. PICK k \in 1..n : order[k] = "all"
  <2>1. "all" \in T
    <3>1. PICK p \in T : needs[p] \subseteq T
      BY <1>1
    <3>2. p = "all" \/ p = "new" \/ p = "nosysrq"
      BY <1>1
    <3> QED BY <3>1, <3>2 DEF needs
  <2> QED BY <1>5, <2>1 DEF Surjection
<1>7. order[n] = "all"
  <2> SUFFICES ASSUME order[n] # "all" PROVE FALSE
    OBVIOUS
  <2>1. n \in DOMAIN order /\ k \in DOMAIN order
    BY <1>2, <1>3
  <2>2. order[n] \in {"new", "nosysrq"}
    <3>1. order[n] \in Plugins
      BY <1>2, <1>4
    <3> QED BY <3>1
  <2>3. order[k] \in preceeds[order[n]]
    BY <1>6, <2>2 DEF preceeds
  <2>4. n < k
    BY <2>1, <2>3 DEF Orders
  <2> QED BY <1>2, <2>4
<1> QED BY <1>2, <1>3, <1>4, <1>7 DEF OrderInv

-----------------------------------------------------------------------------
(* The plugins that are up                                                 *)

(* The plugin to be started is not yet up, the one to be ended is, and all *)
(* is up only when every plugin is.                                        *)
LEMMA UpNow ==
    ASSUME OrderInv, at \in 1..Len(order)
    PROVE  /\ pc \in Starting => order[at] \notin Up
           /\ pc \in Ending => order[at] \in Up
           /\ order[at] # "all" => "all" \notin Up
<1>1. Len(order) \in 1..Len(order) /\ order[Len(order)] = "all"
  BY DEF OrderInv
<1>2. order[at] # "all" => at # Len(order)
  BY <1>1
<1>3. pc \in Starting => ~(pc \in Ending)
  OBVIOUS
<1> QED BY <1>1, <1>2, <1>3 DEF Up, OrderInv

LEMMA UpSucceed ==
    ASSUME OrderInv, at \in 1..Len(order), pc \in Starting, Succeed, UNCHANGED order
    PROVE  Up' = Up \cup {order[at]}
<1>1. \A j \in 1..Len(order) : j < at + 1 <=> j < at \/ j = at
  OBVIOUS
<1>2. pc' \in Starting /\ at' = at + 1
  BY DEF Succeed
<1> QED BY <1>1, <1>2 DEF Up

LEMMA UpFail ==
    ASSUME OrderInv, at \in 1..Len(order), pc \in Starting, Fail, UNCHANGED order
    PROVE  Up' = Up
<1>1. \A j \in 1..Len(order) : j <= at - 1 <=> j < at
  OBVIOUS
<1>2. pc' \notin Starting /\ at' = at - 1
  BY DEF Fail
<1> QED BY <1>1, <1>2 DEF Up

LEMMA UpEnded ==
    ASSUME OrderInv, at \in 1..Len(order), pc \in Ending, Ended, UNCHANGED order
    PROVE  Up' = Up \ {order[at]}
<1>1. \A j \in 1..Len(order) : j <= at - 1 <=> j <= at /\ j # at
  OBVIOUS
<1>2. pc' \notin Starting /\ pc \notin Starting /\ at' = at - 1
  BY DEF Ended
<1>3. Up = {order[j] : j \in {j \in 1..Len(order) : j <= at}}
  BY <1>2 DEF Up
<1>4. Up' = {order[j] : j \in {j \in 1..Len(order) : j <= at /\ j # at}}
  BY <1>1, <1>2 DEF Up
<1>5. \A j \in 1..Len(order) : order[j] = order[at] => j = at
  BY DEF OrderInv
<1> QED BY <1>3, <1>4, <1>5

LEMMA UpSame ==
    ASSUME UNCHANGED <<order, at>>, pc \in Starting <=> pc' \in Starting
    PROVE  Up' = Up
BY DEF Up

LEMMA UpUnlock ==
    ASSUME OrderInv, pc = "locked", at = Len(order) + 1, Unlock
    PROVE  Up' = Up
<1>1. \A j \in 1..Len(order) : j < at <=> j <= Len(order)
  BY DEF OrderInv
<1> QED BY <1>1 DEF Up, Unlock

-----------------------------------------------------------------------------
(* The steps                                                               *)

LEMMA InitInv == Init => ConsoleInv
<1> SUFFICES ASSUME Init PROVE ConsoleInv
  OBVIOUS
<1>1. OrderInv
  BY OrdersSorted DEF Init
<1>2. Up = {}
  BY DEF Init, Up
<1>3. PlaceInv
  BY <1>1 DEF Init, PlaceInv, OrderInv
<1>4. SysrqInv /\ NewInv
  BY <1>2 DEF Init, SysrqInv, NewInv
<1>5. AllInv
  BY <1>2 DEF Init, AllInv, NoHandlers, AllAuto
<1> QED BY <1>1, <1>3, <1>4, <1>5 DEF ConsoleInv

(* A console is governed only while both signals are handled, so the       *)
(* kernel's asking has no other effect than the switch itself.             *)
LEMMA Handled ==
    ASSUME AllInv
    PROVE  AllAuto \/ BothHandlers
BY DEF AllInv, AllAuto, NoHandlers, BothHandlers

LEMMA AskSafe ==
    ASSUME AllInv, NewInv, NEW c \in Consoles, NEW proceed, Ask(c, proceed)
    PROVE  pc' = proceed /\ active' \in Consoles
<1>1. active \in Consoles /\ mode[active] \in {"auto", "process"}
  BY DEF AllInv, NewInv
<1>2. CASE AllAuto
  BY <1>1, <1>2 DEF Ask, AllAuto
<1>3. CASE BothHandlers
  BY <1>1, <1>3 DEF Ask, BothHandlers, release_vt
<1> QED BY <1>2, <1>3, Handled

(* What a step keeps that moves no plugin.                                 *)
LEMMA UserStep == ConsoleInv /\ UserSwitches => ConsoleInv'
<1> SUFFICES ASSUME ConsoleInv, UserSwitches PROVE ConsoleInv'
  OBVIOUS
<1>1. PICK c \in Consoles : Ask(c, pc)
  BY DEF UserSwitches
<1>2. pc' = pc /\ active' \in Consoles
  BY <1>1, AskSafe DEF ConsoleInv
<1>3. UNCHANGED <<order, at, mode, usr1, usr2, vtm, sa_usr1, sa_usr2, console_switch_locked, stuck,
                  sysrq, value, found, sysrq_stuck, stdin, old_vtno>>
  BY DEF UserSwitches, usr, saved, sys, new
<1>4. Up' = Up
  BY <1>2, <1>3, UpSame
<1> QED BY <1>2, <1>3, <1>4
   DEF ConsoleInv, OrderInv, PlaceInv, SysrqInv, NewInv, AllInv, AllAuto, NoHandlers,
       BothHandlers, FoundNone

LEMMA ControlStep == ConsoleInv /\ (NextStart \/ Unlock \/ NextEnd) => ConsoleInv'
<1> SUFFICES ASSUME ConsoleInv, NextStart \/ Unlock \/ NextEnd PROVE ConsoleInv'
  OBVIOUS
<1>0. OrderInv /\ PlaceInv /\ SysrqInv /\ NewInv /\ AllInv
  BY DEF ConsoleInv
<1>1. UNCHANGED <<order, active, mode, usr1, usr2, vtm, sa_usr1, sa_usr2, console_switch_locked,
                  stuck, sysrq, value, found, sysrq_stuck, stdin, old_vtno>>
  BY DEF NextStart, Unlock, NextEnd, kernel, usr, saved, sys, new
<1>7. order' = order
  BY <1>1
<1>2. \A i \in 1..Len(order) : order[i] \in {"all", "new", "nosysrq"}
  BY <1>0 DEF OrderInv
<1>3. OrderInv'
  BY <1>0, <1>1 DEF OrderInv
<1>4. CASE NextStart
  <2>1. \/ at > Len(order) /\ pc' = "locked"
        \/ /\ at \in 1..Len(order) /\ pc' \in {"open_sysrq", "openqry", "getmode"}
           /\ pc' = "open_sysrq" => order[at] = "nosysrq"
           /\ pc' = "openqry" => order[at] = "new"
           /\ pc' = "getmode" => order[at] = "all"
    BY <1>0, <1>2, <1>4 DEF NextStart, FirstCall, PlaceInv, OrderInv
  <2>2. pc = "start" /\ at' = at
    BY <1>4 DEF NextStart
  <2>3. PlaceInv'
    BY <1>0, <1>7, <2>1, <2>2 DEF PlaceInv, OrderInv
  <2>4. Up' = Up
    BY <1>7, <2>1, <2>2, UpSame
  <2> QED BY <1>0, <1>1, <1>3, <2>1, <2>2, <2>3, <2>4
     DEF ConsoleInv, SysrqInv, NewInv, AllInv, AllAuto, NoHandlers, BothHandlers, FoundNone
<1>5. CASE Unlock
  <2>1. pc = "locked" /\ pc' = "end" /\ at = Len(order) + 1 /\ at' = Len(order)
    BY <1>0, <1>5 DEF Unlock, PlaceInv
  <2>2. PlaceInv'
    BY <1>0, <1>1, <2>1 DEF PlaceInv, OrderInv
  <2>3. Up' = Up
    BY <1>0, <1>5, <2>1, UpUnlock
  <2> QED BY <1>0, <1>1, <1>3, <2>1, <2>2, <2>3
     DEF ConsoleInv, SysrqInv, NewInv, AllInv, AllAuto, NoHandlers, BothHandlers, FoundNone
<1>6. CASE NextEnd
  <2>1. \/ at = 0 /\ pc' = "exit"
        \/ /\ at \in 1..Len(order) /\ pc' \in {"restore_sysrq", "restore_stdin", "unsetmode"}
           /\ pc' = "restore_sysrq" => order[at] = "nosysrq"
           /\ pc' = "restore_stdin" => order[at] = "new"
           /\ pc' = "unsetmode" => order[at] = "all"
    BY <1>0, <1>2, <1>6 DEF NextEnd, FirstEndCall, PlaceInv, OrderInv
  <2>2. pc = "end" /\ at' = at
    BY <1>6 DEF NextEnd
  <2>3. PlaceInv'
    BY <1>0, <1>7, <2>1, <2>2 DEF PlaceInv, OrderInv
  <2>4. Up' = Up
    BY <1>7, <2>1, <2>2, UpSame
  <2> QED BY <1>0, <1>1, <1>3, <2>1, <2>2, <2>3, <2>4
     DEF ConsoleInv, SysrqInv, NewInv, AllInv, AllAuto, NoHandlers, BothHandlers, FoundNone
<1> QED BY <1>4, <1>5, <1>6

(* The three ways a hook ends.                                             *)
LEMMA HookEnds ==
    ASSUME ConsoleInv, UNCHANGED order, at \in 1..Len(order),
           \/ pc \in Starting /\ (Succeed \/ Fail)
           \/ pc \in Ending /\ Ended
    PROVE  /\ OrderInv' /\ PlaceInv'
           /\ Succeed => pc' = "start" /\ Up' = Up \cup {order[at]}
           /\ Fail /\ pc \in Starting => pc' = "end" /\ Up' = Up
           /\ pc \in Ending => pc' = "end" /\ Up' = Up \ {order[at]}
<1>0. OrderInv /\ PlaceInv
  BY DEF ConsoleInv
<1>1. OrderInv'
  BY <1>0 DEF OrderInv
<1>2. /\ pc' \in {"start", "end"}
      /\ pc' = "start" => at' \in 1..Len(order) + 1
      /\ pc' = "end" => at' \in 0..Len(order)
  BY <1>0 DEF Succeed, Fail, Ended, OrderInv
<1>3. PlaceInv'
  BY <1>2 DEF PlaceInv
<1>4. Succeed => pc \in Starting /\ pc' = "start"
  BY DEF Succeed, Ended
<1>5. pc \in Ending => Ended /\ pc \notin Starting
  OBVIOUS
<1> QED BY <1>0, <1>1, <1>3, <1>4, <1>5, UpSucceed, UpFail, UpEnded DEF Fail, Ended

LEMMA SysrqStep == ConsoleInv /\ (OpenSysrq \/ WriteSysrq \/ RestoreSysrq) => ConsoleInv'
<1> SUFFICES ASSUME ConsoleInv, OpenSysrq \/ WriteSysrq \/ RestoreSysrq PROVE ConsoleInv'
  OBVIOUS
<1>0. /\ OrderInv /\ PlaceInv /\ SysrqInv /\ NewInv /\ AllInv
      /\ pc \in {"open_sysrq", "write_sysrq", "restore_sysrq"}
  BY DEF ConsoleInv, OpenSysrq, WriteSysrq, RestoreSysrq
<1>1. UNCHANGED <<order, active, mode, usr1, usr2, vtm, sa_usr1, sa_usr2, console_switch_locked,
                  stuck, found, stdin, old_vtno>>
  BY DEF OpenSysrq, WriteSysrq, RestoreSysrq, kernel, usr, saved, sys, new
<1>2. at \in 1..Len(order) /\ order[at] = "nosysrq"
  BY <1>0 DEF PlaceInv
<1>3. "all" \notin Up
  BY <1>0, <1>2, UpNow
<1>4. ASSUME pc' \in {"start", "end", "write_sysrq"}, pc \in Ending => pc' = "end",
             "new" \in Up' <=> "new" \in Up, "all" \notin Up'
      PROVE  NewInv' /\ AllInv'
  BY <1>0, <1>1, <1>3, <1>4 DEF NewInv, AllInv, AllAuto, NoHandlers, BothHandlers, FoundNone
<1>5. CASE OpenSysrq /\ pc' = "write_sysrq"
  <2>1. pc = "open_sysrq" /\ at' = at /\ sysrq = "on" /\ UNCHANGED <<sysrq, value, sysrq_stuck>>
    BY <1>5 DEF OpenSysrq, Succeed, Fail, sys
  <2>2. Up' = Up
    BY <1>1, <1>5, <2>1, UpSame
  <2>3. OrderInv' /\ PlaceInv' /\ SysrqInv'
    BY <1>0, <1>1, <1>2, <1>5, <2>1, <2>2 DEF OrderInv, PlaceInv, SysrqInv
  <2> QED BY <1>3, <1>4, <1>5, <2>1, <2>2, <2>3 DEF ConsoleInv
<1>6. CASE (OpenSysrq /\ pc' # "write_sysrq") \/ WriteSysrq
  <2>1. pc \in {"open_sysrq", "write_sysrq"} /\ (Succeed \/ Fail)
    BY <1>6 DEF OpenSysrq, WriteSysrq
  <2>2. "nosysrq" \notin Up
    BY <1>0, <1>2, <2>1, UpNow
  <2>3. /\ OrderInv' /\ PlaceInv' /\ pc' \in {"start", "end"}
        /\ Up' = IF pc' = "start" THEN Up \cup {"nosysrq"} ELSE Up
    BY <1>1, <1>2, <2>1, HookEnds DEF Succeed, Fail
  <2>4. SysrqInv'
    <3>1. CASE OpenSysrq
      BY <1>0, <1>1, <2>2, <2>3, <3>1 DEF OpenSysrq, SysrqInv, sys
    <3>2. CASE WriteSysrq
      BY <1>0, <1>1, <2>2, <2>3, <3>2 DEF WriteSysrq, SysrqInv, Succeed, Fail
    <3> QED BY <1>6, <3>1, <3>2
  <2> QED BY <1>3, <1>4, <2>1, <2>3, <2>4 DEF ConsoleInv
<1>7. CASE RestoreSysrq
  <2>1. /\ pc = "restore_sysrq" /\ Ended /\ value' = value
        /\ \/ value = "none" /\ UNCHANGED <<sysrq, sysrq_stuck>>
           \/ value # "none" /\ sysrq' = value /\ UNCHANGED sysrq_stuck
           \/ value # "none" /\ sysrq_stuck' = TRUE /\ UNCHANGED sysrq
    BY <1>7 DEF RestoreSysrq
  <2>2. OrderInv' /\ PlaceInv' /\ pc' = "end" /\ Up' = Up \ {"nosysrq"}
    BY <1>1, <1>2, <2>1, HookEnds
  <2>3. SysrqInv'
    BY <1>0, <1>1, <2>1, <2>2 DEF SysrqInv
  <2> QED BY <1>3, <1>4, <2>1, <2>2, <2>3 DEF ConsoleInv
<1> QED BY <1>5, <1>6, <1>7

LEMMA NewStep ==
    /\ ConsoleInv
    /\ OpenQry \/ Activate \/ WaitActive \/ RestoreStdin \/ ActivateOld \/ WaitActiveOld
    => ConsoleInv'
<1> SUFFICES ASSUME ConsoleInv,
                    \/ OpenQry \/ Activate \/ WaitActive
                    \/ RestoreStdin \/ ActivateOld \/ WaitActiveOld
             PROVE  ConsoleInv'
  OBVIOUS
<1>0. /\ OrderInv /\ PlaceInv /\ SysrqInv /\ NewInv /\ AllInv
      /\ pc \in NewCalls
  BY DEF ConsoleInv, OpenQry, Activate, WaitActive, RestoreStdin, ActivateOld, WaitActiveOld
<1>1. UNCHANGED <<order, mode, usr1, usr2, vtm, sa_usr1, sa_usr2, console_switch_locked,
                  stuck, sysrq, value, found, sysrq_stuck>>
  BY DEF OpenQry, Activate, WaitActive, RestoreStdin, ActivateOld, WaitActiveOld,
         kernel, usr, saved, sys, new
<1>2. at \in 1..Len(order) /\ order[at] = "new"
  BY <1>0 DEF PlaceInv
<1>3. "all" \notin Up /\ (pc \in Starting => "new" \notin Up) /\ (pc \in Ending => "new" \in Up)
  BY <1>0, <1>2, UpNow
<1>4. ASSUME pc' \in NewCalls \cup {"start", "end"}, pc \in Ending => pc' \in Ending,
             "nosysrq" \in Up' <=> "nosysrq" \in Up, "all" \notin Up'
      PROVE  SysrqInv' /\ AllInv'
  BY <1>0, <1>1, <1>3, <1>4 DEF SysrqInv, AllInv, AllAuto, NoHandlers, BothHandlers, FoundNone
(* A call after which the hook goes on. *)
<1>5. ASSUME at' = at, pc' \in NewCalls, pc \in Starting <=> pc' \in Starting, NewInv'
      PROVE  ConsoleInv'
  <2>1. OrderInv' /\ PlaceInv'
    BY <1>0, <1>1, <1>2, <1>5 DEF OrderInv, PlaceInv
  <2>2. Up' = Up
    BY <1>1, <1>5, UpSame
  <2>3. SysrqInv' /\ AllInv'
    BY <1>3, <1>4, <1>5, <2>2
  <2> QED BY <1>5, <2>1, <2>3 DEF ConsoleInv
(* The hook ends. *)
<1>6. ASSUME \/ pc \in Starting /\ (Succeed \/ Fail)
             \/ pc \in Ending /\ Ended,
             stdin' \in Consoles, active' \in Consoles,
             Succeed => old_vtno' \in Consoles,
             Fail \/ Ended => stdin' = First
      PROVE  ConsoleInv'
  <2>1. /\ OrderInv' /\ PlaceInv' /\ pc' \in {"start", "end"}
        /\ Up' = IF pc \in Ending THEN Up \ {"new"}
                 ELSE IF pc' = "start" THEN Up \cup {"new"} ELSE Up
        /\ pc \in Ending => pc' = "end"
    BY <1>1, <1>2, <1>6, HookEnds DEF Succeed, Fail, Ended
  <2>2. NewInv'
    BY <1>3, <1>6, <2>1 DEF NewInv, Succeed, Fail, Ended
  <2>3. SysrqInv' /\ AllInv'
    BY <1>3, <1>4, <2>1
  <2> QED BY <2>1, <2>2, <2>3 DEF ConsoleInv
<1>7. CASE OpenQry
  <2>1. pc = "openqry" /\ UNCHANGED <<stdin, active>>
    BY <1>7 DEF OpenQry, kernel
  <2>2. stdin \in Consoles /\ active \in Consoles /\ stdin = First
    BY <1>0, <1>3, <2>1 DEF NewInv
  <2>3. CASE old_vtno' = active /\ pc' = "activate" /\ UNCHANGED at
    <3>1. NewInv'
      BY <2>1, <2>2, <2>3 DEF NewInv
    <3> QED BY <1>5, <2>1, <2>3, <3>1
  <2>4. CASE Fail
    BY <1>6, <2>1, <2>2, <2>4 DEF Fail, Succeed
  <2> QED BY <1>7, <2>3, <2>4 DEF OpenQry
<1>8. CASE Activate
  <2>1. pc = "activate" /\ UNCHANGED <<stdin, old_vtno>>
    BY <1>8 DEF Activate, new
  <2>2. stdin \in Consoles /\ active \in Consoles /\ stdin = First /\ old_vtno \in Consoles
    BY <1>0, <1>3, <2>1 DEF NewInv
  <2>3. CASE Ask(Free, "waitactive") /\ UNCHANGED at
    <3>1. pc' = "waitactive" /\ active' \in Consoles
      BY <1>0, <2>3, AskSafe
    <3>2. NewInv'
      BY <2>1, <2>2, <3>1 DEF NewInv
    <3> QED BY <1>5, <2>1, <2>3, <3>1, <3>2
  <2>4. CASE Fail /\ UNCHANGED active
    BY <1>6, <2>1, <2>2, <2>4 DEF Fail, Succeed
  <2> QED BY <1>8, <2>3, <2>4 DEF Activate
<1>9. CASE WaitActive
  <2>1. pc = "waitactive" /\ UNCHANGED <<old_vtno, active>>
    BY <1>9 DEF WaitActive, kernel
  <2>2. stdin \in Consoles /\ active \in Consoles /\ stdin = First /\ old_vtno \in Consoles
    BY <1>0, <1>3, <2>1 DEF NewInv
  <2>3. CASE stdin' = Free /\ Succeed
    BY <1>6, <2>1, <2>2, <2>3 DEF Succeed, Fail, Ended
  <2>4. CASE Fail /\ UNCHANGED stdin
    BY <1>6, <2>1, <2>2, <2>4 DEF Fail, Succeed
  <2> QED BY <1>9, <2>3, <2>4 DEF WaitActive
<1>10. CASE RestoreStdin
  <2>1. pc = "restore_stdin" /\ pc' = "activate_old" /\ stdin' = First
        /\ UNCHANGED <<at, active, old_vtno>>
    BY <1>10 DEF RestoreStdin, kernel
  <2>2. NewInv'
    BY <1>0, <1>3, <2>1 DEF NewInv
  <2> QED BY <1>5, <2>1, <2>2
<1>11. CASE ActivateOld
  <2>1. pc = "activate_old" /\ UNCHANGED <<stdin, old_vtno>>
    BY <1>11 DEF ActivateOld, new
  <2>2. stdin \in Consoles /\ active \in Consoles /\ stdin = First /\ old_vtno \in Consoles
    BY <1>0, <1>3, <2>1 DEF NewInv
  <2>3. CASE Ask(old_vtno, "waitactive_old") /\ UNCHANGED at
    <3>1. pc' = "waitactive_old" /\ active' \in Consoles
      BY <1>0, <2>2, <2>3, AskSafe
    <3>2. NewInv'
      BY <2>1, <2>2, <3>1 DEF NewInv
    <3> QED BY <1>5, <2>1, <2>3, <3>1, <3>2
  <2>4. CASE Ended /\ UNCHANGED active
    BY <1>6, <2>1, <2>2, <2>4
  <2> QED BY <1>11, <2>3, <2>4 DEF ActivateOld
<1>12. CASE WaitActiveOld
  <2>1. pc = "waitactive_old" /\ Ended /\ UNCHANGED <<stdin, old_vtno, active>>
    BY <1>12 DEF WaitActiveOld, kernel, new
  <2>2. stdin \in Consoles /\ active \in Consoles /\ stdin = First /\ old_vtno \in Consoles
    BY <1>0, <1>3, <2>1 DEF NewInv
  <2> QED BY <1>6, <2>1, <2>2
<1> QED BY <1>7, <1>8, <1>9, <1>10, <1>11, <1>12

LEMMA AllStep ==
    /\ ConsoleInv
    /\ GetMode \/ SetUsr1 \/ SetUsr2 \/ SetMode \/ UnsetMode \/ ResetUsr1 \/ ResetUsr2
    => ConsoleInv'
<1> SUFFICES ASSUME ConsoleInv,
                    \/ GetMode \/ SetUsr1 \/ SetUsr2 \/ SetMode
                    \/ UnsetMode \/ ResetUsr1 \/ ResetUsr2
             PROVE  ConsoleInv'
  OBVIOUS
<1>0. /\ OrderInv /\ PlaceInv /\ SysrqInv /\ NewInv /\ AllInv
      /\ pc \in AllCalls
  BY DEF ConsoleInv, GetMode, SetUsr1, SetUsr2, SetMode, UnsetMode, ResetUsr1, ResetUsr2
<1>1. UNCHANGED <<order, active, sysrq, value, found, sysrq_stuck, stdin, old_vtno>>
  BY DEF GetMode, SetUsr1, SetUsr2, SetMode, UnsetMode, ResetUsr1, ResetUsr2, kernel, sys, new
<1>2. at \in 1..Len(order) /\ order[at] = "all"
  BY <1>0 DEF PlaceInv
<1>3. (pc \in Starting => "all" \notin Up) /\ (pc \in Ending => "all" \in Up)
  BY <1>0, <1>2, UpNow
<1>4. ASSUME pc' \in AllCalls \cup {"start", "end"}, pc \notin Starting => pc' \notin Starting,
             \A p \in {"new", "nosysrq"} : p \in Up' <=> p \in Up
      PROVE  SysrqInv' /\ NewInv'
  BY <1>0, <1>1, <1>4 DEF SysrqInv, NewInv
<1>5. ASSUME at' = at, pc' \in AllCalls, pc \in Starting <=> pc' \in Starting
      PROVE  OrderInv' /\ PlaceInv' /\ SysrqInv' /\ NewInv' /\ Up' = Up
  <2>1. OrderInv' /\ PlaceInv'
    BY <1>0, <1>1, <1>2, <1>5 DEF OrderInv, PlaceInv
  <2>2. Up' = Up
    BY <1>1, <1>5, UpSame
  <2> QED BY <1>4, <1>5, <2>1, <2>2
<1>6. ASSUME \/ pc \in Starting /\ (Succeed \/ Fail)
             \/ pc \in Ending /\ Ended
      PROVE  /\ OrderInv' /\ PlaceInv' /\ SysrqInv' /\ NewInv'
             /\ "all" \in Up' <=> pc' = "start"
             /\ pc' \in {"start", "end"}
  <2>1. /\ OrderInv' /\ PlaceInv' /\ pc' \in {"start", "end"}
        /\ Up' = IF pc \in Ending THEN Up \ {"all"}
                 ELSE IF pc' = "start" THEN Up \cup {"all"} ELSE Up
        /\ pc \in Ending => pc' = "end"
    BY <1>1, <1>2, <1>6, HookEnds DEF Succeed, Fail, Ended
  <2>2. SysrqInv' /\ NewInv'
    <3>1. pc \notin Starting => pc' \notin Starting
      BY <1>6, <2>1
    <3> QED BY <1>4, <2>1, <3>1
  <2>3. "all" \in Up' <=> pc' = "start"
    BY <1>3, <1>6, <2>1
  <2> QED BY <2>1, <2>2, <2>3
<1>7. mode \in [Consoles -> {"auto", "process"}] /\ stuck \in BOOLEAN /\ stdin \in Consoles
  BY <1>0 DEF AllInv, NewInv
<1> USE DEF AllAuto, NoHandlers, BothHandlers, FoundNone
<1>8. CASE GetMode
  <2>1. pc = "getmode" /\ UNCHANGED <<mode, usr1, usr2, stuck>> /\ "all" \notin Up /\ ~stuck
        /\ NoHandlers /\ AllAuto
    BY <1>0, <1>3, <1>8 DEF GetMode, kernel, usr, AllInv
  <2>2. CASE vtm' = mode[stdin] /\ pc' = "set_usr1" /\ UNCHANGED at
    <3>1. vtm' = "auto"
      BY <1>7, <2>1, <2>2
    <3> QED BY <1>5, <1>7, <2>1, <2>2, <3>1 DEF AllInv, ConsoleInv
  <2>3. CASE Fail
    BY <1>6, <1>7, <2>1, <2>3 DEF AllInv, ConsoleInv, Fail
  <2> QED BY <1>8, <2>2, <2>3 DEF GetMode
<1>9. CASE SetUsr1
  <2>1. /\ pc = "set_usr1" /\ pc' = "set_usr2" /\ usr1' = "handler" /\ sa_usr1' = usr1
        /\ UNCHANGED <<at, mode, usr2, vtm, stuck>>
        /\ "all" \notin Up /\ ~stuck /\ NoHandlers /\ AllAuto /\ vtm = "auto"
    BY <1>0, <1>3, <1>9 DEF SetUsr1, kernel, AllInv
  <2> QED BY <1>5, <1>7, <2>1 DEF AllInv, ConsoleInv
<1>10. CASE SetUsr2
  <2>1. /\ pc = "set_usr2" /\ pc' = "setmode" /\ usr2' = "handler" /\ sa_usr2' = usr2
        /\ UNCHANGED <<at, mode, usr1, vtm, sa_usr1, stuck>>
        /\ "all" \notin Up /\ ~stuck /\ AllAuto /\ vtm = "auto" /\ sa_usr1 = "default"
        /\ usr1 = "handler" /\ usr2 = "default"
    BY <1>0, <1>3, <1>10 DEF SetUsr2, kernel, AllInv
  <2> QED BY <1>5, <1>7, <2>1 DEF AllInv, ConsoleInv
<1>11. CASE SetMode
  <2>1. /\ pc = "setmode" /\ UNCHANGED <<vtm, sa_usr1, sa_usr2, stuck>>
        /\ "all" \notin Up /\ ~stuck /\ AllAuto /\ BothHandlers /\ FoundNone
    BY <1>0, <1>3, <1>11 DEF SetMode, AllInv
  <2>2. CASE mode' = [mode EXCEPT ![stdin] = "process"] /\ Succeed /\ UNCHANGED usr
    <3>1. /\ mode' \in [Consoles -> {"auto", "process"}]
          /\ \A c \in Consoles \ {stdin} : mode'[c] = "auto"
      BY <1>7, <2>1, <2>2
    <3>2. UNCHANGED <<usr1, usr2, stdin>> /\ pc' = "start"
      BY <1>1, <2>2 DEF usr, Succeed
    <3> QED BY <1>6, <1>7, <2>1, <2>2, <3>1, <3>2 DEF AllInv, ConsoleInv
  <2>3. CASE usr1' = sa_usr1 /\ usr2' = sa_usr2 /\ Fail /\ UNCHANGED mode
    BY <1>6, <1>7, <2>1, <2>3 DEF AllInv, ConsoleInv, Fail
  <2> QED BY <1>11, <2>2, <2>3 DEF SetMode
<1>12. CASE UnsetMode
  <2>1. /\ pc = "unsetmode" /\ UNCHANGED <<usr1, usr2, vtm, sa_usr1, sa_usr2>>
        /\ "all" \in Up /\ ~stuck /\ BothHandlers /\ FoundNone
        /\ \A c \in Consoles \ {stdin} : mode[c] = "auto"
    BY <1>0, <1>3, <1>12 DEF UnsetMode, usr, AllInv
  <2>2. CASE mode' = [mode EXCEPT ![stdin] = vtm] /\ pc' = "reset_usr1" /\ UNCHANGED <<at, stuck>>
    <3>1. mode' \in [Consoles -> {"auto", "process"}] /\ \A c \in Consoles : mode'[c] = "auto"
      BY <1>7, <2>1, <2>2
    <3> QED BY <1>5, <1>7, <2>1, <2>2, <3>1 DEF AllInv, ConsoleInv
  <2>3. CASE stuck' = TRUE /\ Ended /\ UNCHANGED mode
    BY <1>6, <1>7, <2>1, <2>3 DEF AllInv, ConsoleInv, Ended
  <2> QED BY <1>12, <2>2, <2>3 DEF UnsetMode
<1>13. CASE ResetUsr1
  <2>1. /\ pc = "reset_usr1" /\ pc' = "reset_usr2" /\ usr1' = sa_usr1
        /\ UNCHANGED <<at, mode, usr2, vtm, sa_usr1, sa_usr2, stuck>>
        /\ "all" \in Up /\ ~stuck /\ BothHandlers /\ FoundNone /\ AllAuto
    BY <1>0, <1>3, <1>13 DEF ResetUsr1, kernel, saved, AllInv
  <2> QED BY <1>5, <1>7, <2>1 DEF AllInv, ConsoleInv
<1>14. CASE ResetUsr2
  <2>1. /\ pc = "reset_usr2" /\ usr2' = sa_usr2 /\ Ended
        /\ UNCHANGED <<mode, usr1, vtm, sa_usr1, sa_usr2, stuck>>
        /\ "all" \in Up /\ ~stuck /\ FoundNone /\ AllAuto /\ usr1 = "default"
    BY <1>0, <1>3, <1>14 DEF ResetUsr2, kernel, saved, AllInv
  <2> QED BY <1>6, <1>7, <2>1 DEF AllInv, ConsoleInv, Ended
<1> QED BY <1>8, <1>9, <1>10, <1>11, <1>12, <1>13, <1>14

LEMMA NextInv == ConsoleInv /\ [Next]_vars => ConsoleInv'
<1> SUFFICES ASSUME ConsoleInv, [Next]_vars PROVE ConsoleInv'
  OBVIOUS
<1>1. CASE UNCHANGED vars
  <2>1. UNCHANGED <<order, pc, at, active, mode, usr1, usr2, vtm, sa_usr1, sa_usr2,
                    console_switch_locked, stuck, sysrq, value, found, sysrq_stuck, stdin, old_vtno>>
    BY <1>1 DEF vars, kernel, usr, saved, sys, new
  <2>2. Up' = Up
    BY <2>1, UpSame
  <2> QED BY <2>1, <2>2
     DEF ConsoleInv, OrderInv, PlaceInv, SysrqInv, NewInv, AllInv, AllAuto, NoHandlers,
         BothHandlers, FoundNone
<1> QED BY <1>1, UserStep, ControlStep, SysrqStep, NewStep, AllStep DEF Next

LEMMA Invariance == Spec => []ConsoleInv
BY InitInv, NextInv, PTL DEF Spec

-----------------------------------------------------------------------------
(* The theorems                                                            *)

(* The kernel's questions never kill vlock: no console is under its        *)
(* control in a moment when one of the two signals has no handler.         *)
THEOREM SwitchingNeverKills == Spec => []SurvivesSwitching
<1>1. ConsoleInv => SurvivesSwitching
  BY DEF ConsoleInv, PlaceInv, SurvivesSwitching
<1> QED BY <1>1, Invariance, PTL

(* Nobody, vlock included, makes another console the active one while      *)
(* vlock governs the active one.                                           *)
THEOREM GovernedConsoleStays == Spec => HeldWhenGoverned
<1>1. ASSUME [Next]_vars, mode[active] = "process" PROVE active' = active
  <2>1. ASSUME NEW c, NEW proceed, Ask(c, proceed) PROVE active' = active
    BY <1>1, <2>1 DEF Ask, release_vt
  <2> QED BY <1>1, <2>1
     DEF Next, vars, kernel, UserSwitches, NextStart, Unlock, NextEnd, OpenSysrq, WriteSysrq,
         RestoreSysrq, OpenQry, Activate, WaitActive, RestoreStdin, ActivateOld, WaitActiveOld,
         GetMode, SetUsr1, SetUsr2, SetMode, UnsetMode, ResetUsr1, ResetUsr2
<1>2. [Next]_vars => [mode[active] = "process" => active' = active]_active
  BY <1>1
<1> QED BY <1>2, PTL DEF Spec, HeldWhenGoverned

(* Where vlock waits for a console to become active, it is not vlock that  *)
(* holds the active one.                                                   *)
THEOREM WaitsForNobody == Spec => []NotSelfBlocked
<1>1. ConsoleInv => NotSelfBlocked
  <2> SUFFICES ASSUME ConsoleInv, pc \in {"waitactive", "waitactive_old"},
                      pc = "waitactive_old" => ~stuck
               PROVE  mode[active] = "auto"
    BY DEF NotSelfBlocked
  <2>1. at \in 1..Len(order) /\ order[at] = "new"
    BY DEF ConsoleInv, PlaceInv
  <2>2. "all" \notin Up
    BY <2>1, UpNow DEF ConsoleInv
  <2>3. ~stuck
    BY DEF ConsoleInv, AllInv
  <2> QED BY <2>2, <2>3 DEF ConsoleInv, AllInv, AllAuto, NewInv
<1> QED BY <1>1, Invariance, PTL

(* Whatever fails, and whenever the user switches, vlock leaves the        *)
(* terminal, the consoles, the handlers and SysRq as it found them, unless *)
(* the kernel refuses to take the console back, or SysRq's old value.      *)
THEOREM ConsoleGivenBack == Spec => []EverythingBack
<1>1. ConsoleInv => EverythingBack
  <2> SUFFICES ASSUME ConsoleInv, pc = "exit" PROVE EverythingBack
    BY DEF EverythingBack
  <2>1. Up = {}
    BY DEF ConsoleInv, PlaceInv, Up
  <2> QED BY <2>1
     DEF ConsoleInv, SysrqInv, NewInv, AllInv, NoHandlers, AllAuto, EverythingBack
<1> QED BY <1>1, Invariance, PTL

=============================================================================
