------------------------------ MODULE Console ------------------------------
(***************************************************************************)
(* The plugins that take hold of the console: "all" (modules/all.c with    *)
(* console_switch.c) stops console switching, "new" (modules/new.c) moves  *)
(* to a free console first, "nosysrq" (modules/nosysrq.c) turns SysRq off. *)
(* Their vlock_start and vlock_end hooks are modelled system call by       *)
(* system call, in the order Dependencies and Session call them; the user  *)
(* asks for another console at any moment, and the kernel answers by the   *)
(* mode of the active one: it switches, or asks vlock with a signal.       *)
(***************************************************************************)
EXTENDS Integers, SequencesExt

CONSTANTS
    Consoles,       \* the virtual consoles
    First, Free     \* where vlock is started, and one that nobody uses

ASSUME ConsolesAssumption == {First, Free} \subseteq Consoles /\ First # Free

VARIABLES
    order,                      \* the plugins as they are sorted
    pc, at,                     \* the next system call; the plugin it is for
    active, mode,               \* the active console, "auto" or "process"
    stdin,                      \* the console of vlock's standard input
    usr1, usr2,                 \* "default" or the handler of console_switch.c
    vtm, sa_usr1, sa_usr2,      \* what lock_console_switch() found
    console_switch_locked,
    old_vtno,                   \* of new's context, 0 if there is none
    sysrq, value,               \* SysRq is "on" or "off"; nosysrq's context
    found,                      \* how SysRq was found
    sysrq_stuck,                \* its old value could not be written back
    stuck                       \* switching could not be enabled again

kernel == <<active, mode>>
usr == <<usr1, usr2>>
saved == <<vtm, sa_usr1, sa_usr2, console_switch_locked, stuck>>
sys == <<sysrq, value, found, sysrq_stuck>>
new == <<stdin, old_vtno>>
vars == <<order, pc, at, kernel, usr, saved, sys, new>>

Plugins == {"all", "new", "nosysrq"}

(* The declarations of the three plugins.                                   *)
preceeds == [all |-> {}, new |-> {"all"}, nosysrq |-> {"new", "all"}]
needs == [all |-> {}, new |-> {"all"}, nosysrq |-> {"all"}]

(* Mutant: new does not say that it comes before all. *)
Orders_Unsorted ==
    UNION {SetToSeqs(S) : S \in {T \in SUBSET Plugins : T # {} /\ \A p \in T : needs[p] \subseteq T}}

Orders ==
    {o \in UNION {SetToSeqs(S) : S \in {T \in SUBSET Plugins : T # {} /\ \A p \in T : needs[p] \subseteq T}} :
        \A i, j \in DOMAIN o : o[j] \in preceeds[o[i]] => i < j}

TypeOK == /\ order \in Orders /\ at \in 0..4
          /\ active \in Consoles
          /\ mode \in [Consoles -> {"auto", "process"}]
          /\ {usr1, usr2, sa_usr1, sa_usr2} \subseteq {"default", "handler"}
          /\ vtm \in {"auto", "process"}
          /\ {console_switch_locked, stuck, sysrq_stuck} \subseteq BOOLEAN
          /\ stdin \in Consoles /\ old_vtno \in Consoles \union {0}
          /\ {sysrq, found} \subseteq {"on", "off"}
          /\ value \in {"none", "on"}

Init == /\ order \in Orders
        /\ pc = "start" /\ at = 1
        /\ active \in Consoles \ {Free}
        /\ mode = [c \in Consoles |-> "auto"]
        /\ stdin = First /\ old_vtno = 0
        /\ usr1 = "default" /\ usr2 = "default"
        /\ vtm = "auto" /\ sa_usr1 = "default" /\ sa_usr2 = "default"
        /\ console_switch_locked = FALSE /\ stuck = FALSE
        /\ sysrq \in {"on", "off"} /\ found = sysrq /\ value = "none"
        /\ sysrq_stuck = FALSE

-----------------------------------------------------------------------------
(* The kernel is asked to make console c the active one.  A console in      *)
(* process mode is left only if its process agrees: release_vt() refuses.   *)
(* On arriving at one acquire_vt() is told.  Without the handlers the       *)
(* signals kill.  "go on" is where vlock proceeds, itself unless it asks.   *)

(* Mutant: the handler lets the user go. *)
release_vt_Allows(c) == active' = c

release_vt(c) == UNCHANGED active

Ask(c, proceed) ==
    IF mode[active] = "auto"
    THEN /\ active' = c
         /\ pc' = IF mode[c] = "process" /\ c # active /\ usr2 = "default" THEN "killed" ELSE proceed
    ELSE IF usr1 = "handler"
         THEN release_vt(c) /\ pc' = proceed
         ELSE pc' = "killed" /\ UNCHANGED active

UserSwitches == /\ pc \notin {"exit", "killed"}
                /\ \E c \in Consoles \ {active} : Ask(c, pc)
                /\ UNCHANGED <<order, at, mode, usr, saved, sys, new>>

-----------------------------------------------------------------------------
(* Which plugin is next.  A hook that fails is followed by the vlock_end    *)
(* hooks of the plugins started before; so is the password.                 *)
Succeed == at' = at + 1 /\ pc' = "start"
Fail == at' = at - 1 /\ pc' = "end"
Ended == at' = at - 1 /\ pc' = "end"

FirstCall == [nosysrq |-> "open_sysrq", new |-> "openqry", all |-> "getmode"]
FirstEndCall == [nosysrq |-> "restore_sysrq", new |-> "restore_stdin", all |-> "unsetmode"]

NextStart == /\ pc = "start"
             /\ pc' = IF at > Len(order) THEN "locked" ELSE FirstCall[order[at]]
             /\ UNCHANGED <<order, at, kernel, usr, saved, sys, new>>

Unlock == /\ pc = "locked"
          /\ at' = Len(order)
          /\ pc' = "end"
          /\ UNCHANGED <<order, kernel, usr, saved, sys, new>>

NextEnd == /\ pc = "end"
           /\ pc' = IF at = 0 THEN "exit" ELSE FirstEndCall[order[at]]
           /\ UNCHANGED <<order, at, kernel, usr, saved, sys, new>>

-----------------------------------------------------------------------------
(* nosysrq: nothing to do if SysRq is off or cannot be switched.            *)
OpenSysrq == /\ pc = "open_sysrq"
             /\ \/ sysrq = "on" /\ pc' = "write_sysrq" /\ UNCHANGED at
                \/ Succeed
                \/ Fail
             /\ UNCHANGED <<order, kernel, usr, saved, sys, new>>

WriteSysrq == /\ pc = "write_sysrq"
              /\ \/ sysrq' = "off" /\ value' = "on" /\ Succeed
                 \/ Fail /\ UNCHANGED <<sysrq, value>>
              /\ UNCHANGED <<order, kernel, usr, saved, found, sysrq_stuck, new>>

(* That the old value cannot be written back is reported and no more.       *)
RestoreSysrq == /\ pc = "restore_sysrq"
                /\ \/ value = "none" /\ UNCHANGED <<sysrq, sysrq_stuck>>
                   \/ value # "none" /\ sysrq' = value /\ UNCHANGED sysrq_stuck
                   \/ value # "none" /\ sysrq_stuck' = TRUE /\ UNCHANGED sysrq
                /\ Ended
                /\ UNCHANGED <<order, kernel, usr, saved, value, found, new>>

-----------------------------------------------------------------------------
(* new.  Asking for a console and waiting for it may also fail; at the end  *)
(* that is reported and no more.                                            *)

OpenQry == /\ pc = "openqry"
           /\ \/ old_vtno' = active /\ pc' = "activate" /\ UNCHANGED at
              \/ Fail /\ UNCHANGED old_vtno
           /\ UNCHANGED <<order, kernel, usr, saved, sys, stdin>>

Activate == /\ pc = "activate"
            /\ \/ Ask(Free, "waitactive") /\ UNCHANGED at
               \/ Fail /\ UNCHANGED active
            /\ UNCHANGED <<order, mode, usr, saved, sys, new>>

WaitActive == /\ pc = "waitactive"
              /\ \/ active = Free /\ stdin' = Free /\ Succeed
                 \/ Fail /\ UNCHANGED stdin
              /\ UNCHANGED <<order, kernel, usr, saved, sys, old_vtno>>

RestoreStdin == /\ pc = "restore_stdin"
                /\ stdin' = First
                /\ pc' = "activate_old"
                /\ UNCHANGED <<order, at, kernel, usr, saved, sys, old_vtno>>

ActivateOld == /\ pc = "activate_old"
               /\ \/ Ask(old_vtno, "waitactive_old") /\ UNCHANGED at
                  \/ Ended /\ UNCHANGED active
               /\ UNCHANGED <<order, mode, usr, saved, sys, new>>

(* It waits until the old console is active, or fails before it is.         *)
WaitActiveOld == /\ pc = "waitactive_old"
                 /\ Ended
                 /\ UNCHANGED <<order, kernel, usr, saved, sys, new>>

-----------------------------------------------------------------------------
(* all: lock_console_switch() and unlock_console_switch().                  *)

(* The terminal may be no console.                                          *)
GetMode == /\ pc = "getmode"
           /\ \/ vtm' = mode[stdin] /\ pc' = "set_usr1" /\ UNCHANGED at
              \/ Fail /\ UNCHANGED vtm
           /\ UNCHANGED <<order, kernel, usr, sa_usr1, sa_usr2, console_switch_locked, stuck, sys, new>>

(* Mutant: the console is taken over before the handlers are in place. *)
SetUsr1_TooLate == /\ pc = "set_usr1"
                   /\ sa_usr1' = usr1
                   /\ mode' = [mode EXCEPT ![stdin] = "process"]
                   /\ pc' = "set_usr2"
                   /\ UNCHANGED <<order, at, active, usr, vtm, sa_usr2, console_switch_locked, stuck, sys, new>>

SetUsr1 == /\ pc = "set_usr1"
           /\ sa_usr1' = usr1
           /\ usr1' = "handler"
           /\ pc' = "set_usr2"
           /\ UNCHANGED <<order, at, kernel, usr2, vtm, sa_usr2, console_switch_locked, stuck, sys, new>>

SetUsr2 == /\ pc = "set_usr2"
           /\ sa_usr2' = usr2
           /\ usr2' = "handler"
           /\ pc' = "setmode"
           /\ UNCHANGED <<order, at, kernel, usr1, vtm, sa_usr1, console_switch_locked, stuck, sys, new>>

(* Mutant: the handlers stay when the console could not be taken over. *)
SetMode_KeepHandlers ==
    /\ pc = "setmode"
    /\ \/ /\ mode' = [mode EXCEPT ![stdin] = "process"]
          /\ console_switch_locked' = TRUE
          /\ Succeed
          /\ UNCHANGED usr
       \/ Fail /\ UNCHANGED <<mode, console_switch_locked, usr>>
    /\ UNCHANGED <<order, active, vtm, sa_usr1, sa_usr2, stuck, sys, new>>

SetMode == /\ pc = "setmode"
           /\ \/ /\ mode' = [mode EXCEPT ![stdin] = "process"]
                 /\ console_switch_locked' = TRUE
                 /\ Succeed
                 /\ UNCHANGED usr
              \/ /\ usr1' = sa_usr1 /\ usr2' = sa_usr2
                 /\ Fail
                 /\ UNCHANGED <<mode, console_switch_locked>>
           /\ UNCHANGED <<order, active, vtm, sa_usr1, sa_usr2, stuck, sys, new>>

(* Giving the console back comes first, then the handlers go.               *)
UnsetMode == /\ pc = "unsetmode"
             /\ \/ mode' = [mode EXCEPT ![stdin] = vtm] /\ pc' = "reset_usr1" /\ UNCHANGED <<at, stuck>>
                \/ stuck' = TRUE /\ Ended /\ UNCHANGED mode
             /\ UNCHANGED <<order, active, usr, vtm, sa_usr1, sa_usr2, console_switch_locked, sys, new>>

ResetUsr1 == /\ pc = "reset_usr1"
             /\ usr1' = sa_usr1
             /\ pc' = "reset_usr2"
             /\ UNCHANGED <<order, at, kernel, usr2, saved, sys, new>>

ResetUsr2 == /\ pc = "reset_usr2"
             /\ usr2' = sa_usr2
             /\ Ended
             /\ UNCHANGED <<order, kernel, usr1, saved, sys, new>>

Next == \/ UserSwitches
        \/ NextStart \/ Unlock \/ NextEnd
        \/ OpenSysrq \/ WriteSysrq \/ RestoreSysrq
        \/ OpenQry \/ Activate \/ WaitActive \/ RestoreStdin \/ ActivateOld \/ WaitActiveOld
        \/ GetMode \/ SetUsr1 \/ SetUsr2 \/ SetMode \/ UnsetMode \/ ResetUsr1 \/ ResetUsr2

Spec == Init /\ [][Next]_vars

-----------------------------------------------------------------------------
(* The signals by which the kernel asks vlock about a switch never kill it, *)
(* whenever the user asks for one.                                          *)
SurvivesSwitching == pc # "killed"

(* While vlock governs the active console, it stays the active one, whether *)
(* the user or vlock itself asks for another.                               *)
HeldWhenGoverned == [][mode[active] = "process" => active' = active]_active

(* vlock never waits for a console to become active while it is itself what *)
(* keeps the active one: new moves before all takes hold, and goes back     *)
(* after all has let go.                                                    *)
NotSelfBlocked ==
    /\ pc = "waitactive" /\ active # Free => mode[active] = "auto"
    /\ pc = "waitactive_old" /\ active # old_vtno /\ ~stuck => mode[active] = "auto"

(* In the end, also after a hook that failed, the consoles, the signals and *)
(* SysRq are as vlock found them, unless the kernel refused the very call   *)
(* that gives the console back, or the one that turns SysRq on again.       *)
EverythingBack ==
    pc = "exit" => /\ stdin = First
                   /\ ~sysrq_stuck => sysrq = found
                   /\ ~stuck => /\ \A c \in Consoles : mode[c] = "auto"
                                /\ usr1 = "default" /\ usr2 = "default"
=============================================================================
