---------------------------- MODULE ProcessDeath ----------------------------
(***************************************************************************)
(* wait_for_death() and ensure_death() of process.c: waiting for a child   *)
(* with a timeout made of SIGALRM and the interval timer, and killing it.  *)
(* Between any two system calls of vlock the child may run, stop or exit   *)
(* and the timer may expire.                                               *)
(***************************************************************************)
EXTENDS Naturals

CONSTANTS
    Calls,          \* the ways these functions are called, see AllCalls
    CallerTimers,   \* the caller's timer: "off" or "caller" (running)
    CallerActions   \* its action for SIGALRM: "default" or "handler"

(* "ensure_death": what the screen savers do with their child.             *)
(* "script": wait_for_death(), then ensure_death(), as script.c does.      *)
(* "wait" and "wait_zero": wait_for_death() alone, as the tests call it,   *)
(* with some and with no time to wait.                                     *)
AllCalls == {"ensure_death", "script", "wait", "wait_zero"}

VARIABLES
    call,           \* which of Calls this is
    pc,             \* the next system call, or "blocked" inside waitpid()
    waits,          \* wait_for_death() runs on behalf of "script", "wait", ...
    died,           \* what wait_for_death() is about to return
    child,          \* "running", "stopped", "zombie" or "reaped"
    obeys,          \* the child dies of SIGTERM
    signals,        \* the deadly signals sent to the child
    timer,          \* "off", "own" or "caller"
    otimer,         \* the caller's timer while wait_for_death() uses its own
    action,         \* what SIGALRM does: "default", "handler", "ignore_sigalarm"
    oldact,         \* the caller's action
    rang,           \* the caller's alarm: "no", "handled", "swallowed", "fatal"
    missed          \* the own timer expired before waitpid() was entered

alarm == <<timer, otimer, action, oldact, rang, missed>>
target == <<child, obeys, signals>>
vars == <<call, pc, waits, died, target, alarm>>

PCs == {"check", "sigterm", "sigaction", "setitimer", "waitpid", "blocked",
        "reset_timer", "reset_action", "sigkill", "sigcont", "reap", "done", "killed"}

TypeOK == /\ call \in Calls
          /\ pc \in PCs
          /\ waits \in AllCalls
          /\ died \in BOOLEAN
          /\ child \in {"running", "stopped", "zombie", "reaped"}
          /\ obeys \in BOOLEAN
          /\ signals \subseteq {"SIGTERM", "SIGKILL"}
          /\ timer \in {"off", "own", "caller"}
          /\ otimer \in {"off", "caller"}
          /\ action \in {"default", "handler", "ignore_sigalarm"}
          /\ oldact \in {"default", "handler"}
          /\ rang \in {"no", "handled", "swallowed", "fatal"}
          /\ missed \in BOOLEAN

(* ensure_death() may also be given the pid of a child that was waited for. *)
Init == /\ call \in Calls
        /\ pc = IF call = "ensure_death" THEN "check" ELSE "sigaction"
        /\ waits = call
        /\ died = FALSE
        /\ child \in {"running", "stopped", "zombie"}
                        \union (IF call = "ensure_death" THEN {"reaped"} ELSE {})
        /\ obeys \in BOOLEAN
        /\ signals = {}
        /\ timer \in CallerTimers
        /\ otimer = "off"
        /\ oldact \in CallerActions
        /\ action = oldact
        /\ rang = "no"
        /\ missed = FALSE

-----------------------------------------------------------------------------
(* ensure_death() *)

(* waitpid(WNOHANG): a zombie is reaped, an unknown pid is an error; either *)
(* way there is nothing to kill.                                            *)
(* Mutant: a child found dead is killed all the same. *)
Check_IgnoreDead == /\ pc = "check"
                    /\ child' = IF child = "zombie" THEN "reaped" ELSE child
                    /\ pc' = "sigterm"
                    /\ UNCHANGED <<call, waits, died, obeys, signals, alarm>>

Check == /\ pc = "check"
         /\ \/ /\ child \in {"zombie", "reaped"}
               /\ child' = "reaped"
               /\ pc' = "done"
            \/ /\ child \in {"running", "stopped"}
               /\ pc' = "sigterm"
               /\ UNCHANGED child
         /\ UNCHANGED <<call, waits, died, obeys, signals, alarm>>

SigTerm == /\ pc = "sigterm"
           /\ signals' = signals \union {"SIGTERM"}
           /\ waits' = "ensure_death"
           /\ pc' = "sigaction"
           /\ UNCHANGED <<call, died, child, obeys, alarm>>

SigKill == /\ pc = "sigkill"
           /\ signals' = signals \union {"SIGKILL"}
           /\ pc' = "sigcont"
           /\ UNCHANGED <<call, waits, died, child, obeys, alarm>>

SigCont == /\ pc = "sigcont"
           /\ child' = IF child = "stopped" THEN "running" ELSE child
           /\ pc' = "reap"
           /\ UNCHANGED <<call, waits, died, obeys, signals, alarm>>

(* The last waitpid(), without a timeout. *)
Reap == /\ pc = "reap"
        /\ child = "zombie"
        /\ child' = "reaped"
        /\ pc' = "done"
        /\ UNCHANGED <<call, waits, died, obeys, signals, alarm>>

-----------------------------------------------------------------------------
(* wait_for_death() *)

SigAction == /\ pc = "sigaction"
             /\ oldact' = action
             /\ action' = "ignore_sigalarm"
             /\ pc' = "setitimer"
             /\ UNCHANGED <<call, waits, died, target, timer, otimer, rang, missed>>

(* A timer set to no time at all is a timer switched off. *)
SetITimer == /\ pc = "setitimer"
             /\ otimer' = timer
             /\ timer' = IF waits = "wait_zero" THEN "off" ELSE "own"
             /\ missed' = FALSE
             /\ pc' = "waitpid"
             /\ UNCHANGED <<call, waits, died, target, action, oldact, rang>>

(* waitpid() finds a zombie or blocks. *)
WaitPid == /\ pc = "waitpid"
           /\ child # "zombie"
           /\ pc' = "blocked"
           /\ UNCHANGED <<call, waits, died, target, alarm>>

Died == /\ pc \in {"waitpid", "blocked"}
        /\ child = "zombie"
        /\ child' = "reaped"
        /\ died' = TRUE
        /\ pc' = "reset_timer"
        /\ UNCHANGED <<call, waits, obeys, signals, alarm>>

(* Mutant: the action is reset before the timer. *)
ResetTimer_ActionFirst == /\ pc = "reset_timer"
                          /\ action' = oldact
                          /\ pc' = "reset_action"
                          /\ UNCHANGED <<call, waits, died, target, timer, otimer, oldact, rang, missed>>

ResetTimer == /\ pc = "reset_timer"
              /\ timer' = otimer
              /\ pc' = "reset_action"
              /\ UNCHANGED <<call, waits, died, target, otimer, action, oldact, rang, missed>>

(* Give the action back and return: the caller is done, goes on to          *)
(* ensure_death() (script.c), or is ensure_death() itself.                  *)
ResetAction == /\ pc = "reset_action"
               /\ action' = oldact
               /\ pc' = CASE died \/ waits \in {"wait", "wait_zero"} -> "done"
                          [] ~died /\ waits = "script" -> "check"
                          [] ~died /\ waits = "ensure_death" -> "sigkill"
               /\ UNCHANGED <<call, waits, died, target, timer, otimer, oldact, rang, missed>>

-----------------------------------------------------------------------------
(* The kernel and the child *)

(* The timer expires.  ignore_sigalarm() does nothing, but the signal       *)
(* interrupts a blocked waitpid(); so does a handler of the caller.         *)
Expire == /\ timer # "off"
          /\ pc # "killed"
          /\ timer' = "off"
          /\ \/ /\ action = "ignore_sigalarm"
                /\ rang' = IF timer = "caller" THEN "swallowed" ELSE rang
                /\ missed' = (missed \/ (timer = "own" /\ pc = "waitpid"))
                /\ pc' = IF pc = "blocked" THEN "reset_timer" ELSE pc
             \/ /\ action = "handler"
                /\ rang' = "handled"
                /\ pc' = IF pc = "reap" THEN "done" ELSE pc
                /\ UNCHANGED missed
             \/ /\ action = "default"
                /\ rang' = "fatal"
                /\ pc' = "killed"
                /\ UNCHANGED missed
          /\ UNCHANGED <<call, waits, died, target, otimer, action, oldact>>

(* The child exits by itself, or somebody stops or continues it. *)
Exit == /\ child = "running"
        /\ child' = "zombie"
        /\ UNCHANGED <<call, pc, waits, died, obeys, signals, alarm>>

Stop == /\ child = "running" /\ child' = "stopped"
        /\ UNCHANGED <<call, pc, waits, died, obeys, signals, alarm>>

Continue == /\ child = "stopped" /\ child' = "running"
            /\ UNCHANGED <<call, pc, waits, died, obeys, signals, alarm>>

(* A stopped child does not get SIGTERM; SIGKILL cannot be held up. *)
Terminate == /\ \/ "SIGKILL" \in signals /\ child \in {"running", "stopped"}
                \/ "SIGTERM" \in signals /\ child = "running" /\ obeys
             /\ child' = "zombie"
             /\ UNCHANGED <<call, pc, waits, died, obeys, signals, alarm>>

EnsureDeath == Check \/ SigTerm \/ SigKill \/ SigCont \/ Reap

WaitForDeath == SigAction \/ SetITimer \/ WaitPid \/ Died \/ ResetTimer \/ ResetAction

Next == EnsureDeath \/ WaitForDeath \/ Expire \/ Exit \/ Stop \/ Continue \/ Terminate

(* vlock runs on, timers expire and deadly signals kill; nothing is said of *)
(* when a child exits, stops or continues of its own.                       *)
Fairness == /\ WF_vars(EnsureDeath)
            /\ WF_vars(WaitForDeath)
            /\ WF_vars(Expire)
            /\ WF_vars(Terminate)

Spec == Init /\ [][Next]_vars /\ Fairness

-----------------------------------------------------------------------------
(* The timer of wait_for_death() runs only while SIGALRM is harmless: it    *)
(* neither kills vlock nor calls a handler of the caller, whatever the      *)
(* order in which timer and action are set and reset.                       *)
OwnAlarmHarmless == timer = "own" => action = "ignore_sigalarm"

(* When the functions return, the caller's action is in place and its timer *)
(* runs unless it has expired.                                              *)
CallersAlarmKept ==
    pc = "done" => /\ action = oldact
                   /\ timer # "own"
                   /\ otimer = "caller" => timer = "caller" \/ rang # "no"

(* No signal is sent to a pid that was already waited for, which may by     *)
(* then belong to another process.                                          *)
OnlyChildSignalled == pc \in {"sigterm", "sigkill", "sigcont"} => child # "reaped"

(* After ensure_death() the child is dead and no zombie is left; only an    *)
(* alarm of the caller can break off the last wait.                         *)
ReapedAtEnd ==
    pc = "done" /\ call \in {"ensure_death", "script"} => child = "reaped" \/ rang = "handled"

(* wait_for_death() waits for the given amount of time and returns.         *)
WaitReturns == <>(pc = "done")
=============================================================================
