------------------------------ MODULE Children ------------------------------
(***************************************************************************)
(* The life of a child process as its users arrange it: create_child(),    *)
(* whatever the child is for, and the functions that see to its death.     *)
(* The screen savers' hooks put the terminal into the hands of curses      *)
(* before, and take it back after.                                         *)
(***************************************************************************)
EXTENDS Naturals, FiniteSets

CONSTANTS Users, CallerTimers, CallerActions

(* "saver": vlock_save() and vlock_save_abort() of cmatrix, train, wetpipes. *)
(* "script" and "dependencies": a script that runs hooks, and one that is   *)
(* asked for its dependencies.  "wait" and "wait_zero": the tests.          *)
AllUsers == {"saver", "script", "dependencies", "wait", "wait_zero"}
ASSUME UsersAssumption == /\ Users \subseteq AllUsers
                          /\ CallerTimers \subseteq {"off", "caller"}
                          /\ CallerActions \subseteq {"default", "handler"}

VARIABLES
    user,
    phase,          \* "open", "create", "use", "dispose", "close" or "over"
    curses,         \* the terminal is in the hands of curses
    piped, what, pc, cpc, vlock, child, status, result, error,
    call, dpc, waits, died, process, obeys, signals,
    timer, otimer, action, oldact, rang, missed

creation == <<piped, what, pc, cpc, vlock, child, status, result, error>>
disposal == <<call, dpc, waits, died, process, obeys, signals,
              timer, otimer, action, oldact, rang, missed>>
vars == <<user, phase, curses, creation, disposal>>

PipedFor(u) == CASE u = "saver" -> {} [] u = "script" -> {"stdin"}
                 [] u = "dependencies" -> {"stdout"} [] OTHER -> {"stdin", "stdout", "stderr"}
RunsIn(u) == CASE u = "saver" -> {"function"}
               [] u \in {"script", "dependencies"} -> {"program"}
               [] OTHER -> {"function", "program"}
CallOf(u) == CASE u = "saver" -> "ensure_death"
               [] u \in {"script", "dependencies"} -> "script" [] OTHER -> u

C == INSTANCE CreateChild WITH Redirected <- {PipedFor(u) : u \in Users}
D == INSTANCE ProcessDeath WITH pc <- dpc, child <- process,
                                Calls <- {CallOf(u) : u \in Users}

Init == /\ user \in Users
        /\ phase = IF user = "saver" THEN "open" ELSE "create"
        /\ curses = FALSE
        /\ C!Init /\ piped = PipedFor(user) /\ what \in RunsIn(user)
        (* Nobody disposes of a child that is not there.                    *)
        /\ D!Init /\ call = CallOf(user)
        /\ process = "running" /\ obeys

(* vlock_save(): initscr() to curs_set(0).                                  *)
OpenScreen == /\ phase = "open"
              /\ phase' = "create" /\ curses' = TRUE
              /\ UNCHANGED <<user, creation, disposal>>

Creating == /\ phase \in {"create", "use"}
            /\ UNCHANGED <<user, phase, curses, disposal>>

(* The hook, the script or the test goes on after create_child().           *)
Created == /\ phase = "create" /\ pc = "done"
           /\ phase' = IF result THEN "use" ELSE "over"
           /\ UNCHANGED <<user, curses, creation, disposal>>

(* The saver is aborted, or the script is done with.                        *)
Dispose == /\ phase = "use"
           /\ phase' = "dispose"
           /\ process' \in IF cpc = "exited" THEN {"zombie"} ELSE {"running", "stopped"}
           /\ obeys' \in BOOLEAN
           /\ UNCHANGED <<user, curses, creation, call, dpc, waits, died, signals,
                          timer, otimer, action, oldact, rang, missed>>

Disposing == /\ phase = "dispose"
             /\ UNCHANGED <<user, phase, curses, creation>>

Disposed == /\ phase = "dispose" /\ dpc = "done"
            /\ phase' = IF user = "saver" THEN "close" ELSE "over"
            /\ UNCHANGED <<user, curses, creation, disposal>>

(* vlock_save_abort(): curs_set(1) to endwin().                             *)
CloseScreen_First ==    \* Mutant: before ensure_death() and not after it.
    /\ phase \in {"use", "close"} /\ user = "saver"
    /\ phase' = IF phase = "use" THEN "use" ELSE "over"
    /\ curses' = FALSE
    /\ UNCHANGED <<user, creation, disposal>>
CloseScreen == /\ phase = "close"
               /\ phase' = "over" /\ curses' = FALSE
               /\ UNCHANGED <<user, creation, disposal>>

Vlock == Creating /\ C!Vlock
Child == Creating /\ C!Child
ChildExits == Creating /\ C!Exit

Next == \/ OpenScreen \/ Vlock \/ Child \/ ChildExits \/ Created
        \/ Dispose \/ (Disposing /\ D!Next) \/ Disposed \/ CloseScreen

(* As in the two modules; when a child is disposed of is left open.         *)
Fairness == /\ WF_vars(Vlock) /\ WF_vars(Child) /\ WF_vars(Created)
            /\ WF_vars(Disposing /\ D!EnsureDeath) /\ WF_vars(Disposing /\ D!WaitForDeath)
            /\ WF_vars(Disposing /\ D!Expire) /\ WF_vars(Disposing /\ D!Terminate)

Spec == Init /\ [][Next]_vars /\ Fairness

-----------------------------------------------------------------------------
(* create_child() leaves vlock the ends of pipes it shall use, and after an *)
(* error none; an error means that nothing was or will be run, and tells a  *)
(* missing program from one that could not be run.                          *)
CreationAccounted == C!DescriptorsAccounted /\ C!VerdictMatches

(* What runs in the child has no end of a pipe but its own streams.         *)
NoStrayEnds == C!NoStrayEnds

(* The alarm of wait_for_death() harms nobody, and the caller gets its own  *)
(* timer and action back.                                                   *)
AlarmsKept == phase = "dispose" => D!OwnAlarmHarmless /\ D!CallersAlarmKept

(* Nothing is sent to a pid that may belong to another process by now.      *)
OnlyChildSignalled == phase = "dispose" => D!OnlyChildSignalled

(* The child of a saver never draws on a terminal that curses has let go    *)
(* of: it was waited for, or at least killed.  In the end the terminal is   *)
(* let go of and no zombie is left.                                         *)
Draws == IF phase \in {"dispose", "close", "over"} /\ pc = "done" /\ result
         THEN process \in {"running", "stopped"} /\ "SIGKILL" \notin signals
         ELSE cpc = "running"
GivenBack == /\ user = "saver" /\ Draws => curses
             /\ phase = "over" /\ result =>
                  ~curses /\ (user \in {"wait", "wait_zero"} \/ D!ReapedAtEnd)

(* create_child() returns however long the child may run; so do the         *)
(* functions that see to its death, unless their alarm came before they     *)
(* waited or an alarm of the caller killed vlock.                           *)
CallsReturn ==
    /\ phase = "create" ~> phase \in {"use", "over"}
    /\ (phase = "dispose" /\ user \notin {"wait", "wait_zero"})
         ~> (dpc \in {"done", "killed"} \/ (dpc = "blocked" /\ missed))
=============================================================================
