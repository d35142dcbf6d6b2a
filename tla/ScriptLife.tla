----------------------------- MODULE ScriptLife -----------------------------
(***************************************************************************)
(* A script from the moment its plugin is opened to its end: it is asked   *)
(* for its dependencies, and only if all of them could be read is there a  *)
(* plugin, which is loaded and then called by its hooks.                   *)
(***************************************************************************)
EXTENDS Naturals, SequencesExt

CONSTANTS Outputs, Kinds, Timeout, LINE_MAX, PipeSize, MaxSaves, MaxSignals

(* A read of LINE_MAX - 1 characters takes at least one of what there is:   *)
(* POSIX has LINE_MAX be 2048 or more.                                      *)
ASSUME ParameterAssumption == /\ {Kinds, LINE_MAX, PipeSize} \subseteq Nat \ {0}
                              /\ LINE_MAX > 1
                              /\ {Timeout, MaxSaves, MaxSignals} \subseteq Nat
                              /\ Outputs \subseteq Seq(STRING)

VARIABLES
    i, dpc, asked, says, out, data, timeout, items, outcome, printed, elapsed,
    stage, saver, ends, freed, pc, hook, written, launched, dead, fd,
    proc, pipe, heard, sigpipe, oldact, signals, saves, sent, missed

opening == <<i, dpc, asked, says, out, data, timeout, items, outcome, printed, elapsed>>
hooks == <<stage, saver, ends, freed, pc, hook, written, launched, dead, fd,
           proc, pipe, heard, sigpipe, oldact, signals, saves, sent, missed>>
vars == <<opening, hooks>>

D == INSTANCE ScriptDependencies WITH pc <- dpc, proc <- asked
H == INSTANCE Script

Init == D!Init /\ H!Init

Open == D!Open /\ UNCHANGED hooks
AskedScript == (D!Say \/ D!Exit) /\ UNCHANGED hooks

(* The plugin exists.  What opening it left behind is the list of its       *)
(* dependencies, which plugins.c reads; it is not followed any further.     *)
Load == /\ dpc = "done" /\ outcome = "opened"
        /\ H!Load
        /\ items' = <<>> /\ data' = <<>> /\ says' = <<>> /\ out' = <<>> /\ printed' = <<>>
        /\ timeout' = Timeout /\ elapsed' = 0
        /\ UNCHANGED <<i, dpc, asked, outcome>>

Hooks == stage # "absent" /\ H!Next /\ UNCHANGED opening

Next == Open \/ AskedScript \/ Load \/ Hooks

(* vlock runs on while it opens a script; the script need not.              *)
Spec == Init /\ [][Next]_vars /\ WF_vars(Open)

-----------------------------------------------------------------------------
(* What is read of one dependency leaves room for the terminating NUL, and  *)
(* all reading of it together takes no longer than the timeout.             *)
WithinLimits == Len(data) < LINE_MAX /\ elapsed <= Timeout

(* What is taken for the dependencies of a script is all that it printed    *)
(* before it closed its output: a slow or chatty script is an error, never  *)
(* one with fewer dependencies.                                             *)
AllOrError == [][Len(items') > Len(items) =>
                   SelectSeq(Last(items'), LAMBDA w : w # <<>>) = D!Words(printed)]_vars

(* Opening a script ends, whatever the script does.                         *)
OpenEnds == <>(dpc = "done")

(* vlock survives its scripts: writing to one that exits or closes its      *)
(* input, even between the two writes, never kills it by SIGPIPE.           *)
SurvivesScripts == H!SurvivesScripts

(* Between calls, the complete lines written to a script are the hooks that *)
(* were reported as called; a broken line is the last thing written, unless *)
(* a fatal signal has broken it off: then only vlock_end follows.           *)
ReportedIffSent == H!ReportedIffSent /\ H!LinesWhole

(* A script whose destruction is complete leaves no process and no pipe     *)
(* behind, unless a signal came while it was launched; one that could not   *)
(* be opened was never launched.                                            *)
NothingLeft == H!NothingLeft /\ (stage # "absent" => outcome = "opened" /\ asked = "none")

(* After one hook the script did not get it is told of no other one.        *)
SilentAfterMiss == H!SilentAfterMiss
=============================================================================
