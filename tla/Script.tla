------------------------------- MODULE Script -------------------------------
(***************************************************************************)
(* A script in hook mode (script.c): vlock launches it at the first hook   *)
(* and writes the names of the hooks into a pipe the script reads as its   *)
(* standard input.  The script may read late, close its input or exit      *)
(* between any two steps of vlock.  Which hook is called when is what      *)
(* PluginLife promises; a fatal signal may break into a call, its handler  *)
(* calls vlock_end and destroys the plugin, and another signal may break   *)
(* into that.                                                              *)
(***************************************************************************)
EXTENDS Naturals, SequencesExt

CONSTANTS
    PipeSize,       \* how many names and newlines the pipe holds
    MaxSaves,       \* bound: how often the screen saver is called
    MaxSignals      \* bound: how many fatal signals arrive

VARIABLES
    stage, saver, ends, freed,  \* the life of the plugin, see PluginLife
    pc,             \* where vlock_script_call_hook() or _finalize() is
    hook,           \* its argument
    written,        \* what was written of it is all there is
    launched, dead, \* the flags of the private data
    fd,             \* vlock's end of the pipe: "none", "open" or "closed"
    proc,           \* the script: "none", "running", "deaf" (closed its
                    \* input), "zombie" or "reaped"
    pipe, heard,    \* what is in the pipe, and what the script has read
    sigpipe, oldact,\* what SIGPIPE does: "default" or "ignore"
    signals,        \* how many handlers of fatal signals were entered
    saves, sent, missed \* calls of vlock_save; the hooks reported as called;
                    \* whether a call returned false

(* What Session guarantees: vlock_end once for the exit, and once more for *)
(* every signal.                                                           *)
Life == INSTANCE PluginLife WITH MaxEnds <- 1 + MaxSignals

life == <<stage, saver, ends, freed>>
flags == <<launched, dead, fd>>
script == <<proc, pipe, heard>>
signal == <<sigpipe, oldact, signals>>
history == <<saves, sent, missed>>
vars == <<life, pc, hook, written, flags, script, signal, history>>

killed == signals > 0

Hooks == {"vlock_start", "vlock_end", "vlock_save", "vlock_save_abort"}
newline == "newline"

TypeOK == /\ pc \in {"idle", "launch", "launched", "ignore", "name", "newline",
                     "restore", "return", "wait", "gone", "cut", "killed"}
          /\ hook \in Hooks
          /\ written \in BOOLEAN /\ launched \in BOOLEAN /\ dead \in BOOLEAN
          /\ fd \in {"none", "open", "closed"}
          /\ proc \in {"none", "running", "deaf", "zombie", "reaped"}
          /\ pipe \in Seq(Hooks \union {newline}) /\ Len(pipe) <= PipeSize
          /\ heard \in Seq(Hooks \union {newline})
          /\ {sigpipe, oldact} \subseteq {"default", "ignore"}
          /\ signals \in 0..MaxSignals

Init == /\ Life!Init
        /\ pc = "idle"
        /\ hook = "vlock_start"
        /\ written = FALSE
        /\ launched = FALSE /\ dead = FALSE
        /\ fd = "none"
        /\ proc = "none"
        /\ pipe = <<>> /\ heard = <<>>
        /\ sigpipe = "default" /\ oldact = "default"
        /\ signals = 0
        /\ saves = 0 /\ sent = <<>> /\ missed = FALSE

-----------------------------------------------------------------------------
(* The program: it loads the plugin, calls hooks as PluginLife has it, and  *)
(* unloads the plugin.                                                      *)

Load == /\ pc = "idle"
        /\ Life!Load
        /\ UNCHANGED <<pc, hook, written, flags, script, signal, history>>

(* The hook PluginLife allows next.  A signal breaks off the handler of a    *)
(* hook for good, but for that of vlock_end: each signal begins it anew,    *)
(* with the plugins that have ended already.                                *)
MayCall(h) ==
    \/ h = "vlock_start" /\ stage = "loaded" /\ ~killed
    \/ h = "vlock_save" /\ stage = "started" /\ saver = "off" /\ ~killed /\ saves < MaxSaves
    \/ h = "vlock_save_abort" /\ stage = "started" /\ saver \in {"on", "broken"} /\ ~killed
    \/ h = "vlock_end" /\ stage \in {"started", "ended"} /\ ends <= signals

(* Entering the call.  A script that is not launched is launched first.     *)
(* Mutant: a script once found dead is written to again. *)
CallHook_Again(h) ==
    /\ pc = "idle" /\ ~freed
    /\ MayCall(h)
    /\ hook' = h
    /\ written' = FALSE
    /\ pc' = IF launched THEN "ignore" ELSE "launch"
    /\ saves' = IF h = "vlock_save" THEN saves + 1 ELSE saves
    /\ IF h = "vlock_end" THEN Life!End ELSE UNCHANGED life
    /\ UNCHANGED <<flags, script, signal, sent, missed>>

CallHook(h) ==
    /\ pc = "idle" /\ ~freed
    /\ MayCall(h)
    /\ hook' = h
    /\ written' = FALSE
    /\ pc' = CASE ~launched -> "launch"
               [] launched /\ dead -> "return"
               [] launched /\ ~dead -> "ignore"
    /\ saves' = IF h = "vlock_save" THEN saves + 1 ELSE saves
    /\ IF h = "vlock_end" THEN Life!End ELSE UNCHANGED life
    /\ UNCHANGED <<flags, script, signal, sent, missed>>

(* What the result of the call means for the plugin's life.                 *)
Lives(ok) ==
    CASE hook = "vlock_start" -> Life!Start /\ stage' = (IF ok THEN "started" ELSE "failed")
      [] hook = "vlock_save" -> Life!Save /\ saver' = (IF ok THEN "on" ELSE "broken")
      [] hook = "vlock_save_abort" ->
            Life!SaveAbort /\ saver' = (IF ok /\ saver = "on" THEN "off" ELSE "retired")
      [] hook = "vlock_end" -> UNCHANGED life

Return == /\ pc = "return"
          /\ Lives(written)
          /\ sent' = IF written THEN Append(sent, hook) ELSE sent
          /\ missed' = (missed \/ ~written)
          /\ pc' = "idle"
          /\ UNCHANGED <<hook, written, flags, script, signal, saves>>

-----------------------------------------------------------------------------
(* vlock_script_launch() and vlock_script_call_hook() *)

(* create_child() makes the pipe and runs the script, or fails.             *)
Launch == /\ pc = "launch"
          /\ \/ /\ proc' = "running" /\ fd' = "open" /\ pc' = "launched"
                /\ UNCHANGED dead
             \/ /\ dead' = TRUE /\ pc' = "return"
                /\ UNCHANGED <<proc, fd>>
          /\ UNCHANGED <<life, hook, written, launched, pipe, heard, signal, history>>

(* The assignment of the result, after which finalizing knows of the child. *)
Launched == /\ pc = "launched"
            /\ launched' = TRUE
            /\ pc' = IF dead THEN "return" ELSE "ignore"
            /\ UNCHANGED <<life, hook, written, dead, fd, script, signal, history>>

IgnoreSigpipe == /\ pc = "ignore"
                 /\ oldact' = sigpipe
                 /\ sigpipe' = "ignore"
                 /\ pc' = "name"
                 /\ UNCHANGED <<life, hook, written, flags, script, signals, history>>

(* write() to the pipe, which does not block: something short is written    *)
(* whole or not at all.  Without a reader it fails, and SIGPIPE comes.      *)
Write(token, then) ==
    \/ /\ proc = "running" /\ Len(pipe) < PipeSize
       /\ pipe' = Append(pipe, token)
       /\ pc' = then
    \/ /\ \/ proc = "running" /\ Len(pipe) = PipeSize
          \/ proc # "running" /\ sigpipe = "ignore"
       /\ pc' = "restore"
       /\ UNCHANGED pipe
    \/ /\ proc # "running" /\ sigpipe = "default"
       /\ pc' = "killed"
       /\ UNCHANGED pipe

(* Mutant: SIGPIPE is reset after the first write. *)
WriteName_Restore == /\ pc = "name"
                     /\ Write(hook, "newline")
                     /\ sigpipe' = oldact
                     /\ UNCHANGED <<life, hook, written, flags, proc, heard, oldact, signals, history>>

WriteName == /\ pc = "name"
             /\ Write(hook, "newline")
             /\ UNCHANGED <<life, hook, written, flags, proc, heard, signal, history>>

(* Mutant: the result of the second write is not looked at. *)
WriteNewline_Unchecked == /\ pc = "newline"
                          /\ Write(newline, "restore")
                          /\ written' = TRUE
                          /\ UNCHANGED <<life, hook, flags, proc, heard, signal, history>>

WriteNewline == /\ pc = "newline"
                /\ Write(newline, "restore")
                /\ written' = (pipe' # pipe)
                /\ UNCHANGED <<life, hook, flags, proc, heard, signal, history>>

Restore == /\ pc = "restore"
           /\ sigpipe' = oldact
           /\ dead' = ~written
           /\ pc' = "return"
           /\ UNCHANGED <<life, hook, written, launched, fd, script, oldact, signals, history>>

-----------------------------------------------------------------------------
(* vlock_script_finalize(): close the pipe, then wait and kill.             *)

(* vlock_end comes first unless vlock_start was not called or failed; a     *)
(* signal may have broken off the loop that calls it.                       *)
MayUnload == stage \in {"loaded", "failed", "ended"} \/ killed

(* Mutant: a script found dead is not waited for. *)
Unload_Living == /\ pc = "idle" /\ MayUnload
                 /\ Life!Unload
                 /\ IF launched /\ ~dead THEN fd' = "closed" /\ pc' = "wait"
                                         ELSE pc' = "gone" /\ UNCHANGED fd
                 /\ UNCHANGED <<hook, written, launched, dead, script, signal, history>>

Unload == /\ pc = "idle" /\ MayUnload
          /\ Life!Unload
          /\ IF launched THEN fd' = "closed" /\ pc' = "wait"
                         ELSE pc' = "gone" /\ UNCHANGED fd
          /\ UNCHANGED <<hook, written, launched, dead, script, signal, history>>

(* wait_for_death() and ensure_death(), see ProcessDeath.                   *)
Reap == /\ pc = "wait"
        /\ proc' = "reaped"
        /\ pc' = "gone"
        /\ UNCHANGED <<life, hook, written, flags, pipe, heard, signal, history>>

-----------------------------------------------------------------------------
(* The script, and signals *)

Read == /\ proc = "running"
        /\ pipe # <<>>
        /\ heard' = Append(heard, Head(pipe))
        /\ pipe' = Tail(pipe)
        /\ UNCHANGED <<life, pc, hook, written, flags, proc, signal, history>>

Leave == /\ \/ proc = "running" /\ proc' \in {"deaf", "zombie"}
            \/ proc = "deaf" /\ proc' = "zombie"
         /\ UNCHANGED <<life, pc, hook, written, flags, pipe, heard, signal, history>>

(* A fatal signal breaks into a call that is never returned to.  Its        *)
(* handler runs the exit functions: vlock_end if it is due, and unloading.  *)
(* The plugin whose destruction it broke into is not destroyed again, and   *)
(* nobody waits for its child any more.                                     *)
Kill == /\ signals < MaxSignals
        /\ \/ stage # "absent" /\ ~freed /\ pc' = "idle"
           \/ pc = "wait" /\ pc' = "cut"
        /\ signals' = signals + 1
        /\ UNCHANGED <<life, hook, written, flags, script, sigpipe, oldact, history>>

CallSomeHook == \E h \in Hooks : CallHook(h)

Next == \/ Load \/ CallSomeHook \/ Return
        \/ Launch \/ Launched \/ IgnoreSigpipe \/ WriteName \/ WriteNewline \/ Restore
        \/ Unload \/ Reap
        \/ Read \/ Leave \/ Kill

-----------------------------------------------------------------------------
received == heard \o pipe

(* vlock survives its scripts: writing to one that exits or closes its      *)
(* input, even between the two writes, never kills it by SIGPIPE.           *)
SurvivesScripts == pc # "killed"

(* A hook is reported as called exactly if its whole line is on its way:    *)
(* between calls, the complete lines written are the calls that succeeded.  *)
(* A line is a name and a newline, which LinesWhole is about.               *)
Lines(s) == [k \in 1..Len(s) \div 2 |-> s[2 * k - 1]]
ReportedIffSent == pc = "idle" /\ ~killed => Lines(received) = sent

(* A newline always ends a name.  A name without its newline is the last    *)
(* thing a script is sent, unless a fatal signal has broken off the call:   *)
(* then vlock_end follows, and nothing but vlock_end.                       *)
Name(k) == received[k] # newline
LinesWhole ==
    \A k \in 1..Len(received) :
        /\ ~Name(k) => k > 1 /\ Name(k - 1)
        /\ Name(k) /\ k < Len(received) /\ Name(k + 1) =>
              killed /\ \A j \in k + 1..Len(received) : Name(j) => received[j] = "vlock_end"

(* After one hook the script did not get it is told of no other one: it     *)
(* never hears of a hook without those before it.                           *)
SilentAfterMiss == [][missed => Len(received)' = Len(received)]_vars

(* A script whose destruction is complete leaves no process and no pipe     *)
(* behind, unless a signal came while it was launched.                      *)
NothingLeft == pc = "gone" => \/ proc \in {"none", "reaped"} /\ fd # "open"
                              \/ killed /\ stage = "loaded"
=============================================================================
