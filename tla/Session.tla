------------------------------ MODULE Session -------------------------------
(***************************************************************************)
(* One run of vlock-main: main() and auth_loop() of vlock-main.c, the hook *)
(* handlers and unload_plugins() of plugins.c, the exit functions of       *)
(* util.c, the fatal-signal handler of signals.c and the terminal flags of *)
(* terminal.c.                                                             *)
(*                                                                         *)
(* There is one thread of control.  A fatal signal runs terminate() on top *)
(* of whatever was running.  terminate() ends by raising its own signal,   *)
(* whose action is by then the default one, so the code it interrupted     *)
(* never runs again: a signal replaces the control state, while the data   *)
(* stay as the interrupted step left them.                                 *)
(*                                                                         *)
(* The plugins are the positions of the sorted list; module Dependencies   *)
(* says which plugins those are.                                           *)
(***************************************************************************)
EXTENDS Integers, Sequences, FiniteSets

CONSTANTS
    MaxPlugins,     \* bound on the length of the plugin list
    Signals,        \* the fatal signals that may arrive
    SaverOnly,      \* VLOCK_SAVER is set
    RootFallback,   \* root's password is accepted, too
    TtyPlugin       \* position of a plugin that moves stdin to a new console

ASSUME SessionAssumption ==
    /\ MaxPlugins \in Nat
    /\ IsFiniteSet(Signals)
    /\ SaverOnly \in BOOLEAN
    /\ RootFallback \in BOOLEAN
    /\ TtyPlugin \in Nat

Positions == 1..MaxPlugins
Consoles == {"old", "new"}

VARIABLES
    pc,                 \* where control is
    at,                 \* position of the running loop over the plugins
    first, count,       \* the list `plugins' holds the positions first..count
    atexit_functions,   \* exit functions, the one to be called first in front
    handled,            \* signals whose handler was entered
    killed_in,          \* where control was when the first signal arrived
    status,             \* argument of exit()
    tries,              \* auth_tries: 0, 1 or 2 for "more than one"
    who,                \* index into auth_names
    stage,              \* per plugin: how far it got
    saver,              \* per plugin: its screen saver
    save_disabled,      \* per plugin: the field of that name
    ends,               \* per plugin: number of vlock_end calls
    freed,              \* per plugin: the object was unreferenced
    stdin,              \* console that standard input refers to
    mode                \* per console: its terminal flags

list == <<first, count>>
plugin == <<stage, saver, save_disabled, ends, freed>>
terminal == <<stdin, mode>>
exiting == <<atexit_functions, handled, killed_in, status>>
auth == <<tries, who>>
vars == <<pc, at, list, exiting, auth, plugin, terminal>>

AuthNames == IF RootFallback THEN 2 ELSE 1

Init ==
    /\ pc = "install"
    /\ at = 0
    /\ first = 1 /\ count = 0
    /\ atexit_functions = <<>>
    /\ handled = {} /\ killed_in = "nowhere"
    /\ status = "none"
    /\ tries = 0 /\ who = 1
    /\ stage = [p \in Positions |-> "absent"]
    /\ saver = [p \in Positions |-> "off"]
    /\ save_disabled = [p \in Positions |-> FALSE]
    /\ ends = [p \in Positions |-> 0]
    /\ freed = [p \in Positions |-> FALSE]
    /\ stdin = "old"
    /\ mode = [c \in Consoles |-> "original"]

Atexit(function) == atexit_functions' = <<function>> \o atexit_functions

Goto(label) == pc' = label

(* exit() runs vlock_invoke_atexit(), registered with the C library. *)
Exit(code) == status' = code /\ Goto("invoke_atexit")

-----------------------------------------------------------------------------
(* Start of main(): load the plugins, resolve their dependencies.          *)

RegisterTries ==
    /\ pc = "install"
    /\ Atexit("display_auth_tries")
    /\ Goto("load")
    /\ UNCHANGED <<at, list, handled, killed_in, status, auth, plugin, terminal>>

LoadPlugin ==
    /\ pc = "load"
    /\ \/ /\ count < MaxPlugins
          /\ count' = count + 1
          /\ stage' = [stage EXCEPT ![count + 1] = "loaded"]
          /\ UNCHANGED <<pc, status>>
       \/ Exit("failure") /\ UNCHANGED <<count, stage>>
    /\ UNCHANGED <<at, first, atexit_functions, handled, killed_in, auth,
                   saver, save_disabled, ends, freed, terminal>>

(* Mutant: vlock_end is registered before the plugins are started. *)
RegisterUnload_AndEnd ==
    /\ pc = "load"
    /\ atexit_functions' = <<"call_end_hook", "unload_plugins">> \o atexit_functions
    /\ Goto("resolve")
    /\ UNCHANGED <<at, list, handled, killed_in, status, auth, plugin, terminal>>

RegisterUnload ==
    /\ pc = "load"
    /\ Atexit("unload_plugins")
    /\ Goto("resolve")
    /\ UNCHANGED <<at, list, handled, killed_in, status, auth, plugin, terminal>>

(* Resolving adds required plugins and drops plugins whose dependencies    *)
(* are missing, or fails.                                                  *)
ResolveDependencies ==
    /\ pc = "resolve"
    /\ \E n \in 0..MaxPlugins :
          /\ count' = n
          /\ stage' = [p \in Positions |-> IF p <= n THEN "loaded" ELSE "absent"]
    /\ \/ Goto("start") /\ at' = 1 /\ UNCHANGED status
       \/ Exit("failure") /\ UNCHANGED at
    /\ UNCHANGED <<first, atexit_functions, handled, killed_in, auth,
                   saver, save_disabled, ends, freed, terminal>>

-----------------------------------------------------------------------------
(* plugin_hook("vlock_start"); vlock_atexit(call_end_hook)                 *)

(* The vlock_end hook of plugin p, which puts standard input back. *)
CallEnd(p) ==
    /\ stage' = [stage EXCEPT ![p] = "ended"]
    /\ ends' = [ends EXCEPT ![p] = @ + 1]
    /\ stdin' = IF p = TtyPlugin THEN "old" ELSE stdin

StartPlugin ==
    /\ pc = "start" /\ at <= count
    /\ \/ /\ stage' = [stage EXCEPT ![at] = "started"]
          /\ stdin' = IF at = TtyPlugin THEN "new" ELSE stdin
          /\ at' = at + 1
          /\ UNCHANGED pc
       \/ /\ stage' = [stage EXCEPT ![at] = "failed"]
          /\ at' = at - 1
          /\ Goto("rollback")
          /\ UNCHANGED stdin
    /\ UNCHANGED <<list, exiting, auth, saver, save_disabled, ends, freed, mode>>

RollbackPlugin ==
    /\ pc = "rollback" /\ at >= first
    /\ CallEnd(at)
    /\ at' = at - 1
    /\ UNCHANGED <<pc, list, exiting, auth, saver, save_disabled, freed, mode>>

RollbackDone ==
    /\ pc = "rollback" /\ at < first
    /\ Exit("failure")
    /\ UNCHANGED <<at, list, atexit_functions, handled, killed_in, auth, plugin,
                   terminal>>

StartDone ==
    /\ pc = "start" /\ at > count
    /\ Goto("register_end")
    /\ UNCHANGED <<at, list, exiting, auth, plugin, terminal>>

RegisterEnd ==
    /\ pc = "register_end"
    /\ Atexit("call_end_hook")
    /\ Goto("isatty")
    /\ UNCHANGED <<at, list, handled, killed_in, status, auth, plugin, terminal>>

-----------------------------------------------------------------------------
(* Securing the terminal                                                   *)

IsATty ==
    /\ pc = "isatty"
    /\ \/ Goto("secure") /\ UNCHANGED status
       \/ Exit("failure")
    /\ UNCHANGED <<at, list, atexit_functions, handled, killed_in, auth, plugin,
                   terminal>>

SecureTerminal ==
    /\ pc = "secure"
    /\ mode' = [mode EXCEPT ![stdin] = "secured"]
    /\ Goto("register_restore")
    /\ UNCHANGED <<at, list, exiting, auth, plugin, stdin>>

(* Mutant: exit functions are called in the order they were registered. *)
RegisterRestore_Append ==
    /\ pc = "register_restore"
    /\ atexit_functions' = Append(atexit_functions, "restore_terminal")
    /\ Goto("message")
    /\ UNCHANGED <<at, list, handled, killed_in, status, auth, plugin, terminal>>

RegisterRestore ==
    /\ pc = "register_restore"
    /\ Atexit("restore_terminal")
    /\ Goto("message")
    /\ UNCHANGED <<at, list, handled, killed_in, status, auth, plugin, terminal>>

-----------------------------------------------------------------------------
(* auth_loop()                                                             *)

(* The lock message, then enter, escape, a timeout or an end of file. *)
AwaitKey ==
    /\ pc = "message"
    /\ \/ ~SaverOnly /\ Goto("auth") /\ UNCHANGED at
       \/ Goto("save") /\ at' = 1
    /\ who' = 1
    /\ UNCHANGED <<list, exiting, tries, plugin, terminal>>

(* Mutant: the test of save_disabled is missing. *)
SavePlugin_IgnoresDisabled ==
    /\ pc = "save" /\ at <= count
    /\ saver' = [saver EXCEPT ![at] = "on"]
    /\ at' = at + 1
    /\ UNCHANGED <<pc, list, exiting, auth, stage, save_disabled, ends, freed, terminal>>

SavePlugin ==
    /\ pc = "save" /\ at <= count
    /\ IF save_disabled[at]
       THEN /\ at' = at + 1
            /\ UNCHANGED <<pc, saver, save_disabled>>
       ELSE \/ /\ saver' = [saver EXCEPT ![at] = "on"]
               /\ at' = at + 1
               /\ UNCHANGED <<pc, save_disabled>>
            \/ /\ saver' = [saver EXCEPT ![at] = "broken"]
               /\ save_disabled' = [save_disabled EXCEPT ![at] = TRUE]
               /\ Goto("save_failed")
               /\ UNCHANGED at
    /\ UNCHANGED <<list, exiting, auth, stage, ends, freed, terminal>>

(* The vlock_save_abort hook of a plugin whose vlock_save failed. *)
SaveFailed ==
    /\ pc = "save_failed"
    /\ saver' = [saver EXCEPT ![at] = "retired"]
    /\ at' = at + 1
    /\ Goto("save")
    /\ UNCHANGED <<list, exiting, auth, stage, save_disabled, ends, freed, terminal>>

SaveDone ==
    /\ pc = "save" /\ at > count
    /\ Goto("wake")
    /\ UNCHANGED <<at, list, exiting, auth, plugin, terminal>>

WakeKey ==
    /\ pc = "wake"
    /\ at' = count
    /\ Goto("save_abort")
    /\ UNCHANGED <<list, exiting, auth, plugin, terminal>>

SaveAbortPlugin ==
    /\ pc = "save_abort" /\ at >= first
    /\ \/ save_disabled[at] /\ UNCHANGED <<saver, save_disabled>>
       \/ ~save_disabled[at] /\ saver' = [saver EXCEPT ![at] = "off"]
                             /\ UNCHANGED save_disabled
       \/ ~save_disabled[at] /\ saver' = [saver EXCEPT ![at] = "retired"]
                             /\ save_disabled' = [save_disabled EXCEPT ![at] = TRUE]
    /\ at' = at - 1
    /\ UNCHANGED <<pc, list, exiting, auth, stage, ends, freed, terminal>>

(* Mutant: the loop stops at the head of the list. *)
SaveAbortDone_TooEarly ==
    /\ pc = "save_abort" /\ at <= first
    /\ Goto("auth")
    /\ UNCHANGED <<at, list, exiting, auth, plugin, terminal>>

SaveAbortDone ==
    /\ pc = "save_abort" /\ at < first
    /\ Goto("auth")
    /\ UNCHANGED <<at, list, exiting, auth, plugin, terminal>>

(* auth() asks for the user's password, then for root's. *)
Authenticate ==
    /\ pc = "auth"
    /\ \/ Exit("success") /\ UNCHANGED auth
       \/ /\ who < AuthNames
          /\ who' = who + 1
          /\ UNCHANGED <<pc, status, tries>>
       \/ /\ who = AuthNames
          /\ tries' = IF tries < 2 THEN tries + 1 ELSE 2
          /\ Goto("message")
          /\ UNCHANGED <<who, status>>
    /\ UNCHANGED <<at, list, atexit_functions, handled, killed_in, plugin, terminal>>

-----------------------------------------------------------------------------
(* vlock_invoke_atexit(): call the first function, then take it off.       *)

InvokeAtexit ==
    /\ pc = "invoke_atexit"
    /\ atexit_functions # <<>>
    /\ Goto(Head(atexit_functions))
    /\ at' = count
    /\ UNCHANGED <<list, exiting, auth, plugin, terminal>>

DisplayAuthTries ==
    /\ pc = "display_auth_tries"
    /\ Goto("delete_link")
    /\ UNCHANGED <<at, list, exiting, auth, plugin, terminal>>

RestoreTerminal ==
    /\ pc = "restore_terminal"
    /\ mode' = [mode EXCEPT ![stdin] = "original"]
    /\ Goto("delete_link")
    /\ UNCHANGED <<at, list, exiting, auth, plugin, stdin>>

(* Mutant: the list is walked from its head. *)
EndPlugin_Forward ==
    /\ pc = "call_end_hook" /\ at >= first
    /\ CallEnd(first + count - at)
    /\ at' = at - 1
    /\ UNCHANGED <<pc, list, exiting, auth, saver, save_disabled, freed, mode>>

EndPlugin ==
    /\ pc = "call_end_hook" /\ at >= first
    /\ CallEnd(at)
    /\ at' = at - 1
    /\ UNCHANGED <<pc, list, exiting, auth, saver, save_disabled, freed, mode>>

EndDone ==
    /\ pc = "call_end_hook" /\ at < first
    /\ Goto("delete_link")
    /\ UNCHANGED <<at, list, exiting, auth, plugin, terminal>>

(* g_object_unref(plugins->data).  On an object that is gone already this  *)
(* is undefined: it goes unnoticed or the process crashes.                 *)
UnrefPlugin ==
    /\ pc = "unload_plugins" /\ first <= count
    /\ freed' = [freed EXCEPT ![first] = TRUE]
    /\ \/ Goto("unlink_plugin")
       \/ freed[first] /\ Goto("dead")
    /\ UNCHANGED <<at, list, exiting, auth, stage, saver, save_disabled, ends, terminal>>

(* Mutant: the link is deleted twice. *)
UnlinkPlugin_Twice ==
    /\ pc = "unlink_plugin"
    /\ first' = first + 2
    /\ Goto("unload_plugins")
    /\ UNCHANGED <<at, count, exiting, auth, plugin, terminal>>

UnlinkPlugin ==
    /\ pc = "unlink_plugin"
    /\ first' = first + 1
    /\ Goto("unload_plugins")
    /\ UNCHANGED <<at, count, exiting, auth, plugin, terminal>>

UnloadDone ==
    /\ pc = "unload_plugins" /\ first > count
    /\ Goto("delete_link")
    /\ UNCHANGED <<at, list, exiting, auth, plugin, terminal>>

(* Mutant: the function called stays in the list. *)
DeleteLink_Keeps ==
    /\ pc = "delete_link"
    /\ Goto("invoke_atexit")
    /\ UNCHANGED <<at, list, exiting, auth, plugin, terminal>>

DeleteLink ==
    /\ pc = "delete_link"
    /\ atexit_functions' = Tail(atexit_functions)
    /\ Goto("invoke_atexit")
    /\ UNCHANGED <<at, list, handled, killed_in, status, auth, plugin, terminal>>

(* The process ends: exit() returns to the system, or terminate() raises   *)
(* its signal a second time and returns.                                   *)
Die ==
    /\ pc = "invoke_atexit"
    /\ atexit_functions = <<>>
    /\ Goto("dead")
    /\ UNCHANGED <<at, list, exiting, auth, plugin, terminal>>

-----------------------------------------------------------------------------
(* A fatal signal.  SA_RESETHAND and the mask let its handler start once;  *)
(* handlers of different signals may interrupt one another.                *)
Terminate(s) ==
    /\ pc # "dead"
    /\ s \notin handled
    /\ handled' = handled \cup {s}
    /\ killed_in' = IF handled = {} THEN pc ELSE killed_in
    /\ Goto("invoke_atexit")
    /\ UNCHANGED <<at, list, atexit_functions, status, auth, plugin, terminal>>

Startup ==
    \/ RegisterTries \/ LoadPlugin \/ RegisterUnload \/ ResolveDependencies
    \/ StartPlugin \/ RollbackPlugin \/ RollbackDone \/ StartDone \/ RegisterEnd
    \/ IsATty \/ SecureTerminal \/ RegisterRestore

Saving ==
    \/ SavePlugin \/ SaveFailed \/ SaveDone
    \/ SaveAbortPlugin \/ SaveAbortDone

(* The steps that wait for the person at the keyboard. *)
Keyboard == AwaitKey \/ WakeKey \/ Authenticate

Shutdown ==
    \/ InvokeAtexit \/ DisplayAuthTries \/ RestoreTerminal
    \/ EndPlugin \/ EndDone \/ UnrefPlugin \/ UnlinkPlugin \/ UnloadDone
    \/ DeleteLink \/ Die

Terminated == pc = "dead" /\ UNCHANGED vars

Next ==
    \/ Startup \/ Saving \/ Keyboard \/ Shutdown
    \/ \E s \in Signals : Terminate(s)
    \/ Terminated

(* The process keeps running; nobody has to press a key or send a signal. *)
Spec == Init /\ [][Next]_vars /\ WF_vars(Startup) /\ WF_vars(Saving) /\ WF_vars(Shutdown)

-----------------------------------------------------------------------------
(* Properties                                                              *)

Labels ==
    {"install", "load", "resolve", "start", "rollback", "register_end", "isatty",
     "secure", "register_restore", "message", "save", "save_failed", "wake",
     "save_abort", "auth", "invoke_atexit", "display_auth_tries",
     "restore_terminal", "call_end_hook", "unload_plugins", "unlink_plugin",
     "delete_link", "dead"}

Functions == {"display_auth_tries", "unload_plugins", "call_end_hook", "restore_terminal"}

(* Every variable stays in its domain. *)
TypeOK ==
    /\ pc \in Labels
    /\ at \in 0..MaxPlugins + 1
    /\ first \in 1..MaxPlugins + 1 /\ count \in 0..MaxPlugins
    /\ first <= count + 1
    /\ atexit_functions \in Seq(Functions)
    /\ handled \subseteq Signals
    /\ killed_in \in Labels \cup {"nowhere"}
    /\ status \in {"none", "success", "failure"}
    /\ tries \in 0..2 /\ who \in 1..AuthNames
    /\ stage \in [Positions -> {"absent", "loaded", "started", "failed", "ended"}]
    /\ saver \in [Positions -> {"off", "on", "broken", "retired"}]
    /\ save_disabled \in [Positions -> BOOLEAN]
    /\ ends \in [Positions -> Nat]
    /\ freed \in [Positions -> BOOLEAN]
    /\ stdin \in Consoles
    /\ mode \in [Consoles -> {"original", "secured"}]

(* PLUGINS, section HOOKS: the session drives each plugin through the life *)
(* that module PluginLife describes.  Each signal handler may repeat the   *)
(* vlock_end calls of the exit it interrupted, never more than once.       *)
Life(p) == INSTANCE PluginLife
    WITH MaxEnds <- 1 + Cardinality(Signals),
         stage <- stage[p], saver <- saver[p], ends <- ends[p], freed <- freed[p]

PluginLives ==
    /\ \A p \in Positions : Life(p)!Init
    /\ [][\A p \in Positions : [Life(p)!Next]_(Life(p)!life)]_vars

(* Where a first signal finds plugins started that no exit function ends:  *)
(* call_end_hook is registered after the last vlock_start.                 *)
BeforeEndHook == {"start", "rollback", "register_end"}

(* handle_vlock_start and call_end_hook share the work of ending what was  *)
(* started.  No plugin is asked to end without a successful vlock_start,   *)
(* nor more often than once for the rollback or the exit and once for each *)
(* signal that begins the exit anew; and when the process is gone, each    *)
(* plugin started has been asked, unless the first signal came before      *)
(* call_end_hook was registered.  Without a signal that is exactly once.   *)
EndMatchesStart ==
    \A p \in Positions :
        LET was_started == stage[p] \in {"started", "ended"} IN
        /\ ends[p] <= IF was_started THEN 1 + Cardinality(handled) ELSE 0
        /\ pc = "dead" /\ was_started /\ killed_in \notin BeforeEndHook => ends[p] >= 1

(* handle_vlock_start and handle_vlock_end go through the plugins in       *)
(* reverse order, even when an exit is cut short by signals and begun      *)
(* anew: vlock_end reaches a plugin only after it reached, in the same     *)
(* pass, every plugin that was started later.                              *)
EndInReverse ==
    [][\A p \in Positions :
          ends'[p] # ends[p] =>
              \A q \in Positions :
                  q > p /\ stage[q] \in {"started", "ended"} => ends[q] > ends[p]]_vars

(* Whatever ends the process, the terminal has its own flags back.  The    *)
(* plugin that moves standard input to another console makes the order of  *)
(* the exit functions matter.  The one gap is a signal between             *)
(* secure_terminal() and vlock_atexit(restore_terminal).                   *)
TerminalRestored ==
    pc = "dead" /\ killed_in # "register_restore" =>
        \A c \in Consoles : mode[c] = "original"

(* No screen saver covers a password prompt: each saver is off, or its     *)
(* hooks failed and are switched off.                                      *)
NoSaverAtPrompt ==
    pc = "auth" => \A p \in Positions : saver[p] \in {"off", "retired"}

(* A process that has begun to exit, or was sent a fatal signal, ends. *)
ExitCompletes == (status # "none" \/ handled # {}) ~> pc = "dead"

(* PLUGINS 80: vlock_end "is called once after successful authentication   *)
(* or if vlock is killed by SIGTERM".                                      *)
EndCalledIfKilled ==
    pc = "dead" /\ handled # {} =>
        \A p \in Positions : stage[p] # "started"

=============================================================================
