# vlock: a verification project

vlock locks one or more sessions on the Linux console. `vlock.sh` reads the
configuration and starts `vlock-main`, a small setuid program that loads
plugins, secures the terminal and asks for passwords. These modules model
`vlock-main`: the order of its steps, its plugins, its child processes, what
signals do to it, and the algorithms inside it; the screen savers it runs; and
the way from a command line and its settings to the program started. Paths below
are relative to the repository.

## 1. The system

`vlock-main` is one process with one thread. It is nevertheless concurrent in
three ways: fatal signals run a handler between any two steps and clean up from
there; plugin scripts and screen savers run in child processes that it talks to
through pipes and kills by signals and timers; and the kernel asks it for
permission to switch consoles by signals.

| Component | State | Operations | Talks to |
|---|---|---|---|
| Lock session (`src/vlock-main.c`, `src/util.c`, `src/signals.c`, `src/terminal.c`) | list of exit functions, terminal flags, `auth_tries` | start up, lock loop, exit, fatal signal | plugin hooks, prompt, authentication |
| Plugin hooks (`src/plugins.c`) | list of plugins, `save_disabled` of each | `vlock_start`, `vlock_end`, `vlock_save`, `vlock_save_abort`, unload | modules and scripts |
| Plugin dependencies (`src/plugins.c`) | list of plugins being completed | load, load required ones, check needs, unload dependents, check conflicts, sort | module and script loading, `tsort` |
| Topological sort (`src/tsort.c`) | nodes without predecessor, remaining edges | `tsort` | |
| Plugin objects (`src/plugin.c`, `src/module.c`) | name, dependencies, hook context | open, call hook, finalize | `dlopen` |
| Scripts (`src/script.c`) | launched, dead, pipe, process id | read dependencies, launch, send hook name, finalize | child processes |
| Child processes (`src/process.c`) | child, timer, `SIGALRM` disposition, descriptors | create, wait for death, ensure death | kernel |
| Console switching (`src/console_switch.c`) | VT mode, signal dispositions, `console_switch_locked` | lock, unlock, answer the kernel | kernel |
| Prompt (`src/prompt.c`) | terminal flags, line buffer | read a character or a line with a timeout | terminal |
| Authentication (`src/auth-pam.c`, `src/auth-shadow.c`) | PAM conversation | `auth` | prompt, PAM or shadow |
| Console plugins (`modules/all.c`, `new.c`, `nosysrq.c`) | saved console, saved SysRq mode | the four hooks | console switching |
| Screen saver plugins (`modules/cmatrix.c`, `train.c`, `wetpipes.c`, `info_box.c` and others) | saver child; in it the picture and the size of the terminal | `vlock_save`, `vlock_save_abort`; in the child one frame, a change of size | child processes, terminal |
| Front end (`src/vlock.sh`, `src/vlock-config.c`) | positional parameters, shell variables and which are exported | take the command line apart, merge settings, compose messages, exec | `vlock-main`, savers (by the environment) |

Where the behaviour is hard, and what correctness means there:

- **Lock session.** One thread, but a fatal signal may arrive between any two
  steps and cleans up from there. Exit functions must undo exactly what was
  done, in reverse; the terminal must get its flags back on the right console;
  the rollback of a failed start and the exit must not both end a plugin.
- **Plugin hooks.** Each plugin relies on an order of calls: one `vlock_start`,
  rounds of `vlock_save` and `vlock_save_abort`, then `vlock_end`; after an error
  of a save hook neither is called again. No saver may cover a prompt.
- **Plugin dependencies.** Lists are changed while they are walked, and a check
  made in one loop must still hold after the next has unloaded something.
- **Topological sort.** Repeated edges, loops, circles; failure exactly if there
  is a circle.
- **Scripts.** The other side may be late, deaf or dead at any moment; the pipe
  may be full between two writes; reading has a deadline over several rounds.
- **Child processes.** Races of the child's death with timers and signals; six
  system calls that may fail after one another; descriptors that must neither
  leak nor keep a pipe open.
- **Console switching.** The kernel asks by signals from the moment the mode is
  set; the plugins must be in the right order or vlock waits for itself.
- **Prompt, authentication.** Nested changes of terminal flags, a wait restarted
  by signals, keys typed at the wrong moment, a conversation that fails half way.
- **Screen saver plugins.** The child must be dead before vlock gives the terminal
  back, also if it ignores signals. In the child, the size of the terminal changes
  under a picture that keeps rows and columns from frame to frame, and the saver
  must never stop, run out of a table or draw in the wrong place.
- **Front end.** The words of the command line are rewritten while they are read.
  Five sources set the same variables, and an empty value is a value. The key that
  wakes the screen is named in three programs.

## 2. Modules

| Module | Models | State | Actions |
|---|---|---|---|
| `PluginLife` | what a plugin may expect (abstract) | stage, saver, number of `vlock_end` calls, freed | one per hook, loading, dropping, unloading |
| `Session` | `main()`, `auth_loop()`, the hook handlers, exit functions, `terminate()`, terminal flags | control label, plugin list, list of exit functions, terminal flags per console | one per statement or loop round, plus `Terminate(s)` |
| `TopologicalOrder` | what `sort_plugins()` expects of `tsort()` (abstract) | graph, order, verdict | place a node, succeed, fail |
| `TSort` | `tsort()` | edges, zeros, sorted nodes, loop position | one per round of each loop, that of `get_zeros()` included |
| `Dependencies` | `load_plugin()`, `resolve_dependencies()` | plugin list, `required_plugins`, loop and position, error | one per round of each loop |
| `ProcessDeath` | `wait_for_death()`, `ensure_death()` | child, timer, `SIGALRM` action, pc | one per system call, plus the child and the timer |
| `CreateChild` | `create_child()` in parent and child | descriptors of both, status pipe, pcs | one per system call or group with one outcome |
| `Children` | a child from `create_child()` to its death, with what savers, scripts and tests do around it | that of the two, whether curses has the terminal | those of the two, plus the hooks' steps before, between and after |
| `ScriptDependencies` | `vlock_script_open()`, `read_dependency()`, `parse_dependency()` | data read, timeout left, script's output | create, select, read, parse, plus the script |
| `Script` | `vlock_script_call_hook()`, `_launch()`, `_finalize()` | flags, pipe, `SIGPIPE` action | one per system call, plus the script and a fatal signal |
| `ScriptLife` | a script from opening to finalizing | that of the two | those of the two, plus loading |
| `Prompt` | `prompt()`, `prompt_echo_off()`, `wait_for_character()`, `read_character()` | terminal flags and their saved copies, input queue, buffer, error | one per system call or loop round, plus a typing user, a hangup, a signal |
| `Authentication` | `auth()` of both variants, `conversation()` | messages, responses, error of the conversation, result | one per call between PAM and vlock, plus the steps of `Prompt` |
| `Console` | `console_switch.c`, hooks of `all`, `new`, `nosysrq` | active console, its mode, `SIGUSR1/2`, SysRq, stdin | one per system call, plus the user |
| `Matrix` | one column of `cmatrix_main()` | the rows that hold characters, the bright ones, length and blanks | a frame, a change of size |
| `Pipes` | `wetpipes_main()`, `compute_pipes()`, `update_bubbles()`, what `draw_frame()` shows | pipes, surface, one bubble | a frame, a change of size |
| `Train` | `train_main()`, `add_D51()`, `add_smoke()` | column of the engine, its height, number of the next puff, one puff | a step, a pass, a change of size |
| `InfoBox` | `info_box_draw()` | the box, the cells that show parts of one | relocate, stay, a change of size |
| `Pictures` | one of these four | theirs, with a common screen | theirs |
| `CommandLine` | the `while` loop of `main()` in `vlock.sh` | `"$@"`, plugins, three variables | one per `case` |
| `Settings` | `~/.vlockrc`, `read_config()`, `set_default()`, `vlock-config`, `build_messages()`, `export_if_set()` | shell variables, export flags, commands to be evaluated | one per step of the script, one per default |
| `FrontEnd` | `vlock.sh` from start to `exec` | that of the two | theirs, plus `exec` |

Composition: `Session` and `Script` instantiate `PluginLife`, `Session` as what
it implements for each plugin, `Script` as the caller that drives it: what
`Session` is shown to guarantee is what `Script` assumes, with the same bound on the
calls of `vlock_end`, one more than the number of signals, in both. `TSort` instantiates
`TopologicalOrder` as what it implements, and `Dependencies` sorts by that
promise. `Children` composes `CreateChild` and `ProcessDeath`: the process that
one makes is the one the other ends, in the state it was left in, and the callers'
steps stand around them. `Script` and `ScriptDependencies` take the outcomes of
these two (a child or an error; a child that is reaped) as single steps, and
`ScriptLife` composes them: only a script whose dependencies could be read is
ever launched. `Authentication` extends `Prompt`, which it calls as a subroutine;
its result is the step `Authenticate` of `Session`.
`Console` takes the order of hooks from `handle_vlock_start` and
`handle_vlock_end`, and the order of its plugins from the declarations in them.
`Pictures` follows one of the four pictures at a time, since they meet only on
the screen. `FrontEnd` composes `CommandLine` and `Settings`, whose order is that
of `vlock.sh`. Theorems about a module stand in `<module>_proofs`, which extends it
(section 4); those about `TSort` stand in `Dependencies_proofs`, which extends both.

### How state and actions correspond to the code

`Session.pc` names the place in `main()`, `auth_loop()` or an exit function;
`at` is the list pointer of the loop that runs; `first..count` is what is left of
the GList `plugins`, in sorted order. `atexit_functions` is the GList of
`util.c` with the function to be called first in front. `Terminate(s)` is the
entry of the handler: since it ends by raising its own signal with the action
reset, the code it interrupted never continues, so the action overwrites `pc` and
leaves the data. Signal masks allow a handler of another signal on top of it,
which the model allows once per signal. `PluginLife` is stated over what a
plugin sees: hooks called, not fields of the program.

In `Dependencies` a plugin is its name; `files` says whether there is a module, a
script or both of this name and whether it can be opened: a script is looked at
only when there is no such module, and a broken module is an error. Lists of
names in one declaration are sets, and the order in which several missing ones
are loaded is left open.

In `ProcessDeath`, `CreateChild`, `Script`, `ScriptDependencies`, `Prompt` and
`Console` an action is a system call (or several between which nothing of interest can
happen), and the other side, the script, child, timer, user or kernel, acts
between any two. Script output, hook names, keys, pipes and error codes are tokens.
Time in `ScriptDependencies` is a small number of units that each `select()` may
use up.

In the pictures an action is a round of the main loop. A column of `Matrix` is the
set of rows that hold a character; what `val` and `bold` are beyond what the code
tests is left out. `Pipes` follows one bubble, `Train` one puff: no two of them
share a place in memory, and which one is followed is not fixed. Random numbers are
any value of their range. `InfoBox` keeps what the terminal shows of boxes apart
from what the code remembers. `Resize` of `Train` and `InfoBox` is what ncurses does
in `getch()`; the other two savers have a handler of their own.

`FrontEnd` represents a word of the command line as the sequence of its symbols, so
that taking clusters apart is modelled by what it does; a symbol is a character, the
two dashes a word begins with, or the name of a long option. `expr`, which the loop
calls on letters and arguments, fails when it puts out nothing or zero (`IsNull`), and
`set -e` then ends `vlock.sh`. Settings are strings, of
which only the tests in the code matter. `exported` is the export flag of the shell:
`~/.vlockrc` assigns without setting it, `set_default` sets it, and what
`vlock-main` sees is `Seen`. Of the front end's variables those with a way of their
own are followed (`Names`); `VLOCK_PROMPT_TIMEOUT`, the two of cmatrix and
`VLOCK_CURRENT_MESSAGE` go the way of `TIMEOUT`, `TRAIN_RANDOM` and `ALL_MESSAGE`.

## 3. Runs

All passing runs are exhaustive for their bounds.

| Run | States | Question |
|---|---|---|
| `session` | 135 600 | Up to three plugins, each hook succeeding or failing, two different fatal signals at any two points. `PluginLives` is the refinement: each plugin lives as `PluginLife` says. `EndMatchesStart` and `EndInReverse` relate start, rollback, exit and the exits that signals begin anew; `TerminalRestored` the exit functions and the plugin that moves standard input; `NoSaverAtPrompt` any number of rounds of saving; `ExitCompletes` that every exit ends. |
| `dependencies` | 1 929 000 | Three plugins in all states of installation and every set of up to three declarations: what holds after a successful resolution (`DeclarationsKept`: needs met, no conflicts, the order declared), that nothing is unloaded without need (`DroppedForAReason`), and that it succeeds whenever the plugins wanted agree (`SucceedsIfPossible`). |
| `tsort` | 72 900 | All lists of up to three edges on four nodes: `tsort()` implements `TopologicalOrder` (`SortFollowsOrder`) and returns (`SortReturns`). |
| `children` | 7 500 | Children of savers, scripts and tests: every system call failing or not, a child that runs, is stopped or dead when it is to die and obeys `SIGTERM` or not, a caller with or without alarm and handler. Descriptors are accounted for (`CreationAccounted`, `NoStrayEnds`), alarms come back (`AlarmsKept`), a dead pid is never signalled, the terminal is let go of only after the last process that draws on it is dead (`GivenBack`), the calls return (`CallsReturn`). |
| `script` | 176 000 | The whole life of a script that prints any four letters and blanks as slowly as it likes, and, if it could be opened, reads late, stops reading or exits at any point, with a pipe of three entries and two fatal signals at any points, also while the first is handled or the plugin destroyed. All of its dependencies or an error (`AllOrError`), within timeout and buffer, and an end; then what vlock reports is what it sent, an unfinished name is followed by nothing but the `vlock_end` of a signal (`ReportedIffSent`), and nothing follows a hook the script missed. |
| `authentication` | 1 262 000 | Somebody types four keys at any moments, the terminal may go away, a signal may interrupt: replies (`ReplyIsMeant`), errors (`ErrorTellsWhy`), no response left and the flags back (`NothingRemains`), return (`AuthReturns`). |
| `console` | 2 040 | The console plugins in every order their declarations allow, each system call that can fail doing so or not, on the way back too, a user who asks for other consoles at any moment: no signal kills vlock, it never blocks itself, everything is put back that the kernel lets it put back. |
| `pictures` | 68 500 | The four pictures on every sequence of changes of size. `InPlace`: white characters lead their streams; pipes stand on the bricks, apart from each other and under water, bubbles are drawn on water over their pipe; the engine is on the screen and its tables hold. `NoGhost`: no part of a box outside the place that is blanked next. `StreamsFall`: a frame moves every stream down by one row and changes nothing else about it. `KeepsMoving`: no picture freezes. |
| `front_end` | 283 000 | Every command line of up to three words of sixteen (of four words of six, of two words at the borders of the patterns), and a few with all settings. `ParsedAsMeant`: the loop, which rewrites its input, does what reading the words from the left to the right would do. `RightValueWins`: options, then `~/.vlockrc`, then the environment, then the file, whose first entry counts; an empty value is a value. `MessageNamesKey`: the message and the box name the key that is waited for. |

Three runs check what a document says and find it violated (section 6).

### Bounds, and why they are enough

Bounds limit the runs only; the theorems of section 4 need none of them.

- `MaxPlugins = 3`: a plugin in the middle of the list has one on either side, so
  order, rollback and a skipped element show; two signals are one handler
  interrupting another, with the terminal moved by the second plugin.
- Dependencies: three names make chains, a circle of two and of three and a
  plugin that is required and dropped; each known fault needs at most three
  declarations.
- `tsort`: three edges make a circle with a tail, a double edge and a loop.
- `LINE_MAX` is 4 in the run. The assumption that it is more than 1 (POSIX: at least
  2048) is needed: a limit of one has `read()` return 0, which is taken for the end.
- `PipeSize = 3`: a name may fit without its newline; three saves fill it. Two fatal
  signals: the second breaks into the `vlock_end` of the first, or into the
  destruction of the plugin.
- Dependencies of scripts: `LINE_MAX = 4` with four characters makes the limit
  hit exactly; two kinds stand for six runs, the first of which decides whether
  the script exists; a timeout of two can be used up in two rounds.
- Keys: four, with a buffer of two. Three fill the buffer, or type, erase and enter;
  with the fourth an erase key can meet a key that was typed ahead in canonical mode
  behind one that was read (a, a, erase, enter): an invariant that forgot this case
  held with three. Two conversations of two messages make an answer that is there when
  the next one fails and a call after an error. `MaxKeys` and `MaxSignals` also say
  that nobody types or sends signals for ever, which `AuthReturns` needs: each
  restarts the timeout.
- Consoles: the one vlock is started on, a free one, another.
- Children: what a user of the functions does differs in which streams are
  redirected, whether a function or a program runs, and how the child is ended;
  there is one user for each combination in the code.
- Heights of `Matrix` are 5, which the saver takes for 10, and 11: a column has
  room for two or three streams, and changes of size go both ways.
- `MCPipesSizes` has a screen below the minimum, one on which two pipes of full
  width just fit (33 columns), one for three (51), and one where they get thinner.
- `MaxSmoke` is 3 and not 1000: an engine of the length it has in the code makes more
  than twenty puffs on a pass, so the numbers start again many times.
- `BoxWidth = 4` on five screens, two of which have no room for the box.
- `MCSymbols` and `MCValues` hold what the command lines, settings and files of the run
  consist of. Words of the command line: an option of each kind, clusters of each shape, an
  assignment to an option that takes one and to one that does not, a double dash,
  plain and empty words. `OddWords` are those at the border of a pattern: an empty
  argument, a zero, a second equals sign, no name, a zero or a dash in a cluster.

### Fairness

Only what the scheduler and the kernel owe a running process is fair: vlock's own
steps, timers that expire, deadly signals that kill (`SIGKILL`, and `SIGTERM`
where it is not ignored), the child's steps inside `create_child()`, and PAM
coming to a decision; and the rounds of a saver's main loop, which sleeps between
two frames and waits for nothing. Nothing is assumed of the user, of signals, of scripts or
of what a child does after it was started. `Session` is fair for its start, its
saver rounds and its exit, not for the steps that wait for a key. Where a run has
`CHECK_DEADLOCK FALSE` the modelled call returns and nothing is left to happen.
`KeepsMoving` excepts a terminal whose size never stops changing, which makes cmatrix
start from an empty screen each time.

## 4. Proofs

The theorems stand in a module of their own beside each component
(`Session_proofs` for `Session`, and so on). They hold for every value of the
constants that the named assumption of the component allows, so they need none of
the bounds of section 3. Each proof has the same shape: a predicate `Inv` with
`Init => Inv` and one lemma per action (or group of actions) for
`Inv /\ [Next]_vars => Inv'`; the property follows from `Inv`, or, if it is
about steps, from `Inv` and the definition of the action. The runs check the same
properties on small instances.

| Module | Theorems (property) | Holds for |
|---|---|---|
| `Session_proofs` | `TypeCorrect`, `SaversAreOff` (`NoSaverAtPrompt`), `SessionImplementsLives` (`PluginLives`), `EveryStartIsEnded` (`EndMatchesStart`), `EndsAreInReverse` (`EndInReverse`), `TerminalComesBack` (`TerminalRestored`) | any number of plugins, any finite set of signals |
| `Dependencies_proofs` | `ResolutionKeepsDeclarations` (`DeclarationsKept`), `NothingDroppedInVain` (`DroppedForAReason`), `ResolutionSucceeds` (`SucceedsIfPossible`) | any finite set of names, any declarations |
| the same, of `TSort` | `SortImplementsOrder` (`SortFollowsOrder`), `SortedOrderIsRight`, `VerdictRight`, `TSortIsRight`, `PluginsSortedByTsort` | any list of nodes and of edges between them |
| `Children_proofs` | `EveryEndAccounted` (`CreationAccounted`), `ChildHoldsItsOwn` (`NoStrayEnds`), `AlarmsComeBack` (`AlarmsKept`), `SignalsGoToTheChild` (`OnlyChildSignalled`), `TerminalGivenBack` (`GivenBack`) | any choice among the users and the caller's timers |
| `ScriptLife_proofs` | `ReadingIsBounded` (`WithinLimits`), `VlockSurvives` (`SurvivesScripts`), `ScriptsAreGone` (`NothingLeft`), `ReportsAreTrue` (`ReportedIffSent`), `SilenceAfterMiss` (`SilentAfterMiss`), `NothingIsLost` | any output, sizes of pipe and buffer, timeout, number of saves and of signals |
| `Console_proofs` | `SwitchingNeverKills` (`SurvivesSwitching`), `GovernedConsoleStays` (`HeldWhenGoverned`), `WaitsForNobody` (`NotSelfBlocked`), `ConsoleGivenBack` (`EverythingBack`) | any set of consoles with two in it |
| `Authentication_proofs` | `ErrorsTellWhy` (`ErrorTellsWhy`), `NothingIsKept` (`NothingRemains`), `RepliesAreMeant` (`ReplyIsMeant`), `TypeCorrect` | any conversations, number of keys, buffer size |
| `Pictures_proofs` | `TypeCorrect`, `BoxLeavesNoGhost` (`NoGhost`), `AllInPlace` (`InPlace`), `StreamsKeepFalling` (`StreamsFall`) | terminals of any size, any random numbers |
| `FrontEnd_proofs` | `OptionsAreMeant` (`ParsedAsMeant`), `SourcesInOrder` (`RightValueWins`), `MessageIsRight` (`MessageNamesKey`) | command lines of any length over any symbols (but see section 5 for `expr`), any values, environments, `~/.vlockrc`, configuration files |

The argument of each:

**Session** (`SessionAssumption`). `IInv` is the type part and four more. `ExitInv`
says which exit functions are registered where control is; because functions are
registered in one order, the list is always one of five. `StageInv` says how far
each plugin is: while `vlock_end` may be called, all plugins of the list have been
started and none was freed. `EndsInv` counts: every pass of an exit adds at most
one `vlock_end` per plugin, and there are at most one exit and one pass per signal
handler, which needs that handled signals are a finite subset. `SaverInv` describes
the list to the left and right of the position that a round of saving has
reached. `NoSaverAtPrompt` alone is not inductive: that all savers are off when
the loop over `vlock_save_abort` ends needs what the loop has left behind it, and
this needs what the loop over `vlock_save` left. Three parts are added on top of
`IInv`, one for each of the other theorems. `PendingInv`: while an exit function is
still to end a plugin that was started, it is registered or running and has not
passed that plugin (`EndPending`); a signal begins anew with the same list, so once the
process is gone every such plugin has been asked at least once, unless the first signal
came before the function was registered. That it was not asked more often is counted by
`EndsInv`. `ReverseInv`: exits that were cut short leave later
plugins with at least as many calls as earlier ones, so that whoever is called next
is the last one with the fewest. `ModeInv`: a console has secured flags only if it is
that of standard input and `restore_terminal()` is going to run, except for a signal
before it is registered. The refinement has one step per action that touches a
plugin, all others stutter.

**Dependencies** (`DependenciesAssumption`: names are finite). `DependenciesInv`
follows the plugin list through the loops of `resolve_dependencies()`. The hazard is
that a check made in one loop is undone when a later one unloads something.
`NeedsInv` says why it is not: what a plugin that the loop has passed (`Passed`)
needs is put down as required, and what is required is never unloaded.
`ConflictsInv` holds because after the loop over `depends` the list only changes its
order, and `OrderAsDeclared` because nothing follows the sort. `AskedInv` keeps, for
every plugin asked for or required, that it is there or lacks a prerequisite, which
does not come back. `ResolutionSucceeds` has an invariant of its own
(`PossibleInv`): as long as the plugins wanted can be opened and agree, nothing else is
loaded and nothing fails, and once all of them are there none goes; hence the sort
finds no circle. Sorting is one step of this module, with the promise of
`TopologicalOrder`; that `tsort()`, called with the list of plugins and their edges,
keeps it step for step is `PluginsSortedByTsort` below.

**TSort** (`TSortAssumption`: a list without repetition, edges between its nodes).
Each step of `tsort()` is a step of `TopologicalOrder` or changes nothing that
specification speaks of. `SortInv` is what that needs: while zeros are sought, the list
holds the nodes that no edge looked at so far leads to (`FindInv`); afterwards the
zeros and the sorted nodes are those that no edge left leads to, and edges left that
leave a sorted node are those of the last zero that the loop has yet to reach
(`LoopInv`); every node gets into one of the lists once (`OnceInv`). That an order is
right and that failure means a circle is proved of `TopologicalOrder` itself:
`OrderInv` says that no set of nodes in which each waits for another of the set has a
node that was placed. A circle is a non-empty set in which every node has a
predecessor, so the nodes that cannot be placed are their own witness and no path has
to be followed. `TSortIsRight` puts the two together, and `PluginsSortedByTsort` takes
them to where `sort_plugins()` uses them: for the nodes and edges it passes, putting
the result of `tsort()` in place of the list, or failing when an edge is left, is a step
`SortPlugins` of `Dependencies`.

**Children** (`UsersAssumption`). `CreateInv` says at each place of
`create_child()` and of the child which ends of which pipes either holds
(`VlockInv`, `ChildInv`) and that the status pipe speaks only once the child is dead
(`StatusInv`). `AlarmInv` says where action and timer of the caller are while a wait
has its own. `DeathInv`: a child that was waited for is nobody's target any more, and
one that was not is left only after an alarm of the caller and then was sent
`SIGKILL`. `HookInv` ties the hooks around them to both: curses is on exactly in the
phases in which a saver may have a child. `GivenBack` needs all but `AlarmInv`: what
draws when vlock lets go of the terminal would be a child not reaped, or one that
`create_child()` left behind when it failed.

**Scripts** (`ParameterAssumption`). `WithinLimits` is inductive with the sum of
timeout and time gone (`DataInv`). For `ReportedIffSent`, what was reported can
only be compared with what is in the pipe and what was read if the line of the call
under way is counted (`SentInv`), and complete lines only if it is known where one
may be broken (`LineInv`): a name is followed by its newline unless it stays the last
token, because the script is then dead for vlock (`MissInv`), or a signal came,
after which nothing but `vlock_end` follows, with or without its newline, as often as
signals come. That `LineInv` is kept without a signal
needs `SentInv`. `NothingLeft` rests on `ChildInv` and `GoneInv`: before a script is
known to be launched there is a child only while `create_child()` returns, or if a
signal came then. A signal during the destruction itself cuts it short (`pc = "cut"`):
the plugin is off the list, nothing waits for its child any more, and the
property, which speaks of a destruction that is complete, says nothing. `NothingIsLost` has an invariant of its own (`PrintInv`): what was read and
what is in the pipe make up what was printed, and after a reading that found nothing
the script has exited, because `select()` waited for data or the end. It says that
dependencies are taken from exactly all that a script printed, never from a part; what
is left of `AllOrError` is a statement about splitting strings.

**Console** (`ConsolesAssumption`). `OrderInv` is what the declarations leave of
the orders of the plugins: `all` comes last and none comes twice. `AllInv` says what
the mode of the console and the two signals are at each call of `all`; since the
handlers are set before the mode and taken back after it, no signal of a switch ever
meets the default action. `NotSelfBlocked` follows from the order: `new` waits for
a switch only while `all` is not up (`PlaceInv`, `AllInv`). `EverythingBack` adds what
`nosysrq` and `new` remember (`SysrqInv`, `NewInv`), and excepts exactly what a refused
call leaves behind: the mode and the handlers of the console (`stuck`), SysRq
(`sysrq_stuck`).

**Authentication** (`PromptAssumption`, `AuthenticationAssumption`). `FlagsInv`
is a stack: for each place in the nested functions, which flags are set and
which are saved, from the outermost. With `ReplyInv` (a prompt that is over has a
reply or an error, never both), `PlaceInv`, `ErrorInv` (the error of a conversation says whether a
prompt timed out, and no prompt follows it) and `RespInv` (at which places of the
conversation responses exist) it gives both properties. The types
need `BufferInv`, that there is room in the buffer for the character waited for, and
`InputInv`, that `read()` finds the byte `select()` saw. For `ReplyIsMeant` the keys
typed for a prompt are cut in two (`MeansInv`): the first n were read, and the buffer is
what they mean; the others, up to an enter key, are in the queue of the terminal. The
queue can only lose characters by an erase key in canonical mode, which the
property excepts, and what follows an enter key belongs to no reply, since `prompt()`
flushes when it begins and when it ends. What keys mean is a recursive function, one
value for each number of keys; that the recursion has a solution is shown by
the smallest number for which it would not have one.

**Pictures** (`PicturesAssumption`). `PictureInv` is one invariant per picture.
`NoGhost` needs one fact to be inductive: nothing is painted before the box is
placed, for then nothing is blanked. The step that matters is `Stay`: a box pushed
back by a smaller screen covers all that this screen still shows of it. `ColumnInv`
is what a frame of cmatrix must keep, also after a change of size: only the lowest
character of a stream is white. `SceneInv` says that the pipes stand on the bricks,
under the sky and apart, and `BubbleInv` that a bubble is between the surface and its
pipe; both rest on what `compute_pipes()` yields for every size of the terminal
(`LayoutStands`, `StreamsOverShaft`). `EngineInv` bounds the numbers of the puffs.

**Front end** (`CommandLinesAssumption`, `ValuesAssumption`, `SourcesAssumption`). For
the settings, `FrontEndInv` follows a variable through the steps of the script:
before the configuration file it has the value of the latest source that set it
(`Before`); while the defaults are evaluated, one by one, it has its final value or the
first default still to come gives it (`Defaulted`); then it has it (`Settled`), and those
that `vlock-main` reads are exported (`Exported`). `MessageNamesKey` follows because,
but for the case `KeyHidden` of section 6, the message is built from the value that is
exported.
For the command line, what a line means is defined by reading its words, and the
letters of a cluster, from the left to the right, while the loop takes words off the
front, puts letters of a cluster back there and moves plain words to the end.
`ReadingInv` says for every round how far the loop is in that reading (n words, and
perhaps some letters of a cluster or a long option with its argument), that its
variables have what was read so far, and that `args` is what remains of
the present word, then the words ahead, then the words moved behind. When the loop ends
n is the number of words. With a double dash among the words only the bag of plain words
is kept, which needs that concatenation in another order has the same counts.

### Only model-checked

- All liveness: `ExitCompletes`, `SortReturns`, `CallsReturn`, `OpenEnds`,
  `AuthReturns`, `KeepsMoving`. No prover here handles fairness and `ENABLED`.
- `AllOrError`: `NothingIsLost` proves that the whole output of a script is what gets
  split. That splitting it after stripping it yields its words is a fact about all
  strings; `split()` and `Words` are defined by `SortSeq` and `SelectSeq`, of which
  the prover has no definition, and TLC compares them for every output of the run.
- `end_if_killed`, `requires_met` and `wait_returns` are violated.

## 5. What is not modelled

- Of the savers: the engines and modes of `train.c` that nothing selects (`LOGO`,
  `C51`, `FLY`, `ACCIDENT`), old-style scrolling and the keys of `cmatrix.c` (its
  child reads `/dev/null`), colours, the columns smoke drifts through. A second
  change of size while `resize_screen()` handles the first is not followed: the flag
  is cleared after the call, so it is lost (`wetpipes.c:826`, `cmatrix.c:481`). Nor
  is the `exit(0)` with which `resize_screen()` of `cmatrix.c` ends the saver when the
  terminal has no name, cannot be opened or does not tell its size
  (`cmatrix.c:227-240`).
- A failing allocation in `read_character()` (`prompt.c:175`), which waits without a
  timeout then: `AuthReturns` is about a prompt whose timeout was allocated.
- Words that `expr` takes for its own operators: a cluster whose letters, or what is
  left of them, are `(`, `+`, `match` or the like (`vlock.sh:208`) ends `vlock.sh` or
  is misread, and `.` matches as an option letter (`vlock.sh:213`). No symbol of
  `CommandLine` stands for them.
- `caca.c`, which does not compile: it calls `create_child()` with one argument.
  `ttyblank` and `vesablank` (an ioctl, an external command), `example_module`.
- Of plugin objects: construction and end of the GObjects, `dlopen` itself; what
  opening one looks for and can fail with is part of `Dependencies`, hooks of `Session`.
- `cJSON.c` (vendored), `logging.c`, stock scripts, build files, tests.
- The branch of `main()` without plugin support, FreeBSD, plugin names with a
  directory part, device names in `new`, the sleep for X.

Worth knowing: nobody but vlock waits for its children. The console that `all`
locks is that of standard input, which need not be the active one if the user has
changed consoles since; the model allows it, and `HeldWhenGoverned` speaks of the
active console while its mode is set. A user may switch away between `VT_ACTIVATE`
and `VT_WAITACTIVE`, which then waits for that user; `NotSelfBlocked` says only that
vlock is never what it waits for. PAM refuses
after a failed conversation with one of the four codes `auth()` lists, since any
other one fails the assertion at `auth-pam.c:204`.

## 6. Where code and documents disagree

Shown by runs:

- `end_if_killed`: a `SIGTERM` after a `vlock_start` hook and before `call_end_hook`
  is registered (`vlock-main.c:268`) ends vlock without `vlock_end`.
- `requires_met`: the requiring plugin, not the required one, is put down as
  required (`plugins.c:209`); a required plugin can be unloaded in silence.
- `wait_returns`: an alarm between `setitimer()` and `waitpid()` is lost
  (`process.c:63-66`), and the wait has no limit.

Seen while modelling, without a run of their own:

- `PLUGINS:80` says `vlock_end` is called once. A signal while `call_end_hook` runs
  finds it still in front of the list (`util.c:66-67`) and calls it again;
  `PluginLives` bounds the calls by one more than the number of signals. Likewise
  `unload_plugins()` may drop an object twice (`plugins.c:92-93`).
- A signal while a saver is on ends vlock with `vlock_end` and no
  `vlock_save_abort`.
- A signal between `secure_terminal()` and the registration of `restore_terminal`
  (`vlock-main.c:293-296`) leaves the terminal secured; `TerminalRestored` excepts
  this moment.
- `plugins.c:242` walks the list once: unloading a plugin may take away what an
  earlier one depends on, and that one stays, unlike `PLUGINS:47-49` says.
- `tsort.c:52-54` speaks of edges whose ends are not in the list of nodes, which
  line 87 does not expect; `get_edges()` never makes one.
- A wait for no time at all sets a zero timer, which means no timer, and never
  ends (`process.h:29`).
- When the first `pipe()` of `create_child()` fails, no error is set
  (`process.c:152-155`), which `script.c:108` asserts. A child that could not run
  its program is not waited for and stays a zombie.
- `script.c:20-21` promises one hook per line; a signal between the two writes
  (`script.c:350-353`) puts `vlock_end` behind the unfinished name, and another one
  during that write a second `vlock_end`. A signal while the plugin is destroyed
  leaves the script's process. "Do not retry."
  (`script.c:333`) is not what the flags do: only the order of hooks prevents a
  second launch.
- `PLUGINS:146-147` separates dependencies by arbitrary white space; two blanks
  in a row make an empty name (`script.c:204`), which no plugin has.
- `prompt.c:92-95` says the kernel performs no line editing; between two characters
  the terminal is in canonical mode again: an erase key typed then deletes what was
  typed ahead, if anything was, instead of what is in the buffer. `ReplyIsMeant`
  excepts it (`lost`).
- `vlock.sh:203-205` says that an option letter with an argument takes the rest of its
  cluster "if it isn't already the last one"; if it is, `-at 10` still makes `-t` with
  an empty argument and a plugin `10`. `vlock train -t` takes the `--` that moving
  `train` has put there as the argument, and a plain word before `-t --` makes the
  loop endless, since `has_double_dash` stays set. `ParsedAsMeant` excepts these
  (`Ordinary`). With an explicit `--` the plain words come out in another order.
- 0 disables the box (`vlock.sh:63-64`), but `--info-box=0` ends `vlock.sh` without
  locking and without a message, since `expr` fails on a zero (`vlock.sh:241`) under
  `set -e`; so do `--timeout=0` and `-a0`. `--info-box 0` works. A dash among the
  letters of a cluster becomes `--` (`-a-h` is `-a -- -h`). `ParsedAsMeant` excepts
  all of these (`Ordinary`); the run has them (`OddWords`).
- When the old SysRq value cannot be written back (`nosysrq.c:103-106`) vlock only
  reports it, and SysRq stays off; `EverythingBack` excepts it.
- `vlock.sh:147-148` says the message matches the keys `vlock-main` accepts; a
  `VLOCK_WAKE_KEY` in `~/.vlockrc` is not exported unless another source has one, and
  only the message follows it (`KeyHidden`).
- If the configuration directory exists but cannot be written to, `set -e` ends
  `vlock.sh` without locking (`vlock.sh:122-123`).
- After a failed `create_child()` the savers' `vlock_save()` returns with curses on
  (`wetpipes.c:216`), and `vlock_save_abort()` does nothing then. The child of a
  saver inherits vlock's handlers for fatal signals; those of `cmatrix` and `wetpipes`
  for `SIGINT` and `SIGWINCH` stay installed after the module is unloaded. A fatal
  signal leaves the child running.
- `wetpipes.c:168` asks for three cells between pipes; slots are rounded down after
  the test, and on 33 columns there is one. `wetpipes.c:498` says the width of a shaft
  is even; it is always odd. `wetpipes.c:64` calls `:` the fastest bubble, its period
  is the second. `wetpipes.c:543` leaves a column free on the left only.
- In rainbow mode of `cmatrix.c` the colour belongs to the column: an older stream
  changes its colour when a new one starts, unlike lines 675-677 say.
- Puffs of `train.c` that are forgotten when the table is full stay on the screen
  until something is drawn over them.
- `console_switch_locked` is never reset (`console_switch.c:111`); it is only read
  before the lock message.

## 7. Plan

Done, in this order: `PluginLife` and `Session`, `Dependencies`,
`TopologicalOrder` and `TSort`, `ProcessDeath`, `CreateChild`, `Script`,
`ScriptDependencies`, `Console`, `Prompt` and `Authentication`; then `Children` and
`ScriptLife`, which compose what was apart, the pictures, and the front end; then
the proofs of section 4.

What is left needs other means than these: the liveness properties and the string half
of `AllOrError` (section 4), and the second change of size inside a handler of the
first (section 5).
