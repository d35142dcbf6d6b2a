---------------------------- MODULE Dependencies ----------------------------
(***************************************************************************)
(* Loading the plugins named on the command line and resolving what they   *)
(* declare about one another: load_plugin() and resolve_dependencies() of  *)
(* plugins.c, one action per round of each of its loops.                   *)
(*                                                                         *)
(* A plugin is its name; names have no directory part.  The lists a plugin *)
(* declares are sets: the order of the names in one of them only decides   *)
(* in which order missing plugins are loaded, and every order is allowed.  *)
(***************************************************************************)
EXTENDS Naturals, Sequences, FiniteSets, SequencesExt

CONSTANTS
    Names,          \* names of plugins
    Arguments,      \* command lines: sequences of names
    Declarations,   \* sets of declarations <<plugin, kind, name>>
    Installations   \* the files installed under each name

Kinds == {"succeeds", "preceeds", "requires", "needs", "depends", "conflicts"}

FileStates == [module : {"none", "ok", "bad"}, script : {"none", "ok", "bad"}]

ASSUME DependenciesAssumption ==
    /\ IsFiniteSet(Names)
    /\ Arguments \subseteq Seq(Names)
    /\ Declarations \subseteq SUBSET (Names \X Kinds \X Names)
    /\ Installations \subseteq [Names -> FileStates]

VARIABLES
    pc,                 \* the loop that runs
    at,                 \* its position in plugins
    argv,               \* the command line
    args,               \* what is left of it
    declared,           \* what the plugins declare
    files,              \* what is installed
    plugins,            \* the list of loaded plugins
    required_plugins,   \* the members of that list
    error               \* why loading or resolving failed, or "none"

input == <<argv, declared, files>>
vars == <<pc, at, args, input, plugins, required_plugins, error>>

Loaded == ToSet(plugins)

Dependencies(p, kind) == {d \in Names : <<p, kind, d>> \in declared}

Init ==
    /\ pc = "load" /\ at = 1
    /\ argv \in Arguments /\ args = argv
    /\ declared \in Declarations
    /\ files \in Installations
    /\ plugins = <<>>
    /\ required_plugins = {}
    /\ error = "none"

Fail(why) ==
    /\ error' = why
    /\ pc' = "done"

NextLoop(label) ==
    /\ at > Len(plugins)
    /\ pc' = label
    /\ at' = 1
    /\ UNCHANGED <<args, input, plugins, required_plugins, error>>

-----------------------------------------------------------------------------
(* __load_plugin(): a module is tried first; a script only if there is no  *)
(* module of that name.                                                    *)
NoSuchModule(name) == files[name].module = "none"
ModuleOpens(name) == files[name].module = "ok"
CanBeOpened(name) ==
    \/ ModuleOpens(name)
    \/ NoSuchModule(name) /\ files[name].script = "ok"

Missing(names) == names \ Loaded

LoadArgument ==
    /\ pc = "load" /\ args # <<>>
    /\ \E new \in SetToSeqs(Missing({Head(args)})) :
          IF \A name \in ToSet(new) : CanBeOpened(name)
          THEN /\ plugins' = plugins \o new
               /\ args' = Tail(args)
               /\ UNCHANGED <<pc, error>>
          ELSE Fail("load") /\ UNCHANGED <<plugins, args>>
    /\ UNCHANGED <<at, input, required_plugins>>

LoadDone ==
    /\ pc = "load" /\ args = <<>>
    /\ pc' = "requires"
    /\ UNCHANGED <<at, args, input, plugins, required_plugins, error>>

-----------------------------------------------------------------------------
(* __resolve_depedencies()                                                 *)

(* Load what plugin p requires; what is loaded here is appended and gets   *)
(* its turn later.  The plugin put down as required is p itself.           *)
RequirePlugin ==
    /\ pc = "requires" /\ at <= Len(plugins)
    /\ LET p == plugins[at]
           names == Dependencies(p, "requires")
           able == {name \in Missing(names) : CanBeOpened(name)}
       IN  \/ /\ able = Missing(names)
              /\ \E new \in SetToSeqs(able) : plugins' = plugins \o new
              /\ required_plugins' = required_plugins \cup {q \in {p} : names # {}}
              /\ at' = at + 1
              /\ UNCHANGED <<pc, error>>
           \/ /\ able # Missing(names)
              /\ \E some \in SUBSET able : \E new \in SetToSeqs(some) :
                    plugins' = plugins \o new
              /\ Fail("requires")
              /\ UNCHANGED <<at, required_plugins>>
    /\ UNCHANGED <<args, input>>

RequiresDone == pc = "requires" /\ NextLoop("needs")

(* Mutant: the plugin that needs the others is put down as required. *)
NeedPlugin_Self ==
    /\ pc = "needs" /\ at <= Len(plugins)
    /\ LET names == Dependencies(plugins[at], "needs")
       IN  /\ names \subseteq Loaded
           /\ required_plugins' = required_plugins \cup {q \in {plugins[at]} : names # {}}
           /\ at' = at + 1
           /\ UNCHANGED <<pc, error>>
    /\ UNCHANGED <<args, input, plugins>>

(* What plugin p needs must be loaded and may not be unloaded below. *)
NeedPlugin ==
    /\ pc = "needs" /\ at <= Len(plugins)
    /\ LET names == Dependencies(plugins[at], "needs")
       IN  \/ /\ names \subseteq Loaded
              /\ required_plugins' = required_plugins \cup names
              /\ at' = at + 1
              /\ UNCHANGED <<pc, error>>
           \/ /\ ~(names \subseteq Loaded)
              /\ Fail("needs")
              /\ UNCHANGED <<at, required_plugins>>
    /\ UNCHANGED <<args, input, plugins>>

NeedsDone == pc = "needs" /\ NextLoop("depends")

KeepPlugin ==
    /\ pc = "depends" /\ at <= Len(plugins)
    /\ Dependencies(plugins[at], "depends") \subseteq Loaded
    /\ at' = at + 1
    /\ UNCHANGED <<pc, args, input, plugins, required_plugins, error>>

(* Mutant: the prerequisites are not looked at. *)
DropPlugin_Any ==
    /\ pc = "depends" /\ at <= Len(plugins)
    /\ plugins[at] \notin required_plugins
    /\ plugins' = RemoveAt(plugins, at)
    /\ UNCHANGED <<at, pc, error, args, input, required_plugins>>

(* A plugin some prerequisite of which is missing is unloaded; it is an    *)
(* error if it was put down as required.                                   *)
DropPlugin ==
    /\ pc = "depends" /\ at <= Len(plugins)
    /\ ~(Dependencies(plugins[at], "depends") \subseteq Loaded)
    /\ \/ /\ plugins[at] \in required_plugins
          /\ Fail("depends")
          /\ UNCHANGED plugins
       \/ /\ plugins[at] \notin required_plugins
          /\ plugins' = RemoveAt(plugins, at)
          /\ UNCHANGED <<pc, error>>
    /\ UNCHANGED <<at, args, input, required_plugins>>

DependsDone == pc = "depends" /\ NextLoop("conflicts")

ConflictPlugin ==
    /\ pc = "conflicts" /\ at <= Len(plugins)
    /\ \/ /\ Dependencies(plugins[at], "conflicts") \cap Loaded = {}
          /\ at' = at + 1
          /\ UNCHANGED <<pc, error>>
       \/ /\ Dependencies(plugins[at], "conflicts") \cap Loaded # {}
          /\ Fail("conflicts")
          /\ UNCHANGED at
    /\ UNCHANGED <<args, input, plugins, required_plugins>>

ConflictsDone == pc = "conflicts" /\ NextLoop("sort")

-----------------------------------------------------------------------------
(* sort_plugins()                                                          *)

get_edges ==
    {e \in Loaded \X Loaded :
        <<e[1], "preceeds", e[2]>> \in declared \/ <<e[2], "succeeds", e[1]>> \in declared}

(* tsort() as TopologicalOrder specifies it: any order with the edges      *)
(* forward, or failure if there is a circle.                               *)
Forward(s) == \A i, j \in 1..Len(s) : <<s[i], s[j]>> \in get_edges => i < j

Circular ==
    \E S \in (SUBSET Loaded) \ {{}} : \A q \in S : \E p \in S : <<p, q>> \in get_edges

SortPlugins ==
    /\ pc = "sort"
    /\ \/ /\ ~Circular
          /\ plugins' \in {s \in SetToSeqs(Loaded) : Forward(s)}
          /\ pc' = "done"
          /\ UNCHANGED error
       \/ /\ Circular
          /\ Fail("circular")
          /\ UNCHANGED plugins
    /\ UNCHANGED <<at, args, input, required_plugins>>

Finished == pc = "done" /\ UNCHANGED vars

Next ==
    \/ LoadArgument \/ LoadDone
    \/ RequirePlugin \/ RequiresDone
    \/ NeedPlugin \/ NeedsDone
    \/ KeepPlugin \/ DropPlugin \/ DependsDone
    \/ ConflictPlugin \/ ConflictsDone
    \/ SortPlugins \/ Finished

Spec == Init /\ [][Next]_vars /\ WF_vars(Next)

-----------------------------------------------------------------------------
(* Properties                                                              *)

Resolved == pc = "done" /\ error = "none"

(* PLUGINS 41: what a loaded plugin needs is loaded, although plugins are  *)
(* unloaded after the check that says so.                                  *)
NeedsMet ==
    Resolved => \A p \in Loaded : Dependencies(p, "needs") \subseteq Loaded

(* PLUGINS 52: no two loaded plugins conflict, whichever of them says so. *)
NoConflicts ==
    Resolved => \A p \in Loaded : Dependencies(p, "conflicts") \cap Loaded = {}

(* Plugins that were asked for, on the command line or by a loaded plugin  *)
(* that requires them, are loaded; the only excuse is that a plugin they   *)
(* depend on is not.                                                       *)
DroppedForAReason ==
    Resolved =>
        \A p \in ToSet(argv) \cup UNION {Dependencies(q, "requires") : q \in Loaded} :
            p \in Loaded \/ ~(Dependencies(p, "depends") \subseteq Loaded)

(* PLUGINS 59-63: the final order is the one "preceeds" and "succeeds" ask *)
(* for.                                                                    *)
OrderAsDeclared ==
    Resolved =>
        \A i, j \in 1..Len(plugins) :
            \/ plugins[j] \in Dependencies(plugins[i], "preceeds")
            \/ plugins[i] \in Dependencies(plugins[j], "succeeds")
            => i < j

(* What a successful resolution keeps of the declarations.                 *)
DeclarationsKept == NeedsMet /\ NoConflicts /\ OrderAsDeclared

(* The plugins asked for and everything they require, directly or not:     *)
(* the smallest set that holds both.                                       *)
Wanted ==
    LET closed == {S \in SUBSET Names :
                      /\ ToSet(argv) \subseteq S
                      /\ \A p \in S : Dependencies(p, "requires") \subseteq S}
    IN  {p \in Names : \A S \in closed : p \in S}

CanWork ==
    /\ \A p \in Wanted :
          /\ CanBeOpened(p)
          /\ Dependencies(p, "needs") \cup Dependencies(p, "depends") \subseteq Wanted
          /\ Dependencies(p, "conflicts") \cap Wanted = {}
    /\ ~\E S \in (SUBSET Wanted) \ {{}} : \A q \in S : \E p \in S :
          q \in Dependencies(p, "preceeds") \/ p \in Dependencies(q, "succeeds")

(* Resolving does not fail, and unloads nothing, when the plugins wanted   *)
(* can all be loaded and agree with one another.                           *)
SucceedsIfPossible ==
    pc = "done" /\ CanWork => error = "none" /\ Loaded = Wanted

(* PLUGINS 35: "The plugins listed here must be loaded for the declaring   *)
(* plugin to work."                                                        *)
RequiresMet ==
    Resolved => \A p \in Loaded : Dependencies(p, "requires") \subseteq Loaded

=============================================================================
