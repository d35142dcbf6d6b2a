------------------------- MODULE ScriptDependencies -------------------------
(***************************************************************************)
(* Opening a script (script.c): it is run once for each kind of dependency *)
(* and prints the names of other plugins, which vlock reads with a timeout *)
(* and a limit and splits at white space.  The script prints when it likes *)
(* and may exit, or just linger, at any point.                             *)
(***************************************************************************)
EXTENDS Naturals, SequencesExt

CONSTANTS
    Outputs,        \* what a script may mean to print: sequences of letters
                    \* and blanks
    Kinds,          \* nr_dependencies: how often the script is run
    Timeout,        \* the time for reading, in ticks
    LINE_MAX        \* the limit for reading

blank == " "

VARIABLES
    i, pc,              \* which run, and where it is
    proc, says, out,    \* the script: "none", "running" or "exited"; what it
                        \* will print, and what it has and vlock has not read
    data, timeout,      \* what was read; the time left
    items,              \* the lists of dependencies
    outcome,            \* "none", "opened", "not_found" or "failed"
    printed, elapsed    \* history: all the script printed; time waited

script == <<proc, says, out, printed>>
vars == <<i, pc, script, data, timeout, items, outcome, elapsed>>

Init == /\ i = 1 /\ pc = "create_child"
        /\ proc = "none" /\ says = <<>> /\ out = <<>> /\ printed = <<>>
        /\ data = <<>> /\ timeout = Timeout /\ elapsed = 0
        /\ items = <<>>
        /\ outcome = "none"

-----------------------------------------------------------------------------
(* Run the script for the next dependency.  There being no such script is   *)
(* told apart from other errors, but only the first time.                   *)
CreateChild ==
    /\ pc = "create_child"
    /\ \/ /\ proc' = "running" /\ says' \in Outputs /\ out' = <<>> /\ printed' = <<>>
          /\ data' = <<>> /\ timeout' = Timeout /\ elapsed' = 0
          /\ pc' = "select"
          /\ UNCHANGED outcome
       \/ /\ \E error \in {"not_found", "failed"} :
                outcome' = IF error = "not_found" /\ i = 1 THEN "not_found" ELSE "failed"
          /\ pc' = "done"
          /\ UNCHANGED <<script, data, timeout, elapsed>>
    /\ UNCHANGED <<i, items>>

(* select() returns when there is something to read or the end of it, after *)
(* t ticks; it gives up, or comes too late, when the time is over.          *)
Readable == out # <<>> \/ proc = "exited"

(* Mutant: a script that says no more has said all. *)
Select_EndsData ==
    /\ pc = "select"
    /\ \/ /\ Readable
          /\ \E t \in 0..timeout : timeout' = timeout - t /\ elapsed' = elapsed + t
          /\ pc' = "read"
       \/ pc' = "parse" /\ UNCHANGED <<timeout, elapsed>>
    /\ UNCHANGED <<i, script, data, items, outcome>>

(* Mutant: no timeout. *)
Select_Forever ==
    /\ pc = "select"
    /\ Readable
    /\ \E t \in 0..timeout : timeout' = timeout - t /\ elapsed' = elapsed + t
    /\ pc' = "read"
    /\ UNCHANGED <<i, script, data, items, outcome>>

Select ==
    /\ pc = "select"
    /\ \/ /\ Readable
          /\ \E t \in 0..timeout : timeout' = timeout - t /\ elapsed' = elapsed + t
          /\ pc' = "read"
       \/ pc' = "error" /\ UNCHANGED <<timeout, elapsed>>
    /\ UNCHANGED <<i, script, data, items, outcome>>

(* read() takes what there is, up to one less than the limit.               *)
Chunk == SubSeq(out, 1, IF Len(out) < LINE_MAX THEN Len(out) ELSE LINE_MAX - 1)

(* Mutant: no room is left for the terminating NUL. *)
Read_NoTerminator ==
    /\ pc = "read"
    /\ out' = SubSeq(out, Len(Chunk) + 1, Len(out))
    /\ CASE Chunk = <<>> -> pc' = "parse" /\ UNCHANGED data
         [] Len(data) + Len(Chunk) > LINE_MAX -> pc' = "error" /\ UNCHANGED data
         [] OTHER -> data' = data \o Chunk /\ pc' = "select"
    /\ UNCHANGED <<i, proc, says, printed, timeout, items, outcome, elapsed>>

Read ==
    /\ pc = "read"
    /\ out' = SubSeq(out, Len(Chunk) + 1, Len(out))
    /\ CASE Chunk = <<>> -> pc' = "parse" /\ UNCHANGED data
         [] Len(data) + Len(Chunk) + 1 > LINE_MAX -> pc' = "error" /\ UNCHANGED data
         [] OTHER -> data' = data \o Chunk /\ pc' = "select"
    /\ UNCHANGED <<i, proc, says, printed, timeout, items, outcome, elapsed>>

(* Either way the pipe is closed and the script waited for and killed, see  *)
(* ProcessDeath.                                                            *)
Error == /\ pc = "error"
         /\ proc' = "none"
         /\ outcome' = "failed"
         /\ pc' = "done"
         /\ UNCHANGED <<i, says, out, printed, data, timeout, items, elapsed>>

-----------------------------------------------------------------------------
(* parse_dependency(): strip the data and cut it at every blank.            *)
strip(s) == LET letters == {k \in DOMAIN s : s[k] # blank}
            IN  IF letters = {} THEN <<>> ELSE SubSeq(s, Min(letters), Max(letters))

split(s) == LET cuts == <<0>> \o SetToSortSeq({k \in DOMAIN s : s[k] = blank}, <)
                              \o <<Len(s) + 1>>
            IN  IF s = <<>> THEN <<>>
                ELSE [k \in 1..Len(cuts) - 1 |-> SubSeq(s, cuts[k] + 1, cuts[k + 1] - 1)]

Parse == /\ pc = "parse"
         /\ items' = Append(items, split(strip(data)))
         /\ proc' = "none"
         /\ \/ i = Kinds /\ outcome' = "opened" /\ pc' = "done" /\ UNCHANGED i
            \/ i < Kinds /\ i' = i + 1 /\ pc' = "create_child" /\ UNCHANGED outcome
         /\ UNCHANGED <<says, out, printed, data, timeout, elapsed>>

-----------------------------------------------------------------------------
Say == /\ proc = "running"
       /\ says # <<>>
       /\ says' = Tail(says)
       /\ out' = Append(out, Head(says))
       /\ printed' = Append(printed, Head(says))
       /\ UNCHANGED <<i, pc, proc, data, timeout, items, outcome, elapsed>>

Exit == /\ proc = "running"
        /\ proc' = "exited"
        /\ UNCHANGED <<i, pc, says, out, printed, data, timeout, items, outcome, elapsed>>

Open == CreateChild \/ Select \/ Read \/ Error \/ Parse

Next == Open \/ Say \/ Exit

-----------------------------------------------------------------------------
(* The longest runs of letters. *)
Words(s) == SelectSeq(split(s), LAMBDA w : w # <<>>)

=============================================================================
