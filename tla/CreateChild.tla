----------------------------- MODULE CreateChild -----------------------------
(***************************************************************************)
(* create_child() of process.c: pipes are made, the child is forked, sorts *)
(* out its descriptors, gives up its privileges and runs a program or a    *)
(* function; a status pipe tells vlock whether the program could be run.   *)
(* After the fork both processes run, in any order.                        *)
(***************************************************************************)
EXTENDS Naturals, FiniteSets

CONSTANT Redirected     \* sets of standard streams that shall become pipes

Streams == {"stdin", "stdout", "stderr"}

VARIABLES
    piped,          \* the streams that shall become pipes
    what,           \* "program" or "function"
    pc, cpc,        \* what vlock and the child do next
    vlock, child,   \* the ends of pipes they have open
    status,         \* what is in the status pipe: "nothing" or an errno
    result, error   \* of create_child()

outcome == <<result, error>>
vars == <<piped, what, pc, cpc, vlock, child, status, outcome>>

(* Both ends of a pipe, and the end of it that a child or vlock uses.       *)
Ends(s) == {<<s, "read">>, <<s, "write">>}
ChildEnd(s) == IF s = "stdin" THEN <<s, "read">> ELSE <<s, "write">>
VlockEnd(s) == IF s = "stdin" THEN <<s, "write">> ELSE <<s, "read">>

(* The pipe of another script that vlock runs already.                      *)
other == <<"other", "write">>

AllEnds == {other} \union UNION {Ends(s) : s \in Streams \union {"status"}}

TypeOK == /\ piped \in Redirected
          /\ pc \in {"status", "stdin", "stdout", "stderr", "fork", "close", "read", "done"}
          /\ cpc \in {"none", "dup2", "setuid", "run", "running", "exited"}
          /\ vlock \subseteq AllEnds /\ child \subseteq AllEnds
          /\ status \in {"nothing", "ENOENT", "EACCES"}
          /\ result \in BOOLEAN
          /\ error \in {"none", "failed", "not_found"}

Init == /\ piped \in Redirected
        /\ what \in {"program", "function"}
        /\ pc = "status" /\ cpc = "none"
        /\ vlock = {other} /\ child = {}
        /\ status = "nothing"
        /\ result = FALSE /\ error = "none"

-----------------------------------------------------------------------------
(* vlock *)

(* The labels at the end: close the pipes made so far and fail.             *)
(* Mutant: the pipes of the child's streams are left open. *)
CleanUp_StatusOnly(made) == /\ vlock' = vlock \ Ends("status")
                            /\ result' = FALSE
                            /\ pc' = "done"

CleanUp(made) == /\ vlock' = vlock \ UNION {Ends(s) : s \in made \union {"status"}}
                 /\ result' = FALSE
                 /\ pc' = "done"

StatusPipe ==
    /\ pc = "status"
    /\ \/ vlock' = vlock \union Ends("status") /\ pc' = "stdin" /\ UNCHANGED result
       \/ vlock' = vlock /\ pc' = "done" /\ result' = FALSE
    /\ UNCHANGED <<piped, what, cpc, child, status, error>>

(* A stream is made a pipe if it shall be; the pipes before it are s's.     *)
MakePipe(stream, before, then) ==
    /\ pc = stream
    /\ \/ /\ vlock' = IF stream \in piped THEN vlock \union Ends(stream) ELSE vlock
          /\ pc' = then
          /\ UNCHANGED outcome
       \/ /\ stream \in piped
          /\ CleanUp(piped \intersect before)
          /\ error' = "failed"
    /\ UNCHANGED <<piped, what, cpc, child, status>>

StreamPipe == \/ MakePipe("stdin", {}, "stdout")
              \/ MakePipe("stdout", {"stdin"}, "stderr")
              \/ MakePipe("stderr", {"stdin", "stdout"}, "fork")

Fork == /\ pc = "fork"
        /\ \/ /\ child' = vlock
              /\ cpc' = "dup2"
              /\ pc' = "close"
              /\ UNCHANGED <<vlock, outcome>>
           \/ /\ CleanUp(piped)
              /\ error' = "failed"
              /\ UNCHANGED <<child, cpc>>
        /\ UNCHANGED <<piped, what, status>>

CloseStatus == /\ pc = "close"
               /\ vlock' = vlock \ {<<"status", "write">>}
               /\ pc' = "read"
               /\ UNCHANGED <<piped, what, cpc, child, status, outcome>>

(* read() returns an errno, or nothing once nobody can write any more.      *)
ReadStatus ==
    /\ pc = "read"
    /\ \/ /\ status # "nothing"
          /\ CleanUp(piped)
          /\ error' = IF status = "ENOENT" THEN "not_found" ELSE "failed"
       \/ /\ status = "nothing" /\ <<"status", "write">> \notin child
          /\ vlock' = (vlock \ {<<"status", "read">>}) \ {ChildEnd(s) : s \in piped}
          /\ result' = TRUE
          /\ pc' = "done"
          /\ UNCHANGED error
    /\ UNCHANGED <<piped, what, cpc, child, status>>

-----------------------------------------------------------------------------
(* The child *)

(* dup2() for each stream, then close everything else but the status pipe.  *)
(* Mutant: what vlock had open stays open in the child. *)
SortOutDescriptors_Keep ==
    /\ cpc = "dup2"
    /\ cpc' = "setuid"
    /\ UNCHANGED <<piped, what, pc, vlock, child, status, outcome>>

SortOutDescriptors ==
    /\ cpc = "dup2"
    /\ child' = {ChildEnd(s) : s \in piped} \union {<<"status", "write">>}
    /\ cpc' = "setuid"
    /\ UNCHANGED <<piped, what, pc, vlock, status, outcome>>

DropPrivileges == /\ cpc = "setuid"
                  /\ \/ cpc' = "run" /\ UNCHANGED child
                     \/ cpc' = "exited" /\ child' = {}
                  /\ UNCHANGED <<piped, what, pc, vlock, status, outcome>>

(* The status pipe is closed by a successful execv() or before the function *)
(* runs; if execv() fails its errno is sent through it.                     *)
(* Mutant: the status pipe is open while a function runs. *)
Run_KeepStatus ==
    /\ cpc = "run"
    /\ \/ /\ child' = IF what = "program" THEN child \ {<<"status", "write">>} ELSE child
          /\ cpc' = "running"
          /\ UNCHANGED status
       \/ /\ what = "program"
          /\ status' \in {"ENOENT", "EACCES"}
          /\ child' = {}
          /\ cpc' = "exited"
    /\ UNCHANGED <<piped, what, pc, vlock, outcome>>

Run ==
    /\ cpc = "run"
    /\ \/ /\ child' = child \ {<<"status", "write">>}
          /\ cpc' = "running"
          /\ UNCHANGED status
       \/ /\ what = "program"
          /\ status' \in {"ENOENT", "EACCES"}
          /\ child' = {}
          /\ cpc' = "exited"
    /\ UNCHANGED <<piped, what, pc, vlock, outcome>>

(* The child exits or is killed, whatever it is doing.                      *)
Exit == /\ cpc \in {"dup2", "setuid", "run", "running"}
        /\ cpc' = "exited"
        /\ child' = {}
        /\ UNCHANGED <<piped, what, pc, vlock, status, outcome>>

Vlock == StatusPipe \/ StreamPipe \/ Fork \/ CloseStatus \/ ReadStatus

Child == SortOutDescriptors \/ DropPrivileges \/ Run

Next == Vlock \/ Child \/ Exit

-----------------------------------------------------------------------------
(* vlock keeps the ends of the pipes it shall use, and after an error none. *)
DescriptorsAccounted ==
    pc = "done" => vlock = {other} \union (IF result THEN {VlockEnd(s) : s \in piped} ELSE {})

(* What runs in the child has no end of a pipe but its own streams: a       *)
(* script whose pipe vlock closes reads the end of it, whatever other       *)
(* children are alive.                                                      *)
NoStrayEnds == cpc = "running" => child \subseteq {ChildEnd(s) : s \in piped}

(* An error means that nothing was or will be run, and a missing program is *)
(* told apart from one that could not be run.                               *)
VerdictMatches ==
    pc = "done" => /\ error # "none" => cpc \in {"none", "exited"}
                   /\ error = "not_found" <=> status = "ENOENT"
                   /\ result => status = "nothing"
=============================================================================
