-------------------------- MODULE Children_proofs --------------------------
(***************************************************************************)
(* Theorems about Children for any choice of users, and of the caller's    *)
(* timers and actions for SIGALRM.                                         *)
(***************************************************************************)
EXTENDS Children, TLAPS

-----------------------------------------------------------------------------
(* The inductive invariant                                                 *)

(* create_child() has made the pipes M so far; what it does next tells which. *)
Pipes(M) == UNION {C!Ends(s) : s \in M}
MakingPipes == {"stdin", "stdout", "stderr", "fork", "close", "read"}
Made == piped \cap CASE pc = "stdin" -> {}
                     [] pc = "stdout" -> {"stdin"}
                     [] pc = "stderr" -> {"stdin", "stdout"}
                     [] OTHER -> C!Streams

StatusWrite == <<"status", "write">>

VlockInv ==
    /\ pc \in MakingPipes \cup {"status", "done"}
    /\ pc = "status" => vlock = {C!other}
    /\ pc \in MakingPipes =>
          vlock = ({C!other} \cup Pipes(Made \cup {"status"}))
                     \ (IF pc = "read" THEN {StatusWrite} ELSE {})
    /\ C!DescriptorsAccounted

ChildInv ==
    /\ cpc \in {"none", "dup2", "setuid", "run", "running", "exited"}
    /\ pc \in {"status", "stdin", "stdout", "stderr", "fork"} => cpc = "none"
    /\ cpc \in {"dup2", "setuid", "run"} => StatusWrite \in child
    /\ cpc \in {"setuid", "run"} => child = {C!ChildEnd(s) : s \in piped} \cup {StatusWrite}
    /\ C!NoStrayEnds

(* The status pipe says something only once the child is dead, and what it *)
(* says reaches the caller.                                                *)
StatusInv ==
    /\ result \in BOOLEAN /\ status \in {"nothing", "ENOENT", "EACCES"}
    /\ status # "nothing" => cpc = "exited"
    /\ pc # "done" => ~result /\ error = "none"
    /\ pc = "done" =>
          /\ cpc \in {"none", "running", "exited"}
          /\ result => status = "nothing" /\ error = "none"
          /\ ~result => cpc \in {"none", "exited"}
          /\ error = "not_found" <=> status = "ENOENT"

CreateInv == piped \subseteq C!Streams /\ VlockInv /\ ChildInv /\ StatusInv

(* wait_for_death() has its own action, and possibly its own timer.        *)
OwnAction == {"setitimer", "waitpid", "blocked", "reset_timer", "reset_action"}
OwnTimer == {"waitpid", "blocked", "reset_timer"}

AlarmInv ==
    /\ timer \in {"off", "own", "caller"} /\ otimer \in {"off", "own", "caller"}
    /\ oldact \in {"default", "handler"}
    /\ action = IF dpc \in OwnAction THEN "ignore_sigalarm" ELSE oldact
    /\ timer = "own" => dpc \in OwnTimer
    /\ otimer # "own"
    /\ otimer = "caller" /\ dpc \notin OwnTimer => timer = "caller" \/ rang # "no"

(* A child that was waited for is nobody's target any more; one that was   *)
(* not is left behind only by an alarm, and then is killed already.        *)
DeathInv ==
    /\ dpc \in D!PCs
    /\ process \in {"running", "stopped", "zombie", "reaped"}
    /\ call \in D!AllCalls /\ waits \in {call, "ensure_death"} /\ died \in BOOLEAN
    /\ waits = "ensure_death" => call \in {"ensure_death", "script"}
    /\ died => process = "reaped"
    /\ process = "reaped" =>
          \/ dpc \in {"reset_timer", "reset_action"} /\ died
          \/ dpc \in {"done", "killed"}
    /\ dpc \in {"check", "sigterm", "sigkill", "sigcont", "reap"} =>
          call \in {"ensure_death", "script"}
    /\ dpc \in {"sigcont", "reap"} => "SIGKILL" \in signals
    /\ dpc = "done" /\ call \in {"ensure_death", "script"} =>
          process = "reaped" \/ (rang = "handled" /\ timer = "off" /\ "SIGKILL" \in signals)

(* The hooks around both.                                                  *)
HookInv ==
    /\ user \in AllUsers /\ call = CallOf(user)
    /\ phase \in {"open", "create", "use", "dispose", "close", "over"}
    /\ phase = "open" => pc = "status" /\ ~curses
    /\ user = "saver" /\ phase \in {"create", "use", "dispose", "close"} => curses
    /\ user # "saver" => ~curses /\ phase \notin {"open", "close"}
    /\ phase \in {"use", "dispose", "close"} => pc = "done" /\ result
    /\ phase \in {"open", "create", "use"} => dpc \in {"check", "sigaction"} /\ process = "running"
    /\ phase = "close" => dpc = "done"
    /\ phase = "over" => pc = "done"
    /\ phase = "over" /\ result => dpc = "done" /\ ~curses

ChildrenInv == CreateInv /\ AlarmInv /\ DeathInv /\ HookInv

USE UsersAssumption DEF AllUsers, MakingPipes, StatusWrite, OwnAction, OwnTimer

-----------------------------------------------------------------------------
(* Lemmas about the ends of pipes                                          *)

LEMMA PipesMembers ==
    \A M, e : e \in Pipes(M) <=> \E s \in M : e = <<s, "read">> \/ e = <<s, "write">>
BY DEF Pipes, C!Ends

LEMMA PipesUnion == \A M, N : Pipes(M \cup N) = Pipes(M) \cup Pipes(N)
BY PipesMembers

LEMMA PipesOfOne == \A s : Pipes({s}) = C!Ends(s)
BY DEF Pipes

LEMMA CloseAll ==
    ASSUME NEW M \in SUBSET C!Streams, NEW V,
           \/ V = {C!other} \cup Pipes(M \cup {"status"})
           \/ V = ({C!other} \cup Pipes(M \cup {"status"})) \ {StatusWrite}
    PROVE  V \ UNION {C!Ends(s) : s \in M \cup {"status"}} = {C!other}
<1>1. \A s \in M \cup {"status"} : s # "other"
  BY DEF C!Streams
<1>2. C!other \notin Pipes(M \cup {"status"}) /\ C!other # StatusWrite
  BY <1>1, PipesMembers DEF C!other
<1>3. UNION {C!Ends(s) : s \in M \cup {"status"}} = Pipes(M \cup {"status"})
  BY DEF Pipes
<1> QED BY <1>2, <1>3

LEMMA KeepMine ==
    ASSUME piped \subseteq C!Streams,
           vlock = ({C!other} \cup Pipes(piped \cup {"status"})) \ {StatusWrite}
    PROVE  (vlock \ {<<"status", "read">>}) \ {C!ChildEnd(s) : s \in piped}
               = {C!other} \cup {C!VlockEnd(s) : s \in piped}
<1>1. \A s \in piped : s # "status" /\ s # "other"
  BY DEF C!Streams
<1>2. \A s \in piped : C!Ends(s) = {C!ChildEnd(s), C!VlockEnd(s)} /\ C!ChildEnd(s) # C!VlockEnd(s)
  BY DEF C!Ends, C!ChildEnd, C!VlockEnd
<1>3. \A s, t \in piped : C!ChildEnd(s) # C!VlockEnd(t)
  BY DEF C!ChildEnd, C!VlockEnd
<1>4. Pipes(piped) = {C!ChildEnd(s) : s \in piped} \cup {C!VlockEnd(s) : s \in piped}
  BY <1>2 DEF Pipes
<1>5. Pipes(piped \cup {"status"}) = Pipes(piped) \cup {<<"status", "read">>, StatusWrite}
  BY PipesUnion, PipesOfOne DEF C!Ends
<1>6. \A s \in piped : C!VlockEnd(s) # <<"status", "read">> /\ C!VlockEnd(s) # StatusWrite
  BY <1>1 DEF C!VlockEnd
<1>7. C!other # <<"status", "read">> /\ C!other # StatusWrite
      /\ \A s \in piped : C!ChildEnd(s) # C!other
  BY <1>1 DEF C!other, C!ChildEnd
<1> QED BY <1>3, <1>4, <1>5, <1>6, <1>7

LEMMA MadeAt ==
    ASSUME piped \subseteq C!Streams
    PROVE  /\ pc = "stdin" => Made = {}
           /\ pc = "stdout" => Made = piped \cap {"stdin"}
           /\ pc = "stderr" => Made = piped \cap {"stdin", "stdout"}
           /\ pc \in {"fork", "close", "read"} => Made = piped
           /\ Made \subseteq piped
BY DEF Made

-----------------------------------------------------------------------------
(* create_child()                                                          *)

(* Closing every pipe made so far and failing, before there is a child     *)
(* that could run.                                                         *)
LEMMA CleanUpStep ==
    ASSUME CreateInv, pc \in MakingPipes, C!CleanUp(Made),
           UNCHANGED <<piped, cpc, child, status>>, cpc \in {"none", "exited"},
           error' \in {"failed", "not_found"},
           error' = "not_found" <=> status = "ENOENT"
    PROVE  CreateInv'
<1>1. Made \in SUBSET C!Streams
  BY MadeAt DEF CreateInv
<1>2. vlock' = {C!other} /\ ~result' /\ pc' = "done"
  BY <1>1, CloseAll DEF CreateInv, VlockInv, C!CleanUp
<1>3. VlockInv'
  BY <1>2 DEF VlockInv, C!DescriptorsAccounted
<1>4. ChildInv'
  BY <1>2 DEF CreateInv, ChildInv, C!NoStrayEnds
<1>5. StatusInv'
  BY <1>2 DEF CreateInv, StatusInv, C!CleanUp
<1> QED BY <1>3, <1>4, <1>5 DEF CreateInv

(* Before the fork another pipe is made, or none is wanted.                *)
LEMMA PipeStep == CreateInv /\ (C!StatusPipe \/ C!StreamPipe) => CreateInv'
<1> SUFFICES ASSUME CreateInv, C!StatusPipe \/ C!StreamPipe PROVE CreateInv'
  OBVIOUS
<1>0. piped \subseteq C!Streams /\ VlockInv /\ ChildInv /\ StatusInv
      /\ UNCHANGED <<piped, cpc, child, status>>
      /\ pc \in {"status", "stdin", "stdout", "stderr"} /\ cpc = "none"
  BY DEF CreateInv, ChildInv, C!StatusPipe, C!StreamPipe, C!MakePipe
<1>1. ASSUME pc' \in {"stdin", "stdout", "stderr", "fork"}, UNCHANGED <<result, error>>,
             vlock' = {C!other} \cup Pipes(Made' \cup {"status"})
      PROVE  CreateInv'
  <2>1. VlockInv'
    BY <1>1 DEF VlockInv, C!DescriptorsAccounted
  <2>2. ChildInv' /\ StatusInv'
    BY <1>0, <1>1 DEF ChildInv, StatusInv, C!NoStrayEnds
  <2> QED BY <1>0, <2>1, <2>2 DEF CreateInv
<1>2. CASE C!StatusPipe
  <2>1. vlock = {C!other} /\ pc = "status" /\ ~result /\ error = "none" /\ error' = error
    BY <1>0, <1>2 DEF VlockInv, StatusInv, C!StatusPipe
  <2>2. CASE vlock' = vlock \cup C!Ends("status") /\ pc' = "stdin" /\ UNCHANGED result
    <3>1. Made' = {}
      BY <2>2 DEF Made
    <3> QED BY <1>1, <2>1, <2>2, <3>1, PipesOfOne
  <2>3. CASE vlock' = vlock /\ pc' = "done" /\ result' = FALSE
    <3>1. VlockInv'
      BY <2>1, <2>3 DEF VlockInv, C!DescriptorsAccounted
    <3>2. ChildInv' /\ StatusInv'
      BY <1>0, <2>1, <2>3 DEF ChildInv, StatusInv, C!NoStrayEnds
    <3> QED BY <1>0, <3>1, <3>2 DEF CreateInv
  <2> QED BY <1>2, <2>2, <2>3 DEF C!StatusPipe
<1>3. ASSUME NEW stream, NEW before, NEW then, C!MakePipe(stream, before, then),
             stream \in {"stdin", "stdout", "stderr"}, then \in {"stdout", "stderr", "fork"},
             Made = piped \cap before,
             pc' = then => Made' = Made \cup (piped \cap {stream})
      PROVE  CreateInv'
  <2>1. vlock = {C!other} \cup Pipes(Made \cup {"status"}) /\ pc = stream
    BY <1>0, <1>3 DEF VlockInv, C!MakePipe
  <2>2. CASE /\ vlock' = IF stream \in piped THEN vlock \union C!Ends(stream) ELSE vlock
             /\ pc' = then
             /\ UNCHANGED C!outcome
    <3>1. vlock' = {C!other} \cup Pipes(Made' \cup {"status"})
      <4>1. CASE stream \in piped
        <5>1. Made' \cup {"status"} = (Made \cup {"status"}) \cup {stream}
          BY <1>3, <2>2, <4>1
        <5>2. vlock' = {C!other} \cup (Pipes(Made \cup {"status"}) \cup Pipes({stream}))
          BY <2>1, <2>2, <4>1, PipesOfOne
        <5> QED BY <5>1, <5>2, PipesUnion
      <4>2. CASE stream \notin piped
        <5>1. Made' = Made
          BY <1>3, <2>2, <4>2
        <5> QED BY <2>1, <2>2, <4>2, <5>1
      <4> QED BY <4>1, <4>2
    <3> QED BY <1>1, <1>3, <2>2, <3>1 DEF C!outcome
  <2>3. CASE C!CleanUp(piped \cap before) /\ error' = "failed"
    <3>1. status # "ENOENT"
      BY <1>0 DEF StatusInv
    <3> QED BY <1>0, <1>3, <2>1, <2>3, <3>1, CleanUpStep
  <2> QED BY <1>3, <2>2, <2>3 DEF C!MakePipe
<1>4. CASE C!MakePipe("stdin", {}, "stdout")
  <2>1. pc = "stdin" /\ Made = piped \cap {}
    BY <1>0, <1>4, MadeAt DEF C!MakePipe
  <2>2. pc' = "stdout" => Made' = Made \cup (piped \cap {"stdin"})
    BY <1>0, <2>1 DEF Made
  <2> QED BY <1>3, <1>4, <2>1, <2>2
<1>5. CASE C!MakePipe("stdout", {"stdin"}, "stderr")
  <2>1. pc = "stdout" /\ Made = piped \cap {"stdin"}
    BY <1>0, <1>5, MadeAt DEF C!MakePipe
  <2>2. pc' = "stderr" => Made' = Made \cup (piped \cap {"stdout"})
    BY <1>0, <2>1 DEF Made
  <2> QED BY <1>3, <1>5, <2>1, <2>2
<1>6. CASE C!MakePipe("stderr", {"stdin", "stdout"}, "fork")
  <2>1. pc = "stderr" /\ Made = piped \cap {"stdin", "stdout"}
    BY <1>0, <1>6, MadeAt DEF C!MakePipe
  <2>2. pc' = "fork" => Made' = Made \cup (piped \cap {"stderr"})
    BY <1>0, <2>1 DEF Made, C!Streams
  <2> QED BY <1>3, <1>6, <2>1, <2>2
<1> QED BY <1>2, <1>4, <1>5, <1>6 DEF C!StreamPipe

LEMMA ForkStep == CreateInv /\ (C!Fork \/ C!CloseStatus \/ C!ReadStatus) => CreateInv'
<1> SUFFICES ASSUME CreateInv, C!Fork \/ C!CloseStatus \/ C!ReadStatus PROVE CreateInv'
  OBVIOUS
<1>0. piped \subseteq C!Streams /\ VlockInv /\ ChildInv /\ StatusInv
      /\ UNCHANGED <<piped, status>> /\ pc \in {"fork", "close", "read"} /\ Made = piped
      /\ ~result /\ error = "none"
  <2>1. piped \subseteq C!Streams /\ VlockInv /\ ChildInv /\ StatusInv
        /\ UNCHANGED <<piped, status>> /\ pc \in {"fork", "close", "read"}
    BY DEF CreateInv, C!Fork, C!CloseStatus, C!ReadStatus
  <2> QED BY <2>1, MadeAt DEF StatusInv
<1>1. pc' \in {"close", "read"} => Made' = piped
  BY <1>0 DEF Made
<1>2. CASE C!Fork
  <2>1. vlock = {C!other} \cup Pipes(piped \cup {"status"}) /\ cpc = "none" /\ pc = "fork"
    BY <1>0, <1>2 DEF VlockInv, ChildInv, C!Fork
  <2>2. CASE child' = vlock /\ cpc' = "dup2" /\ pc' = "close" /\ UNCHANGED <<vlock, C!outcome>>
    <3>1. UNCHANGED <<vlock, result, error>>
      BY <2>2 DEF C!outcome
    <3>2. VlockInv'
      BY <1>1, <2>1, <2>2, <3>1 DEF VlockInv, C!DescriptorsAccounted
    <3>3. StatusWrite \in child'
      <4>1. StatusWrite \in Pipes(piped \cup {"status"})
        BY PipesMembers
      <4> QED BY <2>1, <2>2, <4>1
    <3>4. ChildInv' /\ StatusInv'
      BY <1>0, <2>1, <2>2, <3>1, <3>3 DEF ChildInv, StatusInv, C!NoStrayEnds
    <3> QED BY <1>0, <3>2, <3>4 DEF CreateInv
  <2>3. CASE C!CleanUp(piped) /\ error' = "failed" /\ UNCHANGED <<child, cpc>>
    <3>1. status # "ENOENT"
      BY <1>0, <2>1 DEF StatusInv
    <3> QED BY <1>0, <2>1, <2>3, <3>1, CleanUpStep
  <2> QED BY <1>2, <2>2, <2>3 DEF C!Fork
<1>3. CASE C!CloseStatus
  <2>1. pc = "close" /\ pc' = "read" /\ UNCHANGED <<cpc, child, result, error>>
        /\ vlock' = ({C!other} \cup Pipes(piped \cup {"status"})) \ {StatusWrite}
    BY <1>0, <1>3 DEF VlockInv, C!CloseStatus, C!outcome
  <2>2. VlockInv'
    BY <1>0, <1>1, <2>1 DEF VlockInv, C!DescriptorsAccounted
  <2>3. ChildInv' /\ StatusInv'
    BY <1>0, <2>1 DEF ChildInv, StatusInv, C!NoStrayEnds
  <2> QED BY <1>0, <2>2, <2>3 DEF CreateInv
<1>4. CASE C!ReadStatus
  <2>1. pc = "read" /\ UNCHANGED <<cpc, child>>
        /\ vlock = ({C!other} \cup Pipes(piped \cup {"status"})) \ {StatusWrite}
    BY <1>0, <1>4 DEF VlockInv, C!ReadStatus
  <2>2. CASE /\ status # "nothing" /\ C!CleanUp(piped)
             /\ error' = IF status = "ENOENT" THEN "not_found" ELSE "failed"
    <3>1. cpc = "exited"
      BY <1>0, <2>2 DEF StatusInv
    <3> QED BY <1>0, <2>1, <2>2, <3>1, CleanUpStep
  <2>3. CASE /\ status = "nothing" /\ StatusWrite \notin child
             /\ vlock' = (vlock \ {<<"status", "read">>}) \ {C!ChildEnd(s) : s \in piped}
             /\ result' = TRUE /\ pc' = "done" /\ UNCHANGED error
    <3>1. vlock' = {C!other} \cup {C!VlockEnd(s) : s \in piped}
      BY <1>0, <2>1, <2>3, KeepMine
    <3>2. VlockInv'
      BY <1>0, <2>3, <3>1 DEF VlockInv, C!DescriptorsAccounted, C!VlockEnd
    <3>3. cpc \in {"none", "running", "exited"}
      BY <1>0, <2>3 DEF ChildInv
    <3>4. ChildInv' /\ StatusInv'
      BY <1>0, <2>1, <2>3, <3>3 DEF ChildInv, StatusInv, C!NoStrayEnds
    <3> QED BY <1>0, <3>2, <3>4 DEF CreateInv
  <2> QED BY <1>4, <2>2, <2>3 DEF C!ReadStatus
<1> QED BY <1>2, <1>3, <1>4

LEMMA ChildStep == CreateInv /\ (C!Child \/ C!Exit) => CreateInv'
<1> SUFFICES ASSUME CreateInv, C!Child \/ C!Exit PROVE CreateInv'
  OBVIOUS
<1>0. piped \subseteq C!Streams /\ VlockInv /\ ChildInv /\ StatusInv
      /\ UNCHANGED <<piped, pc, vlock, result, error>>
      /\ cpc \in {"dup2", "setuid", "run", "running"}
  BY DEF CreateInv, C!Child, C!Exit, C!SortOutDescriptors, C!DropPrivileges, C!Run, C!outcome
<1>1. VlockInv'
  <2>1. Made' = Made
    BY <1>0 DEF Made
  <2> QED BY <1>0, <2>1 DEF VlockInv, C!DescriptorsAccounted
<1>2. pc \in {"close", "read", "done"} /\ status = "nothing" /\ (pc = "done" => cpc = "running")
  BY <1>0 DEF VlockInv, ChildInv, StatusInv
<1>3. CASE C!SortOutDescriptors
  <2>1. cpc = "dup2" /\ cpc' = "setuid" /\ status' = status
        /\ child' = {C!ChildEnd(s) : s \in piped} \cup {StatusWrite}
    BY <1>3 DEF C!SortOutDescriptors
  <2>2. ChildInv'
    BY <1>0, <1>2, <2>1 DEF ChildInv, C!NoStrayEnds, C!ChildEnd
  <2>3. StatusInv'
    BY <1>0, <1>2, <2>1 DEF StatusInv
  <2> QED BY <1>0, <1>1, <2>2, <2>3 DEF CreateInv
<1>4. CASE C!DropPrivileges \/ C!Exit
  <2>1. /\ status' = status
        /\ \/ cpc = "setuid" /\ cpc' = "run" /\ child' = child
           \/ cpc' = "exited" /\ child' = {}
    BY <1>4 DEF C!DropPrivileges, C!Exit
  <2>2. ChildInv'
    BY <1>0, <1>2, <2>1 DEF ChildInv, C!NoStrayEnds, C!ChildEnd
  <2>3. StatusInv'
    BY <1>0, <1>2, <2>1 DEF StatusInv
  <2> QED BY <1>0, <1>1, <2>2, <2>3 DEF CreateInv
<1>5. CASE C!Run
  <2>1. cpc = "run" /\ child = {C!ChildEnd(s) : s \in piped} \cup {StatusWrite} /\ pc # "done"
    BY <1>0, <1>2, <1>5 DEF C!Run, ChildInv
  <2>2. \/ /\ child' = child \ {StatusWrite} /\ cpc' = "running" /\ status' = status
        \/ /\ status' \in {"ENOENT", "EACCES"} /\ child' = {} /\ cpc' = "exited"
    BY <1>5 DEF C!Run
  <2>3. C!NoStrayEnds'
    BY <1>0, <2>1, <2>2 DEF C!NoStrayEnds, C!ChildEnd
  <2>4. ChildInv'
    BY <1>0, <1>2, <2>1, <2>2, <2>3 DEF ChildInv
  <2>5. StatusInv'
    BY <1>0, <1>2, <2>1, <2>2 DEF StatusInv
  <2> QED BY <1>0, <1>1, <2>4, <2>5 DEF CreateInv
<1> QED BY <1>3, <1>4, <1>5 DEF C!Child

LEMMA CreateStutter == CreateInv /\ UNCHANGED creation => CreateInv'
<1> SUFFICES ASSUME CreateInv, UNCHANGED creation PROVE CreateInv'
  OBVIOUS
<1>1. UNCHANGED <<piped, what, pc, cpc, vlock, child, status, result, error>>
  BY DEF creation
<1>2. Made' = Made
  BY <1>1 DEF Made
<1> QED BY <1>1, <1>2
   DEF CreateInv, VlockInv, ChildInv, StatusInv, C!DescriptorsAccounted, C!NoStrayEnds,
       C!ChildEnd, C!VlockEnd

-----------------------------------------------------------------------------
(* wait_for_death() and ensure_death()                                     *)

LEMMA AlarmStep == AlarmInv /\ DeathInv /\ D!Next => AlarmInv'
<1> SUFFICES ASSUME AlarmInv, DeathInv, D!Next PROVE AlarmInv'
  OBVIOUS
<1> USE DEF AlarmInv, D!PCs
<1>0. dpc \in D!PCs /\ waits \in {call, "ensure_death"} /\ call \in D!AllCalls /\ died \in BOOLEAN
  BY DEF DeathInv
<1>1. CASE D!Check \/ D!SigTerm \/ D!SigKill \/ D!SigCont \/ D!Reap \/ D!WaitPid \/ D!Died
  <2>1. UNCHANGED <<timer, otimer, action, oldact, rang>>
        /\ (dpc \in OwnAction <=> dpc' \in OwnAction) /\ (dpc \in OwnTimer <=> dpc' \in OwnTimer)
    BY <1>1 DEF D!Check, D!SigTerm, D!SigKill, D!SigCont, D!Reap, D!WaitPid, D!Died, D!alarm
  <2> QED BY <2>1
<1>2. CASE D!SigAction \/ D!SetITimer
  BY <1>2 DEF D!SigAction, D!SetITimer
<1>3. CASE D!ResetTimer
  BY <1>3 DEF D!ResetTimer
<1>4. CASE D!ResetAction
  <2>1. waits \in {"ensure_death", "script", "wait", "wait_zero"}
    BY <1>0 DEF D!AllCalls
  <2>2. dpc' \in {"done", "check", "sigkill"} /\ dpc = "reset_action" /\ action' = oldact
        /\ UNCHANGED <<timer, otimer, oldact, rang>>
    BY <1>0, <1>4, <2>1 DEF D!ResetAction
  <2> QED BY <2>2
<1>5. CASE D!Expire
  <2>1. UNCHANGED <<otimer, oldact>> /\ action' = action /\ timer' = "off" /\ timer # "off"
    BY <1>5 DEF D!Expire
  <2>2. CASE action = "ignore_sigalarm"
    <3>1. /\ rang' = IF timer = "caller" THEN "swallowed" ELSE rang
          /\ dpc' = IF dpc = "blocked" THEN "reset_timer" ELSE dpc
      BY <1>5, <2>2 DEF D!Expire
    <3> QED BY <2>1, <2>2, <3>1
  <2>3. CASE action = "handler"
    <3>1. rang' = "handled" /\ dpc' = IF dpc = "reap" THEN "done" ELSE dpc
      BY <1>5, <2>3 DEF D!Expire
    <3> QED BY <2>1, <2>3, <3>1
  <2>4. CASE action = "default"
    <3>1. rang' = "fatal" /\ dpc' = "killed"
      BY <1>5, <2>4 DEF D!Expire
    <3> QED BY <2>1, <2>4, <3>1
  <2> QED BY <1>5, <2>2, <2>3, <2>4 DEF D!Expire
<1>6. CASE D!Exit \/ D!Stop \/ D!Continue \/ D!Terminate
  <2>1. UNCHANGED <<dpc, timer, otimer, action, oldact, rang>>
    BY <1>6 DEF D!Exit, D!Stop, D!Continue, D!Terminate, D!alarm
  <2> QED BY <2>1
<1> QED BY <1>1, <1>2, <1>3, <1>4, <1>5, <1>6 DEF D!Next, D!EnsureDeath, D!WaitForDeath

LEMMA DeathStep == AlarmInv /\ DeathInv /\ D!Next => DeathInv'
<1> SUFFICES ASSUME AlarmInv, DeathInv, D!Next PROVE DeathInv'
  OBVIOUS
<1> USE DEF DeathInv, D!PCs, D!AllCalls
<1>1. CASE D!Check \/ D!SigTerm
  BY <1>1 DEF D!Check, D!SigTerm, D!alarm
<1>2. CASE D!SigKill \/ D!SigCont
  BY <1>2 DEF D!SigKill, D!SigCont, D!alarm
<1>3. CASE D!Reap \/ D!WaitPid \/ D!Died
  <2>1. CASE D!Reap
    BY <2>1 DEF D!Reap, D!alarm
  <2>2. CASE D!WaitPid
    BY <2>2 DEF D!WaitPid, D!alarm, D!target
  <2>3. CASE D!Died
    BY <2>3 DEF D!Died, D!alarm
  <2> QED BY <1>3, <2>1, <2>2, <2>3
<1>4. CASE D!SigAction \/ D!SetITimer \/ D!ResetTimer
  BY <1>4 DEF D!SigAction, D!SetITimer, D!ResetTimer, D!target
<1>5. CASE D!ResetAction
  <2>1. waits \in {"ensure_death", "script", "wait", "wait_zero"}
    OBVIOUS
  <2>2. /\ dpc = "reset_action" /\ UNCHANGED <<call, waits, died, process, obeys, signals>>
        /\ \/ dpc' = "done" /\ (died \/ waits \in {"wait", "wait_zero"})
           \/ dpc' = "check" /\ ~died /\ waits = "script"
           \/ dpc' = "sigkill" /\ ~died /\ waits = "ensure_death"
    BY <1>5, <2>1 DEF D!ResetAction, D!target
  <2> QED BY <2>2
<1>6. CASE D!Expire
  <2>1. UNCHANGED <<call, waits, died, process, signals>> /\ timer # "off" /\ timer' = "off"
    BY <1>6 DEF D!Expire, D!target
  <2>2. \/ dpc' = dpc
        \/ dpc = "blocked" /\ dpc' = "reset_timer"
        \/ dpc = "reap" /\ dpc' = "done" /\ rang' = "handled"
        \/ dpc' = "killed"
    BY <1>6 DEF D!Expire
  <2>3. dpc = "done" /\ call \in {"ensure_death", "script"} => process = "reaped"
    BY <2>1
  <2> QED BY <2>1, <2>2, <2>3
<1>7. CASE D!Exit \/ D!Stop \/ D!Continue \/ D!Terminate
  <2>1. /\ UNCHANGED <<call, dpc, waits, died, signals, timer, rang>>
        /\ process \in {"running", "stopped"} /\ process' \in {"running", "stopped", "zombie"}
    BY <1>7 DEF D!Exit, D!Stop, D!Continue, D!Terminate, D!alarm
  <2> QED BY <2>1
<1> QED BY <1>1, <1>2, <1>3, <1>4, <1>5, <1>6, <1>7 DEF D!Next, D!EnsureDeath, D!WaitForDeath

-----------------------------------------------------------------------------
(* The whole                                                               *)

LEMMA CallsOfUsers ==
    ASSUME NEW u \in AllUsers
    PROVE  /\ CallOf(u) \in D!AllCalls
           /\ CallOf(u) = "ensure_death" <=> u = "saver"
           /\ CallOf(u) \in {"wait", "wait_zero"} <=> u \in {"wait", "wait_zero"}
           /\ PipedFor(u) \subseteq C!Streams
<1>1. u = "saver" \/ u = "script" \/ u = "dependencies" \/ u = "wait" \/ u = "wait_zero"
  OBVIOUS
<1> QED BY <1>1 DEF CallOf, PipedFor, D!AllCalls, C!Streams

LEMMA InitInv == Init => ChildrenInv
<1> SUFFICES ASSUME Init PROVE ChildrenInv
  OBVIOUS
<1>1. user \in AllUsers /\ call = CallOf(user)
  BY DEF Init
<1>2. CreateInv
  <2>1. piped \subseteq C!Streams
    BY <1>1, CallsOfUsers DEF Init
  <2> QED BY <2>1
     DEF Init, C!Init, CreateInv, VlockInv, ChildInv, StatusInv, C!DescriptorsAccounted,
         C!NoStrayEnds
<1>3. AlarmInv
  BY DEF Init, D!Init, AlarmInv
<1>4. DeathInv
  BY <1>1, CallsOfUsers DEF Init, D!Init, DeathInv, D!PCs
<1>5. HookInv
  BY <1>1 DEF Init, C!Init, D!Init, HookInv
<1> QED BY <1>2, <1>3, <1>4, <1>5 DEF ChildrenInv

LEMMA DisposalStutter ==
    ASSUME AlarmInv, DeathInv, UNCHANGED disposal
    PROVE  AlarmInv' /\ DeathInv'
<1>1. UNCHANGED <<call, dpc, waits, died, process, obeys, signals,
                  timer, otimer, action, oldact, rang, missed>>
  BY DEF disposal
<1> QED BY <1>1 DEF AlarmInv, DeathInv

(* What create_child() has returned stays.                                 *)
LEMMA OutcomeStays ==
    ASSUME CreateInv, C!Vlock \/ C!Child \/ C!Exit
    PROVE  pc = "done" => pc' = "done" /\ result' = result
BY DEF C!Vlock, C!Child, C!Exit, C!StatusPipe, C!StreamPipe, C!MakePipe, C!Fork, C!CloseStatus,
       C!ReadStatus, C!SortOutDescriptors, C!DropPrivileges, C!Run, C!outcome

LEMMA NextInv == ChildrenInv /\ [Next]_vars => ChildrenInv'
<1> SUFFICES ASSUME ChildrenInv, [Next]_vars PROVE ChildrenInv'
  OBVIOUS
<1>0. CreateInv /\ AlarmInv /\ DeathInv /\ HookInv
  BY DEF ChildrenInv
<1>1. CASE Vlock \/ Child \/ ChildExits
  <2>1. C!Vlock \/ C!Child \/ C!Exit
    BY <1>1 DEF Vlock, Child, ChildExits
  <2>2. phase \in {"create", "use"} /\ UNCHANGED <<user, phase, curses, disposal>>
    BY <1>1 DEF Vlock, Child, ChildExits, Creating
  <2>3. CreateInv'
    BY <1>0, <2>1, PipeStep, ForkStep, ChildStep DEF C!Vlock
  <2>4. HookInv'
    BY <1>0, <2>1, <2>2, OutcomeStays DEF HookInv, disposal
  <2> QED BY <1>0, <2>2, <2>3, <2>4, DisposalStutter DEF ChildrenInv
<1>2. CASE Disposing /\ D!Next
  <2>1. phase = "dispose" /\ UNCHANGED <<user, phase, curses, creation>> /\ call' = call
    BY <1>2 DEF Disposing, D!Next, D!EnsureDeath, D!WaitForDeath, D!Check, D!SigTerm, D!SigKill,
           D!SigCont, D!Reap, D!SigAction, D!SetITimer, D!WaitPid, D!Died, D!ResetTimer,
           D!ResetAction, D!Expire, D!Exit, D!Stop, D!Continue, D!Terminate
  <2>2. HookInv'
    BY <1>0, <2>1 DEF HookInv, creation
  <2> QED BY <1>0, <1>2, <2>1, <2>2, CreateStutter, AlarmStep, DeathStep DEF ChildrenInv
<1>3. CASE OpenScreen \/ Created \/ Disposed \/ CloseScreen
  <2>1. UNCHANGED <<user, creation, disposal>>
    BY <1>3 DEF OpenScreen, Created, Disposed, CloseScreen
  <2>2. UNCHANGED <<pc, result, call, dpc, process>>
    BY <2>1 DEF creation, disposal
  <2>3. HookInv'
    BY <1>0, <1>3, <2>1, <2>2 DEF HookInv, OpenScreen, Created, Disposed, CloseScreen
  <2> QED BY <1>0, <2>1, <2>3, CreateStutter, DisposalStutter DEF ChildrenInv
<1>4. CASE Dispose
  <2>1. /\ phase = "use" /\ phase' = "dispose" /\ process' \in {"running", "stopped", "zombie"}
        /\ UNCHANGED <<user, curses, creation, call, dpc, waits, died, signals,
                       timer, otimer, action, oldact, rang, missed>>
    BY <1>4 DEF Dispose
  <2>2. AlarmInv'
    BY <1>0, <2>1 DEF AlarmInv
  <2>3. DeathInv'
    BY <1>0, <2>1 DEF DeathInv, HookInv
  <2>4. HookInv'
    BY <1>0, <2>1 DEF HookInv, creation
  <2> QED BY <1>0, <2>1, <2>2, <2>3, <2>4, CreateStutter DEF ChildrenInv
<1>5. CASE UNCHANGED vars
  <2>1. UNCHANGED <<user, phase, curses, creation, disposal>>
    BY <1>5 DEF vars
  <2>2. HookInv'
    BY <1>0, <2>1 DEF HookInv, creation, disposal
  <2> QED BY <1>0, <2>1, <2>2, CreateStutter, DisposalStutter DEF ChildrenInv
<1> QED BY <1>1, <1>2, <1>3, <1>4, <1>5 DEF Next

LEMMA Invariance == Spec => []ChildrenInv
BY InitInv, NextInv, PTL DEF Spec

-----------------------------------------------------------------------------
(* The theorems                                                            *)

(* However create_child() and the new child interleave, and wherever one   *)
(* of them fails: vlock keeps just the ends of the pipes it asked for, and *)
(* the verdict tells whether something runs.                               *)
THEOREM EveryEndAccounted == Spec => []CreationAccounted
<1>1. ChildrenInv => CreationAccounted
  BY DEF ChildrenInv, CreateInv, VlockInv, StatusInv, CreationAccounted, C!VerdictMatches
<1> QED BY <1>1, Invariance, PTL

(* A running child holds no pipe but its own streams.                      *)
THEOREM ChildHoldsItsOwn == Spec => []NoStrayEnds
<1>1. ChildrenInv => NoStrayEnds
  BY DEF ChildrenInv, CreateInv, ChildInv, NoStrayEnds
<1> QED BY <1>1, Invariance, PTL

(* Whenever the timers run out, the alarm of wait_for_death() harms nobody *)
(* and the caller gets its own timer and action back.                      *)
THEOREM AlarmsComeBack == Spec => []AlarmsKept
<1>1. ChildrenInv => AlarmsKept
  BY DEF ChildrenInv, AlarmInv, AlarmsKept, D!OwnAlarmHarmless, D!CallersAlarmKept
<1> QED BY <1>1, Invariance, PTL

(* No signal is sent to a process that was already waited for.             *)
THEOREM SignalsGoToTheChild == Spec => []OnlyChildSignalled
<1>1. ChildrenInv => OnlyChildSignalled
  BY DEF ChildrenInv, DeathInv, OnlyChildSignalled, D!OnlyChildSignalled
<1> QED BY <1>1, Invariance, PTL

(* The child of a screen saver is dead, or as good as, before the terminal *)
(* is taken from curses; nothing is left behind of it.                     *)
THEOREM TerminalGivenBack == Spec => []GivenBack
<1>1. ChildrenInv => GivenBack
  <2> SUFFICES ASSUME ChildrenInv PROVE GivenBack
    OBVIOUS
  <2>0. CreateInv /\ AlarmInv /\ DeathInv /\ HookInv
    BY DEF ChildrenInv
  <2>1. user \in AllUsers /\ call = CallOf(user)
    BY <2>0 DEF HookInv
  <2>2. ASSUME user = "saver", Draws PROVE curses
    <3>1. CASE phase \in {"create", "use", "dispose", "close"}
      BY <2>0, <2>2, <3>1 DEF HookInv
    <3>2. CASE phase = "open"
      BY <2>0, <2>2, <3>2 DEF HookInv, CreateInv, ChildInv, Draws
    <3>3. CASE phase = "over" /\ result
      BY <2>0, <2>1, <2>2, <3>3, CallsOfUsers DEF HookInv, DeathInv, Draws
    <3>4. CASE phase = "over" /\ ~result
      BY <2>0, <2>2, <3>4 DEF HookInv, CreateInv, StatusInv, Draws
    <3> QED BY <2>0, <3>1, <3>2, <3>3, <3>4 DEF HookInv
  <2>3. ASSUME phase = "over", result, user \notin {"wait", "wait_zero"}
        PROVE  D!ReapedAtEnd
    BY <2>0, <2>3 DEF HookInv, DeathInv, D!ReapedAtEnd
  <2>4. phase = "over" /\ result => ~curses
    BY <2>0 DEF HookInv
  <2> QED BY <2>2, <2>3, <2>4 DEF GivenBack
<1> QED BY <1>1, Invariance, PTL

=============================================================================
