-------------------------- MODULE ScriptLife_proofs --------------------------
(***************************************************************************)
(* What is proved of a script, from opening it to its end, for anything it *)
(* prints, whatever it does with its input and whenever a signal comes.    *)
(***************************************************************************)
EXTENDS ScriptLife, SequenceTheorems, TLAPS

-----------------------------------------------------------------------------
(* The invariant                                                           *)

(* What is read fits the buffer and the time, and a plugin exists only      *)
(* after all of its dependencies were read.                                 *)
DataInv == /\ timeout \in Nat /\ elapsed \in Nat /\ timeout + elapsed = Timeout
           /\ says \in Seq(STRING) /\ out \in Seq(STRING)
           /\ data \in Seq(STRING) /\ Len(data) < LINE_MAX
OpenInv == /\ outcome = "opened" => dpc = "done" /\ asked = "none"
           /\ stage # "absent" => outcome = "opened"

(* Until its dependencies are taken, what was read of a script and what is  *)
(* in its pipe make up what it printed; they are taken only when the pipe   *)
(* is empty and the script can print no more.                               *)
PrintInv == /\ printed \in Seq(STRING)
            /\ dpc \in {"select", "read", "parse"} => data \o out = printed
            /\ dpc = "read" => D!Readable
            /\ dpc = "parse" => out = <<>> /\ asked = "exited"

Tokens == H!Hooks \union {H!newline}
TypeInv == /\ pipe \in Seq(Tokens) /\ heard \in Seq(Tokens) /\ sent \in Seq(H!Hooks)
           /\ hook \in H!Hooks /\ ends \in Nat
           /\ written \in BOOLEAN /\ launched \in BOOLEAN /\ dead \in BOOLEAN
           /\ signals \in Nat /\ missed \in BOOLEAN /\ freed \in BOOLEAN

(* SIGPIPE is ignored while names are written.                              *)
SignalInv == /\ pc # "killed"
             /\ pc \in {"name", "newline"} => sigpipe = "ignore"

(* What the flags say of the child: before it is known to be launched, only *)
(* a call of vlock_start can be under way, and there is a child only while  *)
(* create_child() returns, or if a signal came then.                        *)
FlagInv == /\ freed <=> pc \in {"wait", "gone", "cut"}
           /\ pc \in {"launch", "launched", "ignore", "name", "newline"} => ~written
           /\ pc \in {"ignore", "name", "newline", "restore"} => ~dead /\ launched
           /\ pc \in {"launch", "launched"} => ~launched
           /\ pc = "return" => (dead <=> ~written)
           /\ dead => ~written
           /\ pc = "wait" => launched /\ fd = "closed"
           /\ stage = "absent" => pc = "idle" /\ ~launched /\ ~missed
ChildInv == ~launched =>
              /\ ~written /\ stage \in {"absent", "loaded", "failed"}
              /\ pc \in {"launch", "launched", "return"} =>
                    stage = "loaded" /\ hook = "vlock_start" /\ ~H!killed
              /\ proc # "none" \/ fd # "none" =>
                    pc = "launched" \/ (H!killed /\ stage = "loaded")

(* A call that failed leaves the script dead for good.                      *)
MissInv == missed => /\ dead /\ pc \in {"idle", "return", "wait", "gone", "cut"}
                     /\ launched \/ stage # "loaded"

(* What is left when the destruction of the plugin is complete.             *)
GoneInv == pc = "gone" => \/ proc \in {"none", "reaped"} /\ fd # "open"
                          \/ H!killed /\ stage = "loaded"

(* A name that is not followed by its newline stays the last token, but for *)
(* the vlock_end that the handlers of signals call.                         *)
Name(k) == H!received[k] # H!newline
Broken(k) == Name(k) /\ Name(k + 1)
EndsOnlyAfter(k) ==
    \A j \in k + 1..Len(H!received) : Name(j) => H!received[j] = "vlock_end"
LineInv == /\ \A k \in 1..Len(H!received) : ~Name(k) => k > 1 /\ Name(k - 1)
           /\ \A k \in 1..Len(H!received) - 1 : Broken(k) => H!killed /\ EndsOnlyAfter(k)
           /\ H!killed /\ pc \in {"ignore", "name", "newline"} => hook = "vlock_end"
           /\ pc = "newline" => Len(H!received) > 0 /\ H!received[Len(H!received)] = hook

(* Unless a signal came, what the script was sent is what was reported, and *)
(* the line of the call under way.                                          *)
SentInv == ~H!killed =>
    /\ 2 * Len(sent) <= Len(H!received)
    /\ \A k \in 1..Len(sent) :
          H!received[2 * k - 1] = sent[k] /\ H!received[2 * k] = H!newline
    /\ pc \in {"idle", "launch", "launched", "ignore", "name"} /\ ~dead =>
          Len(H!received) = 2 * Len(sent)
    /\ pc = "newline" => Len(H!received) = 2 * Len(sent) + 1
    /\ pc \in {"restore", "return"} /\ written =>
          /\ Len(H!received) = 2 * Len(sent) + 2
          /\ H!received[2 * Len(sent) + 1] = hook
          /\ H!received[2 * Len(sent) + 2] = H!newline
    /\ pc \in {"idle", "launch", "launched", "restore", "return"} /\ ~written =>
          Len(H!received) <= 2 * Len(sent) + 1
    /\ pc = "newline" => H!received[2 * Len(sent) + 1] = hook

ScriptInv == /\ DataInv /\ OpenInv /\ TypeInv /\ SignalInv /\ FlagInv /\ ChildInv
             /\ MissInv /\ GoneInv /\ LineInv /\ SentInv

USE DEF H!killed

-----------------------------------------------------------------------------
(* The control: everything but what the script was sent                    *)

CtlInv == TypeInv /\ SignalInv /\ FlagInv /\ ChildInv /\ MissInv /\ GoneInv

LEMMA CtlInit == Init => CtlInv
<1> SUFFICES ASSUME Init PROVE CtlInv
  OBVIOUS
<1> USE DEF Init, H!Init, H!Life!Init
<1>1. TypeInv
  BY EmptySeq DEF TypeInv, H!Hooks
<1> QED BY <1>1 DEF CtlInv, SignalInv, FlagInv, ChildInv, MissInv, GoneInv

LEMMA CtlUnchanged == CtlInv /\ UNCHANGED hooks => CtlInv'
BY DEF hooks, CtlInv, TypeInv, SignalInv, FlagInv, ChildInv, MissInv, GoneInv

LEMMA CtlLoad == CtlInv /\ H!Load => CtlInv'
<1> SUFFICES ASSUME CtlInv, H!Load PROVE CtlInv'
  OBVIOUS
<1> USE DEF CtlInv, H!Load, H!Life!Load,
            H!life, H!Life!life, H!flags, H!script, H!signal, H!history
<1>1. TypeInv'
  BY DEF TypeInv, Tokens
<1>2. SignalInv'
  BY DEF TypeInv, SignalInv, FlagInv, ChildInv, MissInv, GoneInv
<1>3. FlagInv'
  BY DEF TypeInv, SignalInv, FlagInv, ChildInv, MissInv, GoneInv
<1>4. ChildInv'
  BY DEF TypeInv, SignalInv, FlagInv, ChildInv, MissInv, GoneInv
<1>5. MissInv'
  BY DEF TypeInv, SignalInv, FlagInv, ChildInv, MissInv, GoneInv
<1>6. GoneInv'
  BY DEF TypeInv, SignalInv, FlagInv, ChildInv, MissInv, GoneInv
<1> QED BY <1>1, <1>2, <1>3, <1>4, <1>5, <1>6

LEMMA CtlCall == CtlInv /\ H!CallSomeHook => CtlInv'
<1> SUFFICES ASSUME CtlInv, H!CallSomeHook PROVE CtlInv'
  OBVIOUS
<1> USE DEF CtlInv, H!CallSomeHook, H!CallHook, H!MayCall, H!Life!End,
            H!life, H!Life!life, H!flags, H!script, H!signal, H!history
<1>1. TypeInv'
  <2>1. ends' \in Nat
    BY DEF TypeInv
  <2> QED BY <2>1, Zenon DEF TypeInv
<1>2. SignalInv'
  BY DEF TypeInv, SignalInv, FlagInv, ChildInv, MissInv, GoneInv, H!Hooks
<1>3. FlagInv'
  BY DEF TypeInv, SignalInv, FlagInv, ChildInv, MissInv, GoneInv, H!Hooks
<1>4. ChildInv'
  BY DEF TypeInv, SignalInv, FlagInv, ChildInv, MissInv, GoneInv, H!Hooks
<1>5. MissInv'
  BY DEF TypeInv, SignalInv, FlagInv, ChildInv, MissInv, GoneInv, H!Hooks
<1>6. GoneInv'
  BY DEF TypeInv, SignalInv, FlagInv, ChildInv, MissInv, GoneInv, H!Hooks
<1> QED BY <1>1, <1>2, <1>3, <1>4, <1>5, <1>6

LEMMA CtlReturn == CtlInv /\ H!Return => CtlInv'
<1> SUFFICES ASSUME CtlInv, H!Return PROVE CtlInv'
  OBVIOUS
<1> USE DEF CtlInv, H!Return, H!Lives, H!Life!Start, H!Life!Save, H!Life!SaveAbort,
            H!life, H!Life!life, H!flags, H!script, H!signal, H!history
<1>1. TypeInv'
  <2>1. sent' \in Seq(H!Hooks)
    BY DEF TypeInv
  <2>2. ends' = ends /\ missed' \in BOOLEAN /\ freed' = freed
    BY DEF TypeInv, H!Hooks
  <2> QED BY <2>1, <2>2 DEF TypeInv
<1>2. SignalInv'
  BY DEF TypeInv, SignalInv, FlagInv, ChildInv, MissInv, GoneInv, H!Hooks
<1>3. FlagInv'
  BY DEF TypeInv, SignalInv, FlagInv, ChildInv, MissInv, GoneInv, H!Hooks
<1>4. ChildInv'
  BY DEF TypeInv, SignalInv, FlagInv, ChildInv, MissInv, GoneInv, H!Hooks
<1>5. MissInv'
  BY DEF TypeInv, SignalInv, FlagInv, ChildInv, MissInv, GoneInv, H!Hooks
<1>6. GoneInv'
  BY DEF TypeInv, SignalInv, FlagInv, ChildInv, MissInv, GoneInv, H!Hooks
<1> QED BY <1>1, <1>2, <1>3, <1>4, <1>5, <1>6

LEMMA CtlLaunch == CtlInv /\ H!Launch => CtlInv'
<1> SUFFICES ASSUME CtlInv, H!Launch PROVE CtlInv'
  OBVIOUS
<1> USE DEF CtlInv, H!Launch,
            H!life, H!Life!life, H!flags, H!script, H!signal, H!history
<1>1. TypeInv'
  BY DEF TypeInv, Tokens
<1>2. SignalInv'
  BY DEF TypeInv, SignalInv, FlagInv, ChildInv, MissInv, GoneInv
<1>3. FlagInv'
  BY DEF TypeInv, SignalInv, FlagInv, ChildInv, MissInv, GoneInv
<1>4. ChildInv'
  BY DEF TypeInv, SignalInv, FlagInv, ChildInv, MissInv, GoneInv
<1>5. MissInv'
  BY DEF TypeInv, SignalInv, FlagInv, ChildInv, MissInv, GoneInv
<1>6. GoneInv'
  BY DEF TypeInv, SignalInv, FlagInv, ChildInv, MissInv, GoneInv
<1> QED BY <1>1, <1>2, <1>3, <1>4, <1>5, <1>6

LEMMA CtlLaunched == CtlInv /\ H!Launched => CtlInv'
<1> SUFFICES ASSUME CtlInv, H!Launched PROVE CtlInv'
  OBVIOUS
<1> USE DEF CtlInv, H!Launched,
            H!life, H!Life!life, H!flags, H!script, H!signal, H!history
<1>1. TypeInv'
  BY DEF TypeInv, Tokens
<1>2. SignalInv'
  BY DEF TypeInv, SignalInv, FlagInv, ChildInv, MissInv, GoneInv
<1>3. FlagInv'
  BY DEF TypeInv, SignalInv, FlagInv, ChildInv, MissInv, GoneInv
<1>4. ChildInv'
  BY DEF TypeInv, SignalInv, FlagInv, ChildInv, MissInv, GoneInv
<1>5. MissInv'
  BY DEF TypeInv, SignalInv, FlagInv, ChildInv, MissInv, GoneInv
<1>6. GoneInv'
  BY DEF TypeInv, SignalInv, FlagInv, ChildInv, MissInv, GoneInv
<1> QED BY <1>1, <1>2, <1>3, <1>4, <1>5, <1>6

LEMMA CtlIgnore == CtlInv /\ H!IgnoreSigpipe => CtlInv'
<1> SUFFICES ASSUME CtlInv, H!IgnoreSigpipe PROVE CtlInv'
  OBVIOUS
<1> USE DEF CtlInv, H!IgnoreSigpipe,
            H!life, H!Life!life, H!flags, H!script, H!signal, H!history
<1>1. TypeInv'
  BY DEF TypeInv, Tokens
<1>2. SignalInv'
  BY DEF TypeInv, SignalInv, FlagInv, ChildInv, MissInv, GoneInv
<1>3. FlagInv'
  BY DEF TypeInv, SignalInv, FlagInv, ChildInv, MissInv, GoneInv
<1>4. ChildInv'
  BY DEF TypeInv, SignalInv, FlagInv, ChildInv, MissInv, GoneInv
<1>5. MissInv'
  BY DEF TypeInv, SignalInv, FlagInv, ChildInv, MissInv, GoneInv
<1>6. GoneInv'
  BY DEF TypeInv, SignalInv, FlagInv, ChildInv, MissInv, GoneInv
<1> QED BY <1>1, <1>2, <1>3, <1>4, <1>5, <1>6

LEMMA CtlWriteName == CtlInv /\ H!WriteName => CtlInv'
<1> SUFFICES ASSUME CtlInv, H!WriteName PROVE CtlInv'
  OBVIOUS
<1> USE DEF CtlInv, H!WriteName, H!Write,
            H!life, H!Life!life, H!flags, H!script, H!signal, H!history
<1>1. TypeInv'
  <2>1. hook \in Tokens /\ pipe \in Seq(Tokens)
    BY DEF TypeInv, Tokens
  <2>2. pipe' \in Seq(Tokens)
    BY <2>1
  <2> QED BY <2>2 DEF TypeInv
<1>2. SignalInv'
  BY DEF TypeInv, SignalInv, FlagInv, ChildInv, MissInv, GoneInv
<1>3. FlagInv'
  BY DEF TypeInv, SignalInv, FlagInv, ChildInv, MissInv, GoneInv
<1>4. ChildInv'
  BY DEF TypeInv, SignalInv, FlagInv, ChildInv, MissInv, GoneInv
<1>5. MissInv'
  BY DEF TypeInv, SignalInv, FlagInv, ChildInv, MissInv, GoneInv
<1>6. GoneInv'
  BY DEF TypeInv, SignalInv, FlagInv, ChildInv, MissInv, GoneInv
<1> QED BY <1>1, <1>2, <1>3, <1>4, <1>5, <1>6

LEMMA CtlWriteNewline == CtlInv /\ H!WriteNewline => CtlInv'
<1> SUFFICES ASSUME CtlInv, H!WriteNewline PROVE CtlInv'
  OBVIOUS
<1> USE DEF CtlInv, H!WriteNewline, H!Write,
            H!life, H!Life!life, H!flags, H!script, H!signal, H!history
<1>1. TypeInv'
  BY SMTT(30) DEF TypeInv, Tokens
<1>2. SignalInv'
  BY DEF TypeInv, SignalInv, FlagInv, ChildInv, MissInv, GoneInv
<1>3. FlagInv'
  BY DEF TypeInv, SignalInv, FlagInv, ChildInv, MissInv, GoneInv
<1>4. ChildInv'
  BY DEF TypeInv, SignalInv, FlagInv, ChildInv, MissInv, GoneInv
<1>5. MissInv'
  BY DEF TypeInv, SignalInv, FlagInv, ChildInv, MissInv, GoneInv
<1>6. GoneInv'
  BY DEF TypeInv, SignalInv, FlagInv, ChildInv, MissInv, GoneInv
<1> QED BY <1>1, <1>2, <1>3, <1>4, <1>5, <1>6

LEMMA CtlRestore == CtlInv /\ H!Restore => CtlInv'
<1> SUFFICES ASSUME CtlInv, H!Restore PROVE CtlInv'
  OBVIOUS
<1> USE DEF CtlInv, H!Restore,
            H!life, H!Life!life, H!flags, H!script, H!signal, H!history
<1>1. TypeInv'
  BY DEF TypeInv, Tokens
<1>2. SignalInv'
  BY DEF TypeInv, SignalInv, FlagInv, ChildInv, MissInv, GoneInv
<1>3. FlagInv'
  BY DEF TypeInv, SignalInv, FlagInv, ChildInv, MissInv, GoneInv
<1>4. ChildInv'
  BY DEF TypeInv, SignalInv, FlagInv, ChildInv, MissInv, GoneInv
<1>5. MissInv'
  BY DEF TypeInv, SignalInv, FlagInv, ChildInv, MissInv, GoneInv
<1>6. GoneInv'
  BY DEF TypeInv, SignalInv, FlagInv, ChildInv, MissInv, GoneInv
<1> QED BY <1>1, <1>2, <1>3, <1>4, <1>5, <1>6

LEMMA CtlUnload == CtlInv /\ H!Unload => CtlInv'
<1> SUFFICES ASSUME CtlInv, H!Unload PROVE CtlInv'
  OBVIOUS
<1> USE DEF CtlInv, H!Unload, H!MayUnload, H!Life!Unload,
            H!life, H!Life!life, H!flags, H!script, H!signal, H!history
<1>1. TypeInv'
  BY DEF TypeInv, Tokens
<1>2. SignalInv'
  BY DEF TypeInv, SignalInv, FlagInv, ChildInv, MissInv, GoneInv
<1>3. FlagInv'
  BY DEF TypeInv, SignalInv, FlagInv, ChildInv, MissInv, GoneInv
<1>4. ChildInv'
  BY DEF TypeInv, SignalInv, FlagInv, ChildInv, MissInv, GoneInv
<1>5. MissInv'
  BY DEF TypeInv, SignalInv, FlagInv, ChildInv, MissInv, GoneInv
<1>6. GoneInv'
  BY DEF TypeInv, SignalInv, FlagInv, ChildInv, MissInv, GoneInv
<1> QED BY <1>1, <1>2, <1>3, <1>4, <1>5, <1>6

LEMMA CtlReap == CtlInv /\ H!Reap => CtlInv'
<1> SUFFICES ASSUME CtlInv, H!Reap PROVE CtlInv'
  OBVIOUS
<1> USE DEF CtlInv, H!Reap,
            H!life, H!Life!life, H!flags, H!script, H!signal, H!history
<1>1. TypeInv'
  BY DEF TypeInv, Tokens
<1>2. SignalInv'
  BY DEF TypeInv, SignalInv, FlagInv, ChildInv, MissInv, GoneInv
<1>3. FlagInv'
  BY DEF TypeInv, SignalInv, FlagInv, ChildInv, MissInv, GoneInv
<1>4. ChildInv'
  BY DEF TypeInv, SignalInv, FlagInv, ChildInv, MissInv, GoneInv
<1>5. MissInv'
  BY DEF TypeInv, SignalInv, FlagInv, ChildInv, MissInv, GoneInv
<1>6. GoneInv'
  BY DEF TypeInv, SignalInv, FlagInv, ChildInv, MissInv, GoneInv
<1> QED BY <1>1, <1>2, <1>3, <1>4, <1>5, <1>6

LEMMA CtlRead == CtlInv /\ H!Read => CtlInv'
<1> SUFFICES ASSUME CtlInv, H!Read PROVE CtlInv'
  OBVIOUS
<1> USE DEF CtlInv, H!Read,
            H!life, H!Life!life, H!flags, H!script, H!signal, H!history
<1>1. TypeInv'
  BY DEF TypeInv, Tokens
<1>2. SignalInv'
  BY DEF TypeInv, SignalInv, FlagInv, ChildInv, MissInv, GoneInv
<1>3. FlagInv'
  BY DEF TypeInv, SignalInv, FlagInv, ChildInv, MissInv, GoneInv
<1>4. ChildInv'
  BY DEF TypeInv, SignalInv, FlagInv, ChildInv, MissInv, GoneInv
<1>5. MissInv'
  BY DEF TypeInv, SignalInv, FlagInv, ChildInv, MissInv, GoneInv
<1>6. GoneInv'
  BY DEF TypeInv, SignalInv, FlagInv, ChildInv, MissInv, GoneInv
<1> QED BY <1>1, <1>2, <1>3, <1>4, <1>5, <1>6

LEMMA CtlLeave == CtlInv /\ H!Leave => CtlInv'
<1> SUFFICES ASSUME CtlInv, H!Leave PROVE CtlInv'
  OBVIOUS
<1> USE DEF CtlInv, H!Leave,
            H!life, H!Life!life, H!flags, H!script, H!signal, H!history
<1>1. TypeInv'
  BY DEF TypeInv, Tokens
<1>2. SignalInv'
  BY DEF TypeInv, SignalInv, FlagInv, ChildInv, MissInv, GoneInv
<1>3. FlagInv'
  BY DEF TypeInv, SignalInv, FlagInv, ChildInv, MissInv, GoneInv
<1>4. ChildInv'
  BY DEF TypeInv, SignalInv, FlagInv, ChildInv, MissInv, GoneInv
<1>5. MissInv'
  BY DEF TypeInv, SignalInv, FlagInv, ChildInv, MissInv, GoneInv
<1>6. GoneInv'
  BY DEF TypeInv, SignalInv, FlagInv, ChildInv, MissInv, GoneInv
<1> QED BY <1>1, <1>2, <1>3, <1>4, <1>5, <1>6

LEMMA CtlKill == CtlInv /\ H!Kill => CtlInv'
<1> SUFFICES ASSUME CtlInv, H!Kill PROVE CtlInv'
  OBVIOUS
<1> USE DEF CtlInv, H!Kill,
            H!life, H!Life!life, H!flags, H!script, H!signal, H!history
<1>1. TypeInv'
  BY DEF TypeInv, Tokens
<1>2. SignalInv'
  BY DEF TypeInv, SignalInv, FlagInv, ChildInv, MissInv, GoneInv
<1>3. FlagInv'
  BY DEF TypeInv, SignalInv, FlagInv, ChildInv, MissInv, GoneInv
<1>4. ChildInv'
  BY DEF TypeInv, SignalInv, FlagInv, ChildInv, MissInv, GoneInv
<1>5. MissInv'
  BY DEF TypeInv, SignalInv, FlagInv, ChildInv, MissInv, GoneInv
<1>6. GoneInv'
  BY DEF TypeInv, SignalInv, FlagInv, ChildInv, MissInv, GoneInv
<1> QED BY <1>1, <1>2, <1>3, <1>4, <1>5, <1>6

-----------------------------------------------------------------------------
(* What the script was sent                                                *)

LEMMA ReceivedSeq == TypeInv => /\ H!received \in Seq(Tokens)
                                /\ Len(H!received) \in Nat
BY ConcatProperties DEF TypeInv, H!received

LEMMA SentInit == Init => LineInv /\ SentInv
<1> SUFFICES ASSUME Init PROVE LineInv /\ SentInv
  OBVIOUS
<1>1. H!received = <<>>
  BY DEF Init, H!Init, H!received
<1>2. Len(H!received) = 0 /\ Len(sent) = 0 /\ pc = "idle" /\ ~H!killed
  BY <1>1 DEF Init, H!Init
<1> QED BY <1>2 DEF LineInv, SentInv

LEMMA SentUnchanged == LineInv /\ SentInv /\ UNCHANGED hooks => LineInv' /\ SentInv'
BY SMTT(30) DEF hooks, LineInv, SentInv, Name, Broken, EndsOnlyAfter, H!received

LEMMA SentLoad == CtlInv /\ LineInv /\ SentInv /\ H!Load => LineInv' /\ SentInv'
<1> SUFFICES ASSUME CtlInv, LineInv, SentInv, H!Load PROVE LineInv' /\ SentInv'
  OBVIOUS
<1> USE DEF H!Load, H!Life!Load,
            H!life, H!Life!life, H!flags, H!script, H!signal, H!history
<1>0. H!received' = H!received
  BY DEF H!received
<1>1. LineInv'
  BY <1>0 DEF LineInv, Name, Broken, EndsOnlyAfter, CtlInv, FlagInv, ChildInv
<1>2. SentInv'
  BY <1>0, ReceivedSeq DEF SentInv, CtlInv, TypeInv, FlagInv, ChildInv
<1> QED BY <1>1, <1>2

LEMMA SentCall == CtlInv /\ LineInv /\ SentInv /\ H!CallSomeHook => LineInv' /\ SentInv'
<1> SUFFICES ASSUME CtlInv, LineInv, SentInv, H!CallSomeHook PROVE LineInv' /\ SentInv'
  OBVIOUS
<1> USE DEF H!CallSomeHook, H!CallHook, H!MayCall, H!Life!End,
            H!life, H!Life!life, H!flags, H!script, H!signal, H!history
<1>0. H!received' = H!received
  BY DEF H!received
<1>1. LineInv'
  BY <1>0 DEF LineInv, Name, Broken, EndsOnlyAfter, CtlInv, FlagInv, ChildInv
<1>2. SentInv'
  BY <1>0, ReceivedSeq DEF SentInv, CtlInv, TypeInv, FlagInv, ChildInv
<1> QED BY <1>1, <1>2

LEMMA SentReturn == CtlInv /\ LineInv /\ SentInv /\ H!Return => LineInv' /\ SentInv'
<1> SUFFICES ASSUME CtlInv, LineInv, SentInv, H!Return PROVE LineInv' /\ SentInv'
  OBVIOUS
<1> USE DEF H!Return, H!Lives, H!Life!Start, H!Life!Save, H!Life!SaveAbort,
            H!life, H!Life!life, H!flags, H!script, H!signal, H!history
<1>0. H!received' = H!received
  BY DEF H!received
<1>1. LineInv'
  <2>1. signals' = signals /\ pc' = "idle"
    OBVIOUS
  <2> QED BY <1>0, <2>1 DEF LineInv, Name, Broken, EndsOnlyAfter
<1>2. SentInv'
  BY <1>0, ReceivedSeq, SMTT(30) DEF SentInv, CtlInv, TypeInv, FlagInv, ChildInv
<1> QED BY <1>1, <1>2

LEMMA SentLaunch == CtlInv /\ LineInv /\ SentInv /\ H!Launch => LineInv' /\ SentInv'
<1> SUFFICES ASSUME CtlInv, LineInv, SentInv, H!Launch PROVE LineInv' /\ SentInv'
  OBVIOUS
<1> USE DEF H!Launch,
            H!life, H!Life!life, H!flags, H!script, H!signal, H!history
<1>0. H!received' = H!received
  BY DEF H!received
<1>1. LineInv'
  BY <1>0 DEF LineInv, Name, Broken, EndsOnlyAfter, CtlInv, FlagInv, ChildInv
<1>2. SentInv'
  BY <1>0, ReceivedSeq DEF SentInv, CtlInv, TypeInv, FlagInv, ChildInv
<1> QED BY <1>1, <1>2

LEMMA SentLaunched == CtlInv /\ LineInv /\ SentInv /\ H!Launched => LineInv' /\ SentInv'
<1> SUFFICES ASSUME CtlInv, LineInv, SentInv, H!Launched PROVE LineInv' /\ SentInv'
  OBVIOUS
<1> USE DEF H!Launched,
            H!life, H!Life!life, H!flags, H!script, H!signal, H!history
<1>0. H!received' = H!received
  BY DEF H!received
<1>1. LineInv'
  BY <1>0 DEF LineInv, Name, Broken, EndsOnlyAfter, CtlInv, FlagInv, ChildInv
<1>2. SentInv'
  BY <1>0, ReceivedSeq DEF SentInv, CtlInv, TypeInv, FlagInv, ChildInv
<1> QED BY <1>1, <1>2

LEMMA SentIgnore == CtlInv /\ LineInv /\ SentInv /\ H!IgnoreSigpipe => LineInv' /\ SentInv'
<1> SUFFICES ASSUME CtlInv, LineInv, SentInv, H!IgnoreSigpipe PROVE LineInv' /\ SentInv'
  OBVIOUS
<1> USE DEF H!IgnoreSigpipe,
            H!life, H!Life!life, H!flags, H!script, H!signal, H!history
<1>0. H!received' = H!received
  BY DEF H!received
<1>1. LineInv'
  BY <1>0 DEF LineInv, Name, Broken, EndsOnlyAfter, CtlInv, FlagInv, ChildInv
<1>2. SentInv'
  BY <1>0, ReceivedSeq DEF SentInv, CtlInv, TypeInv, FlagInv, ChildInv
<1> QED BY <1>1, <1>2

LEMMA SentRestore == CtlInv /\ LineInv /\ SentInv /\ H!Restore => LineInv' /\ SentInv'
<1> SUFFICES ASSUME CtlInv, LineInv, SentInv, H!Restore PROVE LineInv' /\ SentInv'
  OBVIOUS
<1> USE DEF H!Restore,
            H!life, H!Life!life, H!flags, H!script, H!signal, H!history
<1>0. H!received' = H!received
  BY DEF H!received
<1>1. LineInv'
  BY <1>0 DEF LineInv, Name, Broken, EndsOnlyAfter, CtlInv, FlagInv, ChildInv
<1>2. SentInv'
  BY <1>0, ReceivedSeq DEF SentInv, CtlInv, TypeInv, FlagInv, ChildInv
<1> QED BY <1>1, <1>2

LEMMA SentUnload == CtlInv /\ LineInv /\ SentInv /\ H!Unload => LineInv' /\ SentInv'
<1> SUFFICES ASSUME CtlInv, LineInv, SentInv, H!Unload PROVE LineInv' /\ SentInv'
  OBVIOUS
<1> USE DEF H!Unload, H!MayUnload, H!Life!Unload,
            H!life, H!Life!life, H!flags, H!script, H!signal, H!history
<1>0. H!received' = H!received
  BY DEF H!received
<1>1. LineInv'
  BY <1>0 DEF LineInv, Name, Broken, EndsOnlyAfter, CtlInv, FlagInv, ChildInv
<1>2. SentInv'
  BY <1>0, ReceivedSeq DEF SentInv, CtlInv, TypeInv, FlagInv, ChildInv
<1> QED BY <1>1, <1>2

LEMMA SentReap == CtlInv /\ LineInv /\ SentInv /\ H!Reap => LineInv' /\ SentInv'
<1> SUFFICES ASSUME CtlInv, LineInv, SentInv, H!Reap PROVE LineInv' /\ SentInv'
  OBVIOUS
<1> USE DEF H!Reap,
            H!life, H!Life!life, H!flags, H!script, H!signal, H!history
<1>0. H!received' = H!received
  BY DEF H!received
<1>1. LineInv'
  BY <1>0 DEF LineInv, Name, Broken, EndsOnlyAfter, CtlInv, FlagInv, ChildInv
<1>2. SentInv'
  BY <1>0, ReceivedSeq DEF SentInv, CtlInv, TypeInv, FlagInv, ChildInv
<1> QED BY <1>1, <1>2

LEMMA SentLeave == CtlInv /\ LineInv /\ SentInv /\ H!Leave => LineInv' /\ SentInv'
<1> SUFFICES ASSUME CtlInv, LineInv, SentInv, H!Leave PROVE LineInv' /\ SentInv'
  OBVIOUS
<1> USE DEF H!Leave,
            H!life, H!Life!life, H!flags, H!script, H!signal, H!history
<1>0. H!received' = H!received
  BY DEF H!received
<1>1. LineInv'
  BY <1>0 DEF LineInv, Name, Broken, EndsOnlyAfter, CtlInv, FlagInv, ChildInv
<1>2. SentInv'
  BY <1>0, ReceivedSeq DEF SentInv, CtlInv, TypeInv, FlagInv, ChildInv
<1> QED BY <1>1, <1>2

LEMMA SentKill == CtlInv /\ LineInv /\ SentInv /\ H!Kill => LineInv' /\ SentInv'
<1> SUFFICES ASSUME CtlInv, LineInv, SentInv, H!Kill PROVE LineInv' /\ SentInv'
  OBVIOUS
<1> USE DEF H!Kill,
            H!life, H!Life!life, H!flags, H!script, H!signal, H!history
<1>0. H!received' = H!received
  BY DEF H!received
<1>1. LineInv'
  <2>1. signals' > 0 /\ pc' \in {"idle", "cut"}
    BY DEF CtlInv, TypeInv
  <2> QED BY <1>0, <2>1 DEF LineInv, Name, Broken, EndsOnlyAfter
<1>2. SentInv'
  BY <1>0, ReceivedSeq DEF SentInv, CtlInv, TypeInv, FlagInv, ChildInv
<1> QED BY <1>1, <1>2

LEMMA ReceivedRead == TypeInv /\ H!Read => H!received' = H!received
<1> SUFFICES ASSUME TypeInv, pipe # <<>>,
                    heard' = Append(heard, Head(pipe)), pipe' = Tail(pipe)
             PROVE  heard' \o pipe' = heard \o pipe
  BY DEF H!Read, H!received
<1>1. heard' \in Seq(Tokens) /\ pipe' \in Seq(Tokens)
  BY HeadTailProperties DEF TypeInv
<1>2. Len(pipe) > 0 /\ Len(pipe') = Len(pipe) - 1 /\ Len(heard') = Len(heard) + 1
  BY HeadTailProperties DEF TypeInv
<1>3. Len(heard' \o pipe') = Len(heard \o pipe)
  BY <1>1, <1>2, ConcatProperties DEF TypeInv
<1>4. ASSUME NEW k \in 1..Len(heard \o pipe) PROVE (heard' \o pipe')[k] = (heard \o pipe)[k]
  BY <1>1, <1>2, ConcatProperties, HeadTailProperties DEF TypeInv
<1> QED BY <1>1, <1>3, <1>4, ConcatProperties, SeqEqual DEF TypeInv

LEMMA ReceivedWrite ==
    ASSUME TypeInv, NEW t \in Tokens, pipe' = Append(pipe, t), heard' = heard
    PROVE  /\ Len(H!received') = Len(H!received) + 1
           /\ \A k \in 1..Len(H!received) : H!received'[k] = H!received[k]
           /\ H!received'[Len(H!received) + 1] = t
<1>1. H!received' = Append(H!received, t)
  <2>1. heard \o Append(pipe, t) = Append(heard \o pipe, t)
    BY AppendProperties, ConcatProperties, SeqEqual DEF TypeInv
  <2> QED BY <2>1 DEF H!received
<1> QED BY <1>1, ReceivedSeq

LEMMA SentRead == CtlInv /\ LineInv /\ SentInv /\ H!Read => LineInv' /\ SentInv'
<1> SUFFICES ASSUME CtlInv, LineInv, SentInv, H!Read PROVE LineInv' /\ SentInv'
  OBVIOUS
<1>0. H!received' = H!received
  BY ReceivedRead DEF CtlInv
<1> QED BY <1>0 DEF H!Read, H!life, H!flags, H!signal, H!history,
                   LineInv, Name, Broken, EndsOnlyAfter, SentInv

LEMMA SentWriteName == CtlInv /\ LineInv /\ SentInv /\ H!WriteName => LineInv' /\ SentInv'
<1> SUFFICES ASSUME CtlInv, LineInv, SentInv, H!WriteName PROVE LineInv' /\ SentInv'
  OBVIOUS
<1> DEFINE r == H!received
<1> USE DEF H!life, H!flags, H!signal, H!history
<1>0. pc = "name" /\ ~written /\ ~dead /\ hook \in Tokens /\ hook # H!newline
  BY DEF H!WriteName, CtlInv, FlagInv, TypeInv, Tokens, H!Hooks, H!newline
<1>1. CASE pipe' = pipe /\ pc' = "restore"
  <2>1. H!received' = H!received
    BY <1>1 DEF H!WriteName, H!received
  <2> QED BY <1>0, <1>1, <2>1, ReceivedSeq
          DEF H!WriteName, LineInv, Name, Broken, EndsOnlyAfter, SentInv, CtlInv, TypeInv
<1>2. CASE pipe' = Append(pipe, hook) /\ pc' = "newline"
  <2>1. /\ Len(r') = Len(r) + 1 /\ Len(r) \in Nat /\ Len(sent) \in Nat
        /\ \A k \in 1..Len(r) : r'[k] = r[k]
        /\ r'[Len(r) + 1] = hook
    BY <1>0, <1>2, ReceivedWrite, ReceivedSeq DEF H!WriteName, CtlInv, TypeInv
  <2>2. UNCHANGED <<signals, hook, sent, written, dead>>
    BY DEF H!WriteName
  <2>3. ~H!killed => Len(r) = 2 * Len(sent) /\ (Len(r) > 0 => r[Len(r)] = H!newline)
    BY <1>0, <2>1 DEF SentInv
  <2> HIDE DEF r
  <2>4. LineInv'
    <3>1. \A k \in 1..Len(r') : r'[k] = H!newline => k > 1 /\ r'[k - 1] # H!newline
      <4>1. \A k \in 1..Len(r) : r[k] = H!newline => k > 1 /\ r[k - 1] # H!newline
        BY DEF LineInv, Name, r
      <4> QED BY <1>0, <2>1, <4>1
    <3>2. ASSUME NEW k \in 1..Len(r') - 1, r'[k] # H!newline, r'[k + 1] # H!newline
          PROVE  /\ H!killed
                 /\ \A j \in k + 1..Len(r') : r'[j] # H!newline => r'[j] = "vlock_end"
      <4>1. H!killed => hook = "vlock_end"
        BY <1>0 DEF LineInv
      <4>2. CASE k = Len(r)
        <5>1. Len(r) > 0 /\ r[Len(r)] # H!newline /\ k + 1 = Len(r')
          BY <2>1, <3>2, <4>2
        <5>2. H!killed
          BY <2>3, <5>1
        <5> QED BY <2>1, <4>1, <5>1, <5>2
      <4>3. CASE k < Len(r)
        <5>1. k \in 1..Len(r) - 1 /\ r[k] # H!newline /\ r[k + 1] # H!newline
          BY <2>1, <3>2, <4>3
        <5>2. H!killed /\ \A j \in k + 1..Len(r) : r[j] # H!newline => r[j] = "vlock_end"
          BY <5>1 DEF LineInv, Name, Broken, EndsOnlyAfter, r
        <5>3. ASSUME NEW j \in k + 1..Len(r'), r'[j] # H!newline PROVE r'[j] = "vlock_end"
          <6>1. CASE j = Len(r')
            BY <2>1, <4>1, <5>2, <6>1
          <6>2. CASE j # Len(r')
            <7>1. j \in k + 1..Len(r) /\ j \in 1..Len(r)
              BY <2>1, <5>1, <6>2
            <7> QED BY <2>1, <5>2, <5>3, <7>1
          <6> QED BY <6>1, <6>2
        <5> QED BY <5>2, <5>3
      <4> QED BY <2>1, <4>2, <4>3
    <3>3. H!killed' => hook' = "vlock_end"
      BY <1>0, <2>2 DEF LineInv
    <3>4. Len(r') > 0 /\ r'[Len(r')] = hook'
      BY <2>1, <2>2
    <3> QED BY <1>2, <2>1, <2>2, <3>1, <3>2, <3>3, <3>4 DEF LineInv, Name, Broken, EndsOnlyAfter, r
  <2>5. SentInv'
    <3> SUFFICES ASSUME ~H!killed PROVE SentInv'
      BY <2>2 DEF SentInv
    <3>1. \A k \in 1..Len(sent) : r[2 * k - 1] = sent[k] /\ r[2 * k] = H!newline
      BY DEF SentInv, r
    <3>2. ASSUME NEW k \in 1..Len(sent)
          PROVE  r'[2 * k - 1] = sent[k] /\ r'[2 * k] = H!newline
      <4>1. 2 * k - 1 \in 1..Len(r) /\ 2 * k \in 1..Len(r)
        BY <2>1, <2>3
      <4> QED BY <2>1, <3>1, <4>1
    <3> QED BY <1>0, <1>2, <2>1, <2>2, <2>3, <3>2 DEF SentInv, r
  <2> QED BY <2>4, <2>5
<1>3. CASE pc' = "killed"
  BY <1>0, <1>3 DEF H!WriteName, H!Write, CtlInv, SignalInv
<1> QED BY <1>1, <1>2, <1>3 DEF H!WriteName, H!Write

LEMMA SentWriteNewline == CtlInv /\ LineInv /\ SentInv /\ H!WriteNewline
                            => LineInv' /\ SentInv'
<1> SUFFICES ASSUME CtlInv, LineInv, SentInv, H!WriteNewline PROVE LineInv' /\ SentInv'
  OBVIOUS
<1> DEFINE r == H!received
<1> USE DEF H!life, H!flags, H!signal, H!history
<1>0. pc = "newline" /\ ~written /\ ~dead /\ hook # H!newline /\ H!newline \in Tokens
  BY DEF H!WriteNewline, CtlInv, FlagInv, TypeInv, Tokens, H!Hooks, H!newline
<1>1. CASE pipe' = pipe /\ pc' = "restore"
  <2>1. H!received' = H!received /\ ~written'
    BY <1>1 DEF H!WriteNewline, H!received
  <2> QED BY <1>0, <1>1, <2>1, ReceivedSeq
          DEF H!WriteNewline, LineInv, Name, Broken, EndsOnlyAfter, SentInv, CtlInv, TypeInv
<1>2. CASE pipe' = Append(pipe, H!newline) /\ pc' = "restore"
  <2>0. pipe' # pipe
    BY <1>0, <1>2 DEF CtlInv, TypeInv
  <2>1. /\ Len(r') = Len(r) + 1 /\ Len(r) \in Nat /\ Len(sent) \in Nat
        /\ \A k \in 1..Len(r) : r'[k] = r[k]
        /\ r'[Len(r) + 1] = H!newline
    BY <1>0, <1>2, ReceivedWrite, ReceivedSeq DEF H!WriteNewline, CtlInv, TypeInv
  <2>2. UNCHANGED <<signals, hook, sent, dead>>
    BY DEF H!WriteNewline
  <2>3. Len(r) > 0 /\ r[Len(r)] = hook /\ (~H!killed => Len(r) = 2 * Len(sent) + 1)
    BY <1>0 DEF LineInv, SentInv
  <2> HIDE DEF r
  <2>4. LineInv'
    <3>1. \A k \in 1..Len(r') : r'[k] = H!newline => k > 1 /\ r'[k - 1] # H!newline
      <4>1. \A k \in 1..Len(r) : r[k] = H!newline => k > 1 /\ r[k - 1] # H!newline
        BY DEF LineInv, Name, r
      <4>2. r'[Len(r)] # H!newline /\ Len(r') > 1
        BY <1>0, <2>1, <2>3
      <4>3. \A k \in 1..Len(r') : k = Len(r') \/ k \in 1..Len(r)
        BY <2>1
      <4> QED BY <2>1, <4>1, <4>2, <4>3
    <3>2. ASSUME NEW k \in 1..Len(r') - 1, r'[k] # H!newline, r'[k + 1] # H!newline
          PROVE  /\ H!killed
                 /\ \A j \in k + 1..Len(r') : r'[j] # H!newline => r'[j] = "vlock_end"
      <4>1. k \in 1..Len(r) - 1 /\ r[k] # H!newline /\ r[k + 1] # H!newline
        <5>1. k # Len(r)
          BY <2>1, <3>2
        <5> QED BY <2>1, <3>2, <5>1
      <4>2. H!killed /\ \A j \in k + 1..Len(r) : r[j] # H!newline => r[j] = "vlock_end"
        BY <4>1 DEF LineInv, Name, Broken, EndsOnlyAfter, r
      <4>3. ASSUME NEW j \in k + 1..Len(r'), r'[j] # H!newline PROVE r'[j] = "vlock_end"
        <5>1. j \in k + 1..Len(r) /\ j \in 1..Len(r)
          <6>1. j # Len(r) + 1
            BY <2>1, <4>3
          <6> QED BY <2>1, <4>1, <6>1
        <5> QED BY <2>1, <4>2, <4>3, <5>1
      <4> QED BY <4>2, <4>3
    <3> QED BY <1>2, <2>1, <2>2, <3>1, <3>2 DEF LineInv, Name, Broken, EndsOnlyAfter, r
  <2>5. SentInv'
    <3> SUFFICES ASSUME ~H!killed PROVE SentInv'
      BY <2>2 DEF SentInv
    <3>1. /\ \A k \in 1..Len(sent) : r[2 * k - 1] = sent[k] /\ r[2 * k] = H!newline
          /\ r[2 * Len(sent) + 1] = hook
      BY <1>0 DEF SentInv, r
    <3>2. ASSUME NEW k \in 1..Len(sent)
          PROVE  r'[2 * k - 1] = sent[k] /\ r'[2 * k] = H!newline
      <4>1. 2 * k - 1 \in 1..Len(r) /\ 2 * k \in 1..Len(r)
        BY <2>1, <2>3
      <4> QED BY <2>1, <3>1, <4>1
    <3>4. r'[2 * Len(sent) + 1] = hook
      BY <2>1, <2>3, <3>1
    <3>3. written'
      BY <1>2, <2>0 DEF H!WriteNewline
    <3> QED BY <1>0, <1>2, <2>1, <2>2, <2>3, <3>2, <3>3, <3>4 DEF SentInv, r
  <2> QED BY <2>4, <2>5
<1>3. CASE pc' = "killed"
  BY <1>0, <1>3 DEF H!WriteNewline, H!Write, CtlInv, SignalInv
<1> QED BY <1>1, <1>2, <1>3 DEF H!WriteNewline, H!Write

-----------------------------------------------------------------------------
(* Opening the script                                                      *)

LEMMA OpenInit == Init => DataInv /\ OpenInv
BY ParameterAssumption, EmptySeq DEF Init, D!Init, H!Init, H!Life!Init, DataInv, OpenInv

(* A reading takes some of what the script printed, and what does not fit   *)
(* is not taken.                                                            *)
LEMMA ChunkOf == DataInv => /\ D!Chunk \in Seq(STRING) /\ Len(D!Chunk) \in Nat
                            /\ SubSeq(out, Len(D!Chunk) + 1, Len(out)) \in Seq(STRING)
<1> SUFFICES ASSUME DataInv PROVE /\ D!Chunk \in Seq(STRING)
                                  /\ SubSeq(out, Len(D!Chunk) + 1, Len(out)) \in Seq(STRING)
  OBVIOUS
<1>1. \A m \in Nat, n \in Int : n <= Len(out) => SubSeq(out, m + 1, n) \in Seq(STRING)
  BY SubSeqProperties DEF DataInv
<1>2. D!Chunk \in Seq(STRING)
  BY <1>1, ParameterAssumption DEF D!Chunk, DataInv
<1>3. Len(D!Chunk) \in Nat /\ Len(out) \in Int
  BY <1>2 DEF DataInv
<1> QED BY <1>1, <1>2, <1>3

LEMMA DataStep == DataInv /\ Next => DataInv'
<1> SUFFICES ASSUME DataInv, Next PROVE DataInv'
  OBVIOUS
<1> USE ParameterAssumption
<1>1. CASE D!CreateChild
  <2>1. CASE UNCHANGED <<says, out, data, timeout, elapsed>>
    BY <2>1 DEF DataInv
  <2>2. CASE /\ says' \in Outputs /\ out' = <<>> /\ data' = <<>>
             /\ timeout' = Timeout /\ elapsed' = 0
    BY <2>2, EmptySeq DEF DataInv
  <2> QED BY <1>1, <2>1, <2>2 DEF D!CreateChild, D!script
<1>2. CASE D!Select
  BY <1>2 DEF D!Select, D!script, DataInv
<1>3. CASE D!Read
  <2>1. UNCHANGED <<says, timeout, elapsed>> /\ out' \in Seq(STRING)
    BY <1>3, ChunkOf DEF D!Read
  <2>2. data' = data \/ (/\ data' = data \o D!Chunk
                        /\ ~(Len(data) + Len(D!Chunk) + 1 > LINE_MAX))
    BY <1>3 DEF D!Read
  <2>3. data' \in Seq(STRING) /\ Len(data') < LINE_MAX
    <3>1. /\ data \o D!Chunk \in Seq(STRING)
          /\ Len(data \o D!Chunk) = Len(data) + Len(D!Chunk)
          /\ Len(data) \in Nat /\ Len(D!Chunk) \in Nat
      BY ChunkOf, ConcatProperties DEF DataInv
    <3>2. data \in Seq(STRING) /\ Len(data) < LINE_MAX /\ LINE_MAX \in Nat
      BY DEF DataInv
    <3>3. Len(data) + Len(D!Chunk) + 1 <= LINE_MAX => Len(data \o D!Chunk) < LINE_MAX
      BY <3>1, <3>2
    <3>4. ~(Len(data) + Len(D!Chunk) + 1 > LINE_MAX)
                => Len(data) + Len(D!Chunk) + 1 <= LINE_MAX
      BY <3>1, <3>2
    <3> HIDE ParameterAssumption
    <3> QED BY <2>2, <3>1, <3>2, <3>3, <3>4
  <2> QED BY <2>1, <2>3 DEF DataInv
<1>4. CASE D!Error \/ D!Parse \/ D!Exit
  BY <1>4 DEF D!Error, D!Parse, D!Exit, DataInv
<1>5. CASE D!Say
  BY <1>5, HeadTailProperties DEF D!Say, DataInv
<1>6. CASE Load
  BY <1>6, EmptySeq DEF Load, DataInv
<1>7. CASE Hooks
  BY <1>7 DEF Hooks, opening, DataInv
<1> QED BY <1>1, <1>2, <1>3, <1>4, <1>5, <1>6, <1>7 DEF Next, Open, AskedScript, D!Open

LEMMA OpenStep == OpenInv /\ Next => OpenInv'
<1> SUFFICES ASSUME OpenInv, Next PROVE OpenInv'
  OBVIOUS
<1>1. CASE Open
  BY <1>1 DEF Open, D!Open, D!CreateChild, D!Select, D!Read, D!Error, D!Parse, D!script,
              hooks, OpenInv
<1>2. CASE AskedScript
  BY <1>2 DEF AskedScript, D!Say, D!Exit, hooks, OpenInv
<1>3. CASE Load
  BY <1>3 DEF Load, OpenInv
<1>4. CASE Hooks
  <2>1. outcome = "opened" /\ UNCHANGED <<dpc, asked, outcome>>
    BY <1>4 DEF Hooks, opening, OpenInv
  <2> QED BY <2>1 DEF OpenInv
<1> QED BY <1>1, <1>2, <1>3, <1>4 DEF Next

-----------------------------------------------------------------------------
(* The whole script                                                        *)

LEMMA InitInv == Init => ScriptInv
BY CtlInit, SentInit, OpenInit DEF ScriptInv, CtlInv

LEMMA HookStep == ASSUME CtlInv, LineInv, SentInv, H!Next \/ Load
                  PROVE  CtlInv' /\ LineInv' /\ SentInv'
<1>1. CASE H!Load
  BY <1>1, CtlLoad, SentLoad
<1>2. CASE H!CallSomeHook \/ H!Return
  BY <1>2, CtlCall, CtlReturn, SentCall, SentReturn
<1>3. CASE H!Launch \/ H!Launched \/ H!IgnoreSigpipe
  BY <1>3, CtlLaunch, CtlLaunched, CtlIgnore, SentLaunch, SentLaunched, SentIgnore
<1>4. CASE H!WriteName \/ H!WriteNewline \/ H!Restore
  BY <1>4, CtlWriteName, CtlWriteNewline, CtlRestore,
     SentWriteName, SentWriteNewline, SentRestore
<1>5. CASE H!Unload \/ H!Reap
  BY <1>5, CtlUnload, CtlReap, SentUnload, SentReap
<1>6. CASE H!Read \/ H!Leave \/ H!Kill
  BY <1>6, CtlRead, CtlLeave, CtlKill, SentRead, SentLeave, SentKill
<1> QED BY <1>1, <1>2, <1>3, <1>4, <1>5, <1>6 DEF H!Next, Load

LEMMA NextInv == ScriptInv /\ [Next]_vars => ScriptInv'
<1> SUFFICES ASSUME ScriptInv, [Next]_vars PROVE ScriptInv'
  OBVIOUS
<1>1. CASE Next
  <2>1. DataInv' /\ OpenInv'
    BY <1>1, DataStep, OpenStep DEF ScriptInv
  <2>2. CtlInv /\ LineInv /\ SentInv
    BY DEF ScriptInv, CtlInv
  <2>3. CtlInv' /\ LineInv' /\ SentInv'
    BY <1>1, <2>2, HookStep, CtlUnchanged, SentUnchanged DEF Next, Open, AskedScript, Hooks
  <2> QED BY <2>1, <2>3 DEF ScriptInv, CtlInv
<1>2. CASE UNCHANGED vars
  <2>1. DataInv' /\ OpenInv'
    BY <1>2 DEF vars, opening, hooks, ScriptInv, DataInv, OpenInv
  <2>2. CtlInv' /\ LineInv' /\ SentInv'
    BY <1>2, CtlUnchanged, SentUnchanged DEF vars, ScriptInv, CtlInv
  <2> QED BY <2>1, <2>2 DEF ScriptInv, CtlInv
<1> QED BY <1>1, <1>2

LEMMA Invariance == Spec => []ScriptInv
BY InitInv, NextInv, PTL DEF Spec

-----------------------------------------------------------------------------
(* What is read of a script                                                *)

(* Reading moves characters from the pipe to the data, and takes none only  *)
(* if there are none.                                                       *)
LEMMA ReadSome == DataInv => /\ D!Chunk \o SubSeq(out, Len(D!Chunk) + 1, Len(out)) = out
                             /\ D!Chunk = <<>> => out = <<>>
<1> SUFFICES ASSUME DataInv
             PROVE  /\ D!Chunk \o SubSeq(out, Len(D!Chunk) + 1, Len(out)) = out
                    /\ D!Chunk = <<>> => out = <<>>
  OBVIOUS
<1> DEFINE n == IF Len(out) < LINE_MAX THEN Len(out) ELSE LINE_MAX - 1
<1>1. /\ out \in Seq(STRING) /\ n \in 0..Len(out)
      /\ n = 0 => Len(out) = 0
  BY ParameterAssumption DEF DataInv
<1>2. D!Chunk = SubSeq(out, 1, n)
  BY DEF D!Chunk
<1> HIDE DEF n
<1>3. Len(D!Chunk) = n
  BY <1>1, <1>2
<1>4. SubSeq(out, 1, n) \o SubSeq(out, n + 1, Len(out)) = SubSeq(out, 1, Len(out))
  <2>1. 1 \in 1..Len(out) + 1 /\ n \in 1 - 1..Len(out) /\ Len(out) \in n..Len(out)
    BY <1>1
  <2> QED BY <1>1, <2>1, ConcatAdjacentSubSeq
<1>5. SubSeq(out, 1, Len(out)) = out
  BY <1>1, SubSeqFull
<1>6. ASSUME D!Chunk = <<>> PROVE out = <<>>
  BY <1>1, <1>3, <1>6
<1> QED BY <1>2, <1>3, <1>4, <1>5, <1>6

(* A character that is printed comes last in all of them.                   *)
LEMMA SaySame ==
  ASSUME NEW s \in Seq(STRING), NEW t \in Seq(STRING), NEW c \in STRING
  PROVE  s \o Append(t, c) = Append(s \o t, c)
<1>1. Append(t, c) = t \o <<c>>
  BY AppendIsConcat
<1>2. s \o t \in Seq(STRING) /\ <<c>> \in Seq(STRING)
  <2>1. s \o t \in Seq(STRING)
    OBVIOUS
  <2>2. \A S : \A d \in S : <<d>> \in Seq(S)
    OBVIOUS
  <2> QED BY <2>1, <2>2, Zenon
<1>3. Append(s \o t, c) = (s \o t) \o <<c>>
  BY <1>2, AppendIsConcat
<1>4. (s \o t) \o <<c>> = s \o (t \o <<c>>)
  BY <1>2, ConcatAssociative
<1> QED BY <1>1, <1>3, <1>4

LEMMA PrintInit == Init => PrintInv
BY EmptySeq DEF Init, D!Init, PrintInv

LEMMA PrintOpen == DataInv /\ PrintInv /\ Open => PrintInv'
<1> SUFFICES ASSUME DataInv, PrintInv, Open PROVE PrintInv'
  OBVIOUS
<1>1. CASE D!CreateChild
  <2>1. CASE printed' = <<>> /\ out' = <<>> /\ data' = <<>> /\ dpc' = "select"
    <3>1. data' \o out' = printed'
      BY <2>1, EmptySeq, ConcatEmptySeq
    <3> QED BY <2>1, <3>1, EmptySeq DEF PrintInv
  <2>2. CASE UNCHANGED printed /\ dpc' = "done"
    BY <2>2 DEF PrintInv
  <2> QED BY <1>1, <2>1, <2>2 DEF D!CreateChild, D!script
<1>2. CASE D!Select
  BY <1>2 DEF D!Select, D!script, PrintInv, D!Readable
<1>3. CASE D!Read
  <2>1. UNCHANGED <<printed, asked>> /\ dpc = "read"
        /\ out' = SubSeq(out, Len(D!Chunk) + 1, Len(out))
    BY <1>3 DEF D!Read
  <2>2. data \o out = printed /\ printed \in Seq(STRING) /\ D!Readable
    BY <2>1 DEF PrintInv
  <2>3. D!Chunk \o out' = out /\ (D!Chunk = <<>> => out = <<>>)
    BY <2>1, ReadSome
  <2>4. /\ D!Chunk \in Seq(STRING) /\ out' \in Seq(STRING) /\ data \in Seq(STRING)
        /\ out \in Seq(STRING)
    BY <2>1, ChunkOf DEF DataInv
  <2>5. CASE D!Chunk = <<>> /\ dpc' = "parse" /\ UNCHANGED data
    <3>1. out = <<>> /\ out' = <<>>
      BY <2>3, <2>4, <2>5, ConcatEmptySeq
    <3> QED BY <2>1, <2>2, <2>5, <3>1 DEF PrintInv, D!Readable
  <2>6. CASE dpc' = "error"
    BY <2>1, <2>2, <2>6 DEF PrintInv
  <2>7. CASE data' = data \o D!Chunk /\ dpc' = "select"
    <3>1. (data \o D!Chunk) \o out' = data \o (D!Chunk \o out')
      BY <2>4, ConcatAssociative
    <3>2. data' \o out' = printed
      BY <2>2, <2>3, <2>7, <3>1
    <3> QED BY <2>1, <2>2, <2>7, <3>2 DEF PrintInv
  <2> QED BY <1>3, <2>5, <2>6, <2>7 DEF D!Read
<1>4. CASE D!Error \/ D!Parse
  BY <1>4 DEF D!Error, D!Parse, PrintInv
<1> QED BY <1>1, <1>2, <1>3, <1>4 DEF Open, D!Open

LEMMA PrintAsked == DataInv /\ PrintInv /\ AskedScript => PrintInv'
<1> SUFFICES ASSUME DataInv, PrintInv, AskedScript PROVE PrintInv'
  OBVIOUS
<1>1. CASE D!Say
  <2> DEFINE c == Head(says)
  <2>1. c \in STRING /\ data \in Seq(STRING) /\ out \in Seq(STRING) /\ printed \in Seq(STRING)
    BY <1>1, HeadTailProperties DEF D!Say, DataInv, PrintInv
  <2>2. /\ UNCHANGED <<dpc, data, asked>> /\ asked = "running"
        /\ out' = Append(out, c) /\ printed' = Append(printed, c)
    BY <1>1 DEF D!Say
  <2> HIDE DEF c
  <2>3. data \o Append(out, c) = Append(data \o out, c)
    BY <2>1, SaySame
  <2>4. printed' \in Seq(STRING) /\ out' # <<>>
    BY <2>1, <2>2, AppendProperties
  <2> QED BY <2>2, <2>3, <2>4 DEF PrintInv, D!Readable
<1>2. CASE D!Exit
  BY <1>2 DEF D!Exit, PrintInv, D!Readable
<1> QED BY <1>1, <1>2 DEF AskedScript

LEMMA PrintStep == DataInv /\ PrintInv /\ [Next]_vars => PrintInv'
<1>1. ASSUME DataInv, PrintInv, Load PROVE PrintInv'
  BY <1>1, EmptySeq DEF Load, PrintInv
<1>2. ASSUME DataInv, PrintInv, Hooks \/ UNCHANGED vars PROVE PrintInv'
  <2>1. UNCHANGED opening
    BY <1>2 DEF Hooks, vars
  <2> QED BY <1>2, <2>1 DEF opening, PrintInv, D!Readable
<1> QED BY <1>1, <1>2, PrintOpen, PrintAsked DEF Next

LEMMA Reading == Spec => [](DataInv /\ PrintInv)
<1>1. ScriptInv => DataInv
  BY DEF ScriptInv
<1> QED BY <1>1, PrintInit, PrintStep, Invariance, PTL DEF Spec

-----------------------------------------------------------------------------
(* The theorems                                                            *)

(* What is read of a dependency leaves room for the terminating NUL, and    *)
(* all reading of it together takes no longer than the timeout.             *)
THEOREM ReadingIsBounded == Spec => []WithinLimits
<1>1. ScriptInv => WithinLimits
  BY ParameterAssumption DEF ScriptInv, DataInv, WithinLimits
<1> QED BY <1>1, Invariance, PTL

(* Whatever a script does with its input, vlock does not die of SIGPIPE.    *)
THEOREM VlockSurvives == Spec => []SurvivesScripts
<1>1. ScriptInv => SurvivesScripts
  BY DEF ScriptInv, SignalInv, SurvivesScripts, H!SurvivesScripts
<1> QED BY <1>1, Invariance, PTL

(* A script whose destruction is complete leaves no process and no pipe     *)
(* behind, unless a signal came while it was launched.                      *)
THEOREM ScriptsAreGone == Spec => []NothingLeft
<1>1. ScriptInv => NothingLeft
  BY DEF ScriptInv, GoneInv, OpenInv, NothingLeft, H!NothingLeft
<1> QED BY <1>1, Invariance, PTL

(* Between calls, the complete lines written to a script are the hooks that *)
(* were reported as called; a broken line is the last thing written, unless *)
(* a fatal signal has broken it off: then only vlock_end follows.           *)
THEOREM ReportsAreTrue == Spec => []ReportedIffSent
<1>1. ScriptInv => H!LinesWhole
  <2> SUFFICES ASSUME ScriptInv, NEW k \in 1..Len(H!received)
               PROVE  /\ ~Name(k) => k > 1 /\ Name(k - 1)
                      /\ Name(k) /\ k < Len(H!received) /\ Name(k + 1) =>
                            H!killed /\ EndsOnlyAfter(k)
    BY DEF H!LinesWhole, H!Name, Name, EndsOnlyAfter
  <2>1. Len(H!received) \in Nat
    BY ReceivedSeq DEF ScriptInv
  <2> QED BY <2>1 DEF ScriptInv, LineInv, Broken
<1>2. ASSUME ScriptInv, pc = "idle", ~H!killed PROVE H!Lines(H!received) = sent
  <2> DEFINE r == H!received
  <2>1. Len(r) \in Nat /\ sent \in Seq(H!Hooks) /\ Len(sent) \in Nat
    BY <1>2, ReceivedSeq DEF ScriptInv, TypeInv
  <2>2. 2 * Len(sent) <= Len(r) /\ Len(r) <= 2 * Len(sent) + 1
    BY <1>2, <2>1 DEF ScriptInv, SentInv, TypeInv, FlagInv
  <2>3. \A k \in 1..Len(sent) : r[2 * k - 1] = sent[k]
    BY <1>2 DEF ScriptInv, SentInv
  <2> HIDE DEF r
  <2>4. Len(r) \div 2 = Len(sent)
    BY <2>1, <2>2
  <2>5. sent = [k \in 1..Len(sent) |-> sent[k]]
    BY <2>1
  <2>6. [k \in 1..Len(r) \div 2 |-> r[2 * k - 1]] = [k \in 1..Len(sent) |-> sent[k]]
    BY <2>3, <2>4
  <2> QED BY <2>5, <2>6, ZenonT(30) DEF H!Lines, r
<1>3. ScriptInv => ReportedIffSent
  BY <1>1, <1>2 DEF ReportedIffSent, H!ReportedIffSent
<1> QED BY <1>3, Invariance, PTL

(* After one hook that it did not get a script is sent no other one.        *)
THEOREM SilenceAfterMiss == Spec => SilentAfterMiss
<1>1. ScriptInv /\ [Next]_vars => [missed => Len(H!received)' = Len(H!received)]_(H!vars)
  <2> SUFFICES ASSUME ScriptInv, Next, missed PROVE H!received' = H!received
    BY DEF vars, hooks, H!vars, H!life, H!flags, H!script, H!signal, H!history
  <2>1. CASE Open \/ AskedScript
    BY <2>1 DEF Open, AskedScript, hooks, H!received
  <2>2. CASE H!Read
    BY <2>2, ReceivedRead DEF ScriptInv
  <2>3. CASE H!WriteName \/ H!WriteNewline
    BY <2>3 DEF ScriptInv, MissInv, H!WriteName, H!WriteNewline
  <2>4. CASE H!Load \/ H!CallSomeHook \/ H!Return \/ H!Launch \/ H!Launched
             \/ H!IgnoreSigpipe
    BY <2>4 DEF H!Load, H!CallSomeHook, H!CallHook, H!Return, H!Launch, H!Launched,
                H!IgnoreSigpipe, H!script, H!received
  <2>5. CASE H!Restore \/ H!Unload \/ H!Reap \/ H!Leave \/ H!Kill
    BY <2>5 DEF H!Restore, H!Unload, H!Reap, H!Leave, H!Kill, H!script, H!received
  <2> QED BY <2>1, <2>2, <2>3, <2>4, <2>5 DEF Next, Load, Hooks, H!Next
<1> QED BY <1>1, Invariance, PTL DEF Spec, SilentAfterMiss, H!SilentAfterMiss

(* Whatever the moments at which a script prints, exits and is read, its    *)
(* dependencies are taken only when it can print no more, and from exactly  *)
(* all that it printed; nothing else adds to them (script.c:115-184, 202).   *)
THEOREM NothingIsLost ==
  Spec => [][Len(items') > Len(items) =>
                /\ asked = "exited" /\ out = <<>>
                /\ items' = Append(items, D!split(D!strip(printed)))]_vars
<1>1. ASSUME DataInv, PrintInv, Next, Len(items') > Len(items)
      PROVE  /\ asked = "exited" /\ out = <<>>
             /\ items' = Append(items, D!split(D!strip(printed)))
  <2>1. CASE D!Parse
    <3>1. out = <<>> /\ asked = "exited" /\ data \o out = printed
      BY <1>1, <2>1 DEF D!Parse, PrintInv
    <3>2. data = printed
      BY <1>1, <3>1, ConcatEmptySeq DEF DataInv
    <3> QED BY <2>1, <3>1, <3>2 DEF D!Parse
  <2>2. UNCHANGED items => FALSE
    BY <1>1
  <2> QED BY <1>1, <2>1, <2>2
      DEF Next, Open, D!Open, AskedScript, Load, Hooks, opening,
          D!CreateChild, D!Select, D!Read, D!Error, D!Say, D!Exit
<1>2. /\ DataInv /\ PrintInv /\ [Next]_vars
      => [Len(items') > Len(items) =>
                /\ asked = "exited" /\ out = <<>>
                /\ items' = Append(items, D!split(D!strip(printed)))]_vars
  BY <1>1
<1> QED BY <1>2, Reading, PTL DEF Spec

=============================================================================
