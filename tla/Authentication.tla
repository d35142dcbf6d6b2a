--------------------------- MODULE Authentication ---------------------------
(***************************************************************************)
(* One call of auth(): with PAM (auth-pam.c), which asks what it wants to  *)
(* know through conversation(), or with the shadow file (auth-shadow.c).   *)
(* Both ask through the prompts of module Prompt, while somebody types.    *)
(*                                                                         *)
(* PAM is external: it may call conversation() any number of times, with   *)
(* any messages, and decide as it likes; a failed conversation makes it    *)
(* refuse with one of the four codes that auth() expects then, unless      *)
(* another method grants access.                                           *)
(***************************************************************************)
EXTENDS Prompt

CONSTANTS
    Methods,        \* subset of {"pam", "shadow"}: what vlock is built with
    Conversations,  \* lists of messages that PAM may come with
    MaxCalls        \* bound: conversations

Styles == {"echo_off", "echo_on", "text", "unknown"}

ASSUME AuthenticationAssumption ==
    /\ Methods \subseteq {"pam", "shadow"}
    /\ Conversations \subseteq Seq(Styles) /\ MaxCalls \in Nat

VARIABLES
    method,
    apc,            \* where auth() is
    msgs, i,        \* the messages of the conversation; the one at hand
    calls,          \* how many conversations there were
    resp,           \* messages with a response that vlock has to free
    conv_error,     \* "none", "timeout" or "failed"
    pam_status,     \* "success", "denied", "other"
    error, granted, \* what auth() returns
    found,          \* history: the flags of the terminal before the call
    timed_out       \* history: a prompt was not answered in time

conv == <<msgs, i, calls, resp, conv_error>>
verdict == <<pam_status, error, granted>>
history == <<found, timed_out>>
vars == <<promptVars, method, apc, conv, verdict, history>>

Flags == {"echo", "isig", "icanon"}

TypeOK ==
    /\ pc \in {"idle", "echo", "isig", "loop", "select", "before_select", "read",
               "canonical", "handle", "copy", "out", "echo_back", "done"}
    /\ flags \subseteq Flags
    /\ saved \in Seq(SUBSET Flags) /\ Len(saved) <= 3
    /\ buffer \in Seq(Keys \cup {nul}) /\ Len(buffer) <= BufferSize
    /\ err \in {"none", "timeout", "failed"}
    /\ input \in Seq(Keys) /\ Len(input) <= MaxKeys
    /\ apc \in {"start", "pam", "message", "asking", "fail", "verify",
                "end", "returned"}
    /\ msgs \in Seq(Styles) /\ resp \subseteq 1..Len(msgs) + 1
    /\ error \in {"none", "timeout", "failed", "denied"}

Init ==
    /\ PromptInit
    /\ method \in Methods
    /\ apc = "start"
    /\ msgs = <<>> /\ i = 0 /\ calls = 0 /\ resp = {}
    /\ conv_error = "none"
    /\ pam_status = "success"
    /\ error = "none" /\ granted = FALSE
    /\ found = flags /\ timed_out = FALSE

-----------------------------------------------------------------------------
(* auth() of auth-pam.c                                                    *)

(* pam_start() and pam_set_item(): either may fail.                        *)
Start ==
    /\ apc = "start" /\ method = "pam"
    /\ \/ apc' = "pam" /\ UNCHANGED <<pam_status, error>>
       \/ apc' = "returned" /\ pam_status' = "other" /\ error' = "failed"
       \/ apc' = "end" /\ pam_status' = "other" /\ error' = "failed"
    /\ UNCHANGED <<promptVars, method, conv, granted, history>>

(* pam_authenticate() has come to a decision.                              *)
Decide ==
    /\ apc = "pam"
    /\ \/ pam_status' \in {"success", "denied"}
       \/ conv_error = "none" /\ pam_status' = "other"
    /\ error' = CASE pam_status' = "success" -> "none"
                  [] pam_status' = "denied" /\ conv_error # "none" -> conv_error
                  [] pam_status' = "denied" /\ conv_error = "none" -> "denied"
                  [] pam_status' = "other" -> "failed"
    /\ apc' = "end"
    /\ UNCHANGED <<promptVars, method, conv, granted, history>>

(* Mutant: an error of pam_end() is not reported. *)
End_Silent ==
    /\ apc = "end"
    /\ \E ok \in BOOLEAN : granted' = (ok /\ pam_status = "success")
    /\ apc' = "returned"
    /\ UNCHANGED <<promptVars, method, conv, pam_status, error, history>>

End ==
    /\ apc = "end"
    /\ \E ok \in BOOLEAN :
          /\ granted' = (ok /\ pam_status = "success")
          /\ error' = IF ~ok /\ error = "none" THEN "failed" ELSE error
    /\ apc' = "returned"
    /\ UNCHANGED <<promptVars, method, conv, pam_status, history>>

-----------------------------------------------------------------------------
(* conversation(), which refuses to talk after an error.                   *)

Converse ==
    /\ apc = "pam" /\ calls < MaxCalls
    /\ calls' = calls + 1
    /\ IF conv_error # "none"
       THEN UNCHANGED <<apc, msgs, i>>
       ELSE /\ msgs' \in Conversations
            /\ i' = 1
            /\ apc' = "message"
    /\ UNCHANGED <<promptVars, method, resp, conv_error, verdict, history>>

Ask ==
    /\ apc = "message" /\ i <= Len(msgs)
    /\ msgs[i] \in {"echo_off", "echo_on"}
    /\ Call(msgs[i])
    /\ apc' = "asking"
    /\ UNCHANGED <<method, conv, verdict, history>>

Tell ==
    /\ apc = "message" /\ i <= Len(msgs)
    /\ \/ msgs[i] = "text" /\ i' = i + 1 /\ UNCHANGED apc
       \/ msgs[i] = "unknown" /\ apc' = "fail" /\ UNCHANGED i
    /\ UNCHANGED <<promptVars, method, msgs, calls, resp, conv_error, verdict, history>>

(* The prompt returns to the conversation, or to auth() of auth-shadow.c.  *)
Answered ==
    /\ apc = "asking" /\ pc = "done"
    /\ pc' = "idle"
    /\ err' = "none" /\ reply' = NoReply
    /\ timed_out' = (timed_out \/ err = "timeout")
    /\ \/ /\ reply # NoReply
          /\ resp' = resp \cup {i}
          /\ \/ method = "pam" /\ i' = i + 1 /\ apc' = "message"
             \/ method = "shadow" /\ apc' = "verify" /\ UNCHANGED i
          /\ UNCHANGED <<conv_error, error>>
       \/ /\ reply = NoReply
          /\ \/ method = "pam" /\ apc' = "fail" /\ conv_error' = err /\ UNCHANGED error
             \/ method = "shadow" /\ apc' = "returned" /\ error' = err /\ UNCHANGED conv_error
          /\ UNCHANGED <<resp, i>>
    /\ UNCHANGED <<callee, flags, timed, input, world, past, method, msgs, calls,
                   pam_status, granted, found>>

(* PAM owns the responses from now on.                                     *)
HandOver ==
    /\ apc = "message" /\ i > Len(msgs)
    /\ resp' = {} /\ msgs' = <<>> /\ i' = 0
    /\ apc' = "pam"
    /\ UNCHANGED <<promptVars, method, calls, conv_error, verdict, history>>

(* Mutant: only the response that could not be had is freed. *)
FailConversation_OnlyLast ==
    /\ apc = "fail"
    /\ resp' = resp \ {i} /\ msgs' = <<>> /\ i' = 0
    /\ apc' = "pam"
    /\ UNCHANGED <<promptVars, method, calls, conv_error, verdict, history>>

(* Every response there is is wiped and freed.                             *)
FailConversation ==
    /\ apc = "fail"
    /\ resp' = {} /\ msgs' = <<>> /\ i' = 0
    /\ apc' = "pam"
    /\ UNCHANGED <<promptVars, method, calls, conv_error, verdict, history>>

-----------------------------------------------------------------------------
(* auth() of auth-shadow.c: ask once and compare.                          *)

AskPassword ==
    /\ apc = "start" /\ method = "shadow"
    /\ \/ /\ Call("echo_off") /\ i' = 1 /\ apc' = "asking"
          /\ UNCHANGED error
       \/ /\ error' = "failed" /\ apc' = "returned"
          /\ UNCHANGED <<promptVars, i>>
    /\ UNCHANGED <<method, msgs, calls, resp, conv_error, pam_status, granted, history>>

(* The user is unknown or the password wrong, something fails, or it is right. *)
Verify ==
    /\ apc = "verify"
    /\ \/ granted' = TRUE /\ UNCHANGED error
       \/ error' \in {"denied", "failed"} /\ UNCHANGED granted
    /\ resp' = {}
    /\ apc' = "returned"
    /\ UNCHANGED <<promptVars, method, msgs, i, calls, conv_error, pam_status, history>>

-----------------------------------------------------------------------------
Outside == /\ apc # "returned"
           /\ World
           /\ UNCHANGED <<method, apc, conv, verdict, history>>

Prompting == PromptStep /\ UNCHANGED <<method, apc, conv, verdict, history>>

Vlock == \/ Start \/ End \/ Ask \/ Tell \/ Answered \/ HandOver \/ FailConversation
         \/ AskPassword \/ Verify \/ Prompting

Next == Vlock \/ Decide \/ Converse \/ Outside

(* vlock runs and PAM decides at last; nobody has to type.                 *)
Spec == Init /\ [][Next]_vars /\ WF_vars(Vlock) /\ WF_vars(Decide)

-----------------------------------------------------------------------------
(* auth() reports an error exactly if it does not grant access, and a       *)
(* refusal only to somebody who was not cut off by the timeout: auth_loop() *)
(* relies on the first, and the user on the second.                         *)
ErrorTellsWhy ==
    apc = "returned" =>
        /\ granted <=> error = "none"
        /\ error = "denied" => ~timed_out
        /\ error = "timeout" => timed_out

(* However prompts, conversations and PAM fail, nothing remains of a call:  *)
(* no response is kept, none is freed that PAM was given, and the terminal  *)
(* has the flags it had before.                                             *)
NothingRemains == apc = "returned" => /\ resp = {}
                                      /\ ~hungup => flags = found

(* With a timeout for its prompts auth() returns: as soon as nothing is     *)
(* typed and no signals are caught for long enough.                         *)
AuthReturns == timed ~> apc = "returned"
=============================================================================
