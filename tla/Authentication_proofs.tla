----------------------- MODULE Authentication_proofs -----------------------
(***************************************************************************)
(* A call of auth(), with any flags of the terminal, any buffer, anything  *)
(* typed and any conversations.                                            *)
(***************************************************************************)
EXTENDS Authentication, SequenceTheorems, NaturalsInduction, WellFoundedInduction, TLAPS

(* What the nested functions keep: prompt_echo_off() the flags that were    *)
(* found, prompt() those that it was shown, wait_for_character() what that  *)
(* made of them.                                                            *)
Outer == IF style = "echo_off" THEN <<found>> ELSE <<>>
Shown == IF style = "echo_off" THEN found \ {"echo"} ELSE found
Quiet == Shown \ {"isig"}

Waiting == {"select", "before_select", "read", "canonical"}
Prompted == {"loop", "handle", "copy", "out"}

FlagsInv ==
    /\ found \in SUBSET Flags
    /\ style \in {"echo_off", "echo_on"}
    /\ pc \in {"idle", "echo", "done"} => saved = <<>> /\ flags = found
    /\ pc \in {"isig", "echo_back"} => saved = Outer /\ flags = Shown
    /\ pc \in Prompted => saved = Append(Outer, Shown) /\ flags = Quiet
    /\ pc \in Waiting =>
          saved = Append(Append(Outer, Shown), Quiet) /\ flags = Quiet \ {"icanon"}
    /\ pc \in {"echo", "echo_back"} => style = "echo_off"

(* A prompt has an answer or an error when it is over, and never both.      *)
ReplyInv ==
    /\ pc \in {"idle", "echo", "isig", "echo_back", "done"} \union Waiting \union Prompted
    /\ err \in {"none", "timeout", "failed"}
    /\ pc \in {"idle", "echo", "isig", "loop", "select", "before_select", "read", "copy"} =>
          err = "none" /\ reply = NoReply
    /\ pc \in {"canonical", "handle"} => reply = NoReply
    /\ pc \in {"out", "echo_back", "done"} => (reply = NoReply <=> err # "none")

(* Where auth() is, and that it asks exactly while there is a prompt.       *)
PlaceInv ==
    /\ method \in {"pam", "shadow"}
    /\ apc \in {"start", "pam", "message", "asking", "fail", "verify", "end", "returned"}
    /\ apc \in {"pam", "message", "fail", "end"} => method = "pam"
    /\ apc = "verify" => method = "shadow"
    /\ apc = "asking" <=> pc # "idle"

(* The error of a conversation tells whether a prompt timed out, and after  *)
(* an error there is no other one.                                          *)
ErrorInv ==
    /\ conv_error \in {"none", "timeout", "failed"}
    /\ error \in {"none", "timeout", "failed", "denied"}
    /\ apc \in {"start", "message", "asking", "verify"} => conv_error = "none"
    /\ apc # "returned" => timed_out = (conv_error = "timeout") /\ granted = FALSE
    /\ apc \notin {"end", "returned"} => error = "none"
    /\ apc = "end" => /\ pam_status = "success" <=> error = "none"
                      /\ error = "denied" => conv_error = "none"
                      /\ error = "timeout" => conv_error = "timeout"
    /\ ErrorTellsWhy

(* Only a conversation has responses, or the comparison with the shadow     *)
(* file.                                                                    *)
RespInv ==
    /\ apc \in {"start", "pam", "end", "returned"} => resp = {}
    /\ apc = "asking" /\ method = "shadow" => resp = {}

AuthInv == FlagsInv /\ ReplyInv /\ PlaceInv /\ ErrorInv /\ RespInv

-----------------------------------------------------------------------------
(* A function that returns finds on top of the stack what it put there.     *)
LEMMA PutAndGet ==
  ASSUME NEW S, NEW s \in Seq(S), NEW e \in S
  PROVE  Last(Append(s, e)) = e /\ Front(Append(s, e)) = s
  <1>1. Append(s, e) \in Seq(S) /\ Len(Append(s, e)) = Len(s) + 1
    OBVIOUS
  <1>2. Last(Append(s, e)) = e
    BY <1>1 DEF Last
  <1>3. Front(Append(s, e)) = SubSeq(Append(s, e), 1, Len(s))
    BY <1>1 DEF Front
  <1>4. SubSeq(Append(s, e), 1, Len(s)) = s
    BY <1>1, SubSeqProperties
  <1>5. QED
    BY <1>2, <1>3, <1>4

LEMMA ResetGets ==
  ASSUME NEW s \in Seq(SUBSET Flags), NEW e \in SUBSET Flags, saved = Append(s, e), Reset
  PROVE  flags' = e /\ saved' = s
  <1>1. Last(saved) = e /\ Front(saved) = s
    BY PutAndGet
  <1>2. QED
    BY <1>1 DEF Reset

LEMMA Stacks ==
  ASSUME FlagsInv
  PROVE  /\ Outer \in Seq(SUBSET Flags) /\ Shown \in SUBSET Flags /\ Quiet \in SUBSET Flags
         /\ Append(Outer, Shown) \in Seq(SUBSET Flags)
  <1>1. found \in SUBSET Flags /\ Shown \in SUBSET Flags /\ Quiet \in SUBSET Flags
    BY DEF FlagsInv, Shown, Quiet
  <1>2. Outer \in Seq(SUBSET Flags)
    <2>1. <<found>> \in Seq(SUBSET Flags)
      BY <1>1
    <2>2. <<>> \in Seq(SUBSET Flags)
      BY EmptySeq
    <2>3. QED
      BY <2>1, <2>2 DEF Outer
  <1>3. Append(Outer, Shown) \in Seq(SUBSET Flags)
    BY <1>1, <1>2, AppendProperties
  <1>4. QED
    BY <1>1, <1>2, <1>3

LEMMA InitInv == ASSUME Init PROVE AuthInv
  <1>1. FlagsInv
    BY PromptAssumption DEF Init, PromptInit, FlagsInv, Flags, Waiting, Prompted
  <1>2. ReplyInv /\ PlaceInv
    BY AuthenticationAssumption DEF Init, PromptInit, ReplyInv, PlaceInv, Waiting, Prompted
  <1>3. ErrorInv /\ RespInv
    BY DEF Init, ErrorInv, ErrorTellsWhy, RespInv
  <1>4. QED
    BY <1>1, <1>2, <1>3 DEF AuthInv

(* The flags of the terminal, step by step of a prompt.                     *)
LEMMA PromptFlags == ASSUME FlagsInv, PromptStep, UNCHANGED found PROVE FlagsInv'
  <1> USE DEF FlagsInv, callee, Waiting, Prompted
  <1>0. /\ style' = style /\ Outer' = Outer /\ Shown' = Shown /\ Quiet' = Quiet
    BY DEF PromptStep, EchoOff, SignalsOff, CanonicalOff, Ready, NotReady, Restart, ReadByte,
           CanonicalBack, Handle, BufferFull, Copy, Out, EchoBack, Outer, Shown, Quiet
  <1>1. CASE EchoOff
    BY <1>0, <1>1 DEF EchoOff, Clear, Outer, Shown
  <1>2. CASE SignalsOff
    BY <1>0, <1>2 DEF SignalsOff, Clear, Quiet
  <1>3. CASE CanonicalOff
    BY <1>0, <1>3 DEF CanonicalOff, Clear
  <1>4. CASE Ready \/ NotReady \/ Restart \/ ReadByte \/ Handle \/ BufferFull \/ Copy
    BY <1>0, <1>4 DEF Ready, NotReady, Restart, ReadByte, Handle, BufferFull, Copy
  <1>5. CASE CanonicalBack
    <2>1. flags' = Quiet /\ saved' = Append(Outer, Shown)
      BY <1>5, Stacks, ResetGets DEF CanonicalBack
    <2>2. QED
      BY <1>0, <1>5, <2>1 DEF CanonicalBack
  <1>6. CASE Out
    <2>1. flags' = Shown /\ saved' = Outer
      BY <1>6, Stacks, ResetGets DEF Out
    <2>2. QED
      BY <1>0, <1>6, <2>1 DEF Out, Outer, Shown
  <1>7. CASE EchoBack
    <2>1. saved = Append(<<>>, found) /\ found \in SUBSET Flags
      BY <1>7 DEF EchoBack, Outer
    <2>2. flags' = found /\ saved' = <<>>
      BY <1>7, <2>1, ResetGets, EmptySeq DEF EchoBack
    <2>3. QED
      BY <1>0, <1>7, <2>2 DEF EchoBack
  <1>8. QED
    BY <1>1, <1>2, <1>3, <1>4, <1>5, <1>6, <1>7 DEF PromptStep

(* The answer of a prompt, step by step.                                    *)
LEMMA PromptReplies == ASSUME ReplyInv, PromptStep PROVE ReplyInv'
  <1> USE DEF ReplyInv, Waiting, Prompted, result
  <1>1. CASE EchoOff \/ SignalsOff \/ CanonicalOff \/ Ready \/ Restart \/ ReadByte \/ CanonicalBack
    BY <1>1 DEF EchoOff, SignalsOff, CanonicalOff, Ready, Restart, ReadByte, CanonicalBack
  <1>2. CASE NotReady
    BY <1>2 DEF NotReady
  <1>3. CASE Handle \/ BufferFull
    BY <1>3 DEF Handle, BufferFull
  <1>4. CASE Copy
    <2>1. ASSUME NEW a PROVE <<a>> # NoReply
      BY DEF NoReply
    <2>2. QED
      BY <1>4, <2>1 DEF Copy
  <1>5. CASE Out \/ EchoBack
    BY <1>5 DEF Out, EchoBack
  <1>6. QED
    BY <1>1, <1>2, <1>3, <1>4, <1>5 DEF PromptStep

LEMMA PromptingKeeps == ASSUME AuthInv, Prompting PROVE AuthInv'
  <1>1. FlagsInv'
    BY PromptFlags DEF AuthInv, Prompting, history
  <1>2. ReplyInv'
    BY PromptReplies DEF AuthInv, Prompting
  <1>3. pc # "idle" /\ pc' # "idle"
    BY DEF Prompting, PromptStep, EchoOff, SignalsOff, CanonicalOff, Ready, NotReady, Restart,
           ReadByte, CanonicalBack, Handle, BufferFull, Copy, Out, EchoBack
  <1>4. PlaceInv' /\ ErrorInv' /\ RespInv'
    BY <1>3 DEF AuthInv, Prompting, conv, verdict, history, PlaceInv, ErrorInv, ErrorTellsWhy, RespInv
  <1>5. QED
    BY <1>1, <1>2, <1>4 DEF AuthInv

(* Whoever types, hangs up or sends a signal changes nothing of this but    *)
(* that a wait begins anew.                                                 *)
LEMMA OutsideKeeps == ASSUME AuthInv, Outside PROVE AuthInv'
  <1>1. /\ UNCHANGED <<callee, flags, result, method, apc, conv, verdict, history>>
        /\ \/ UNCHANGED pc
           \/ pc = "select" /\ pc' = "before_select"
    BY DEF Outside, World, Type, HangUp, Interrupt, past
  <1>2. FlagsInv' /\ ReplyInv'
    BY <1>1 DEF AuthInv, FlagsInv, ReplyInv, Outer, Shown, Quiet, Waiting, Prompted,
                callee, result, history
  <1>3. PlaceInv' /\ ErrorInv' /\ RespInv'
    BY <1>1 DEF AuthInv, conv, verdict, history, PlaceInv, ErrorInv, ErrorTellsWhy, RespInv
  <1>4. QED
    BY <1>2, <1>3 DEF AuthInv

(* While no prompt begins or ends its flags and its answer stay.            *)
LEMMA PromptStays ==
  ASSUME AuthInv, UNCHANGED <<promptVars, found>>
  PROVE  FlagsInv' /\ ReplyInv'
  BY DEF AuthInv, FlagsInv, ReplyInv, Outer, Shown, Quiet, Waiting, Prompted,
         promptVars, callee, result

(* A prompt begins: its function finds the flags as auth() found them.      *)
LEMMA CallKeeps ==
  ASSUME AuthInv, NEW how \in {"echo_off", "echo_on"}, Call(how), UNCHANGED found
  PROVE  FlagsInv' /\ ReplyInv' /\ pc = "idle" /\ pc' # "idle"
  BY DEF AuthInv, Call, FlagsInv, ReplyInv, Outer, Shown, Quiet, Waiting, Prompted

(* The steps of auth() and conversation() of auth-pam.c.                    *)
LEMMA PamKeeps ==
  ASSUME AuthInv, Start \/ Decide \/ End \/ Converse \/ Ask \/ Tell \/ HandOver \/ FailConversation
  PROVE  AuthInv'
  <1> USE DEF AuthInv, PlaceInv, ErrorInv, ErrorTellsWhy, RespInv, conv, verdict, history
  <1>1. CASE Start
    BY <1>1, PromptStays DEF Start, promptVars
  <1>2. CASE Decide
    BY <1>2, PromptStays DEF Decide, promptVars
  <1>3. CASE End
    BY <1>3, PromptStays DEF End, promptVars
  <1>4. CASE Converse
    BY <1>4, PromptStays DEF Converse, promptVars
  <1>5. CASE Ask
    BY <1>5, CallKeeps DEF Ask
  <1>6. CASE Tell
    BY <1>6, PromptStays DEF Tell, promptVars
  <1>7. CASE HandOver \/ FailConversation
    BY <1>7, PromptStays DEF HandOver, FailConversation, promptVars
  <1>8. QED
    BY <1>1, <1>2, <1>3, <1>4, <1>5, <1>6, <1>7

(* Those of auth() of auth-shadow.c.                                        *)
LEMMA ShadowKeeps == ASSUME AuthInv, AskPassword \/ Verify PROVE AuthInv'
  <1> USE DEF AuthInv, PlaceInv, ErrorInv, ErrorTellsWhy, RespInv, conv, verdict, history
  <1>1. CASE AskPassword
    BY <1>1, CallKeeps, PromptStays DEF AskPassword, promptVars
  <1>2. CASE Verify
    BY <1>2, PromptStays DEF Verify, promptVars
  <1>3. QED
    BY <1>1, <1>2

(* The answer of a prompt is a response or an error of its caller.          *)
LEMMA AnsweredKeeps == ASSUME AuthInv, Answered PROVE AuthInv'
  <1>1. FlagsInv' /\ ReplyInv'
    BY DEF AuthInv, Answered, FlagsInv, ReplyInv, Outer, Shown, Quiet, Waiting, Prompted, callee
  <1>2. PlaceInv'
    BY DEF AuthInv, Answered, PlaceInv
  <1>3. ErrorInv'
    BY DEF AuthInv, Answered, ErrorInv, ErrorTellsWhy, PlaceInv, ReplyInv
  <1>4. RespInv'
    BY DEF AuthInv, Answered, RespInv, PlaceInv
  <1>5. QED
    BY <1>1, <1>2, <1>3, <1>4 DEF AuthInv

LEMMA Inductive == Spec => []AuthInv
  <1>1. AuthInv /\ [Next]_vars => AuthInv'
    <2> SUFFICES ASSUME AuthInv, [Next]_vars PROVE AuthInv'
      OBVIOUS
    <2>1. CASE UNCHANGED vars
      <3>1. FlagsInv' /\ ReplyInv'
        BY <2>1, PromptStays DEF vars, history
      <3>2. PlaceInv' /\ ErrorInv' /\ RespInv'
        BY <2>1 DEF AuthInv, PlaceInv, ErrorInv, ErrorTellsWhy, RespInv, vars, promptVars,
                    conv, verdict, history
      <3>3. QED
        BY <3>1, <3>2 DEF AuthInv
    <2>2. QED
      BY <2>1, PromptingKeeps, OutsideKeeps, PamKeeps, ShadowKeeps, AnsweredKeeps DEF Next, Vlock
  <1>2. QED
    BY <1>1, InitInv, PTL DEF Spec

-----------------------------------------------------------------------------
(* auth() grants access or tells an error, never both or neither, and the   *)
(* error says whether a prompt timed out, whatever PAM does.                *)
THEOREM ErrorsTellWhy == Spec => []ErrorTellsWhy
  BY Inductive, PTL DEF AuthInv, ErrorInv

(* However a call ends, the terminal has its flags back and no response is  *)
(* left, whichever prompt or conversation failed in whichever step.         *)
THEOREM NothingIsKept == Spec => []NothingRemains
  <1>1. AuthInv => NothingRemains
    BY DEF AuthInv, PlaceInv, FlagsInv, RespInv, NothingRemains
  <1>2. QED
    BY <1>1, Inductive, PTL

-----------------------------------------------------------------------------
(* The buffer has room for the character that is waited for, and a byte     *)
(* that select() saw is there when it is read: nobody edits the line while  *)
(* the terminal is not in canonical mode.                                   *)
BufferInv ==
    /\ buffer \in Seq(Keys \union {nul}) /\ Len(buffer) <= BufferSize
    /\ c \in Keys \union {nul}
    /\ pc \in Waiting \union {"handle"} => Len(buffer) < BufferSize
InputInv ==
    /\ input \in Seq(Keys) /\ keys \in Nat
    /\ Len(input) <= keys /\ keys <= MaxKeys
    /\ pc = "read" => Readable
MessageInv ==
    /\ msgs \in Seq(Styles) /\ i \in Nat
    /\ apc = "message" => i \in 1..Len(msgs) + 1
    /\ apc = "asking" => i \in 1..Len(msgs) + 1
    /\ apc = "asking" /\ method = "pam" => i \in 1..Len(msgs)
    /\ resp \subseteq 1..Len(msgs) + 1

LEMMA FrontIsShorter ==
  ASSUME NEW S, NEW s \in Seq(S), s # <<>>
  PROVE  Front(s) \in Seq(S) /\ Len(Front(s)) = Len(s) - 1
  <1>1. PICK n \in Nat : n = Len(s) - 1
    BY LenProperties, EmptySeq
  <1>2. SubSeq(s, 1, n) \in Seq(S) /\ Len(SubSeq(s, 1, n)) = n
    BY <1>1, SubSeqProperties, LenProperties, ElementOfSeq
  <1>3. Front(s) = SubSeq(s, 1, n)
    BY <1>1 DEF Front
  <1>4. QED
    BY <1>1, <1>2, <1>3

LEMMA PromptBuffers ==
  ASSUME AuthInv, BufferInv, InputInv, PromptStep
  PROVE  BufferInv' /\ InputInv'
  <1> USE PromptAssumption DEF BufferInv, Waiting, result, world, callee, Clear, Flush, Reset
  <1>1. CASE EchoOff \/ SignalsOff \/ Out \/ EchoBack
    <2>1. input' = <<>> /\ pc' \notin Waiting \union {"handle"} /\ UNCHANGED keys
      BY <1>1 DEF EchoOff, SignalsOff, Out, EchoBack
    <2>2. InputInv'
      BY <2>1, EmptySeq, LenProperties DEF InputInv
    <2>3. (buffer' = buffer \/ buffer' = <<>>) /\ (c' = c \/ c' = nul)
      BY <1>1 DEF EchoOff, SignalsOff, Out, EchoBack
    <2>4. <<>> \in Seq(Keys \union {nul}) /\ Len(<<>>) = 0
      BY EmptySeq
    <2>5. buffer' \in Seq(Keys \union {nul}) /\ Len(buffer') <= BufferSize
      <3>1. CASE buffer' = buffer
        BY <3>1
      <3>2. CASE buffer' = <<>>
        BY <2>4, <3>2
      <3>3. QED
        BY <2>3, <3>1, <3>2
    <2>6. QED
      BY <2>1, <2>2, <2>3, <2>5
  <1>2. CASE CanonicalOff \/ NotReady \/ Restart \/ CanonicalBack \/ BufferFull \/ Copy
    BY <1>2 DEF CanonicalOff, NotReady, Restart, CanonicalBack, BufferFull, Copy, InputInv, Readable
  <1>3. CASE Ready
    BY <1>3 DEF Ready, InputInv, Readable
  <1>4. CASE ReadByte
    <2>1. CASE hungup
      BY <1>4, <2>1 DEF ReadByte, InputInv
    <2>2. CASE ~hungup
      <3>1. input # <<>> /\ c' = Head(input) /\ input' = Tail(input) /\ pc' = "canonical"
        BY <1>4, <2>2 DEF ReadByte, InputInv, Readable
      <3>2. Head(input) \in Keys /\ Tail(input) \in Seq(Keys) /\ Len(Tail(input)) = Len(input) - 1
        BY <3>1, HeadTailProperties DEF InputInv
      <3>3. InputInv'
        <4>1. Len(input) \in Nat /\ keys \in Nat /\ keys' = keys
          BY <1>4, LenProperties DEF ReadByte, InputInv
        <4>2. Len(input') <= keys' /\ input' \in Seq(Keys)
          BY <3>1, <3>2, <4>1 DEF InputInv
        <4>3. QED
          BY <3>1, <4>1, <4>2 DEF InputInv
      <3>4. BufferInv'
        BY <1>4, <3>1, <3>2 DEF ReadByte
      <3>5. QED
        BY <3>3, <3>4
    <2>3. QED
      BY <2>1, <2>2
  <1>5. CASE Handle
    <2>1. InputInv' /\ c' = c /\ pc' # "handle" /\ pc' \notin Waiting
      BY <1>5 DEF Handle, InputInv, Readable
    <2>2. CASE buffer' = buffer
      BY <2>1, <2>2
    <2>3. CASE buffer' = Append(buffer, c)
      <3>1. buffer' \in Seq(Keys \union {nul}) /\ Len(buffer') = Len(buffer) + 1
        BY <2>3, AppendProperties
      <3>2. QED
        BY <1>5, <2>1, <3>1, LenProperties DEF Handle
    <2>4. CASE buffer' = IF buffer = <<>> THEN <<>> ELSE Front(buffer)
      <3>1. buffer' \in Seq(Keys \union {nul}) /\ Len(buffer') <= Len(buffer)
        BY <2>4, FrontIsShorter, EmptySeq, LenProperties
      <3>2. QED
        BY <2>1, <3>1, LenProperties
    <2>5. QED
      BY <1>5, <2>2, <2>3, <2>4 DEF Handle
  <1>6. QED
    BY <1>1, <1>2, <1>3, <1>4, <1>5 DEF PromptStep

LEMMA WorldBuffers ==
  ASSUME AuthInv, BufferInv, InputInv, World
  PROVE  BufferInv' /\ InputInv'
  <1> USE PromptAssumption DEF BufferInv, Waiting, callee
  <1>1. ASSUME NEW k \in Keys, Type(k) PROVE BufferInv' /\ InputInv'
    <2>1. pc' = pc /\ BufferInv' /\ keys' = keys + 1 /\ keys' <= MaxKeys /\ hungup' = hungup
      BY <1>1 DEF Type, InputInv
    <2>2. pc = "read" => "icanon" \notin flags
      BY DEF AuthInv, FlagsInv
    <2>3. CASE input' = Append(input, k)
      <3>1. input' \in Seq(Keys) /\ Len(input') = Len(input) + 1 /\ input' # <<>>
        BY <1>1, <2>3, AppendProperties DEF InputInv
      <3>2. QED
        BY <2>1, <3>1, LenProperties DEF InputInv, Readable
    <2>4. CASE input' = input
      BY <2>1, <2>4, LenProperties DEF InputInv, Readable
    <2>5. CASE input # <<>> /\ input' = Front(input) /\ "icanon" \in flags
      <3>1. input' \in Seq(Keys) /\ Len(input') = Len(input) - 1
        BY <2>5, FrontIsShorter DEF InputInv
      <3>2. QED
        BY <2>1, <2>2, <2>5, <3>1, LenProperties DEF InputInv, Readable
    <2>6. QED
      BY <1>1, <2>3, <2>4, <2>5 DEF Type
  <1>2. CASE HangUp \/ Interrupt
    BY <1>2 DEF HangUp, Interrupt, InputInv, Readable
  <1>3. QED
    BY <1>1, <1>2 DEF World

(* The steps of auth() leave the buffer and the queue alone.                *)
LEMMA AuthBuffers ==
  ASSUME BufferInv, InputInv, UNCHANGED <<c, buffer, input, keys, hungup>>,
         pc' = pc \/ pc' \in {"idle", "echo", "isig"}
  PROVE  BufferInv' /\ InputInv'
  BY DEF BufferInv, InputInv, Readable, Waiting

LEMMA MessagesKept ==
  ASSUME AuthInv, MessageInv, [Next]_vars PROVE MessageInv'
  <1> USE AuthenticationAssumption DEF MessageInv, conv, verdict, history
  <1>1. CASE Start \/ Decide \/ End \/ Prompting \/ Outside \/ UNCHANGED vars
    BY <1>1 DEF Start, Decide, End, Prompting, Outside, vars
  <1>2. CASE Converse
    <2>1. CASE apc' = apc
      BY <1>2, <2>1 DEF Converse
    <2>2. CASE msgs' \in Conversations /\ i' = 1 /\ apc' = "message"
      <3>1. resp = {}
        BY <1>2 DEF Converse, AuthInv, RespInv
      <3>2. QED
        BY <1>2, <2>2, <3>1, LenProperties DEF Converse
    <2>3. QED
      BY <1>2, <2>1, <2>2 DEF Converse
  <1>0. Len(msgs) \in Nat
    BY LenProperties
  <1>3. CASE Ask \/ Tell
    <2>1. CASE Ask
      BY <1>0, <2>1 DEF Ask
    <2>2. CASE Tell
      BY <1>0, <2>2 DEF Tell
    <2>3. QED
      BY <1>3, <2>1, <2>2
  <1>4. CASE Answered
    <2>1. msgs' = msgs /\ method' = method /\ apc = "asking" /\ apc' # "asking"
      BY <1>4 DEF Answered
    <2>2. resp' \subseteq 1..Len(msgs') + 1
      BY <1>0, <1>4, <2>1 DEF Answered
    <2>3. i' \in Nat /\ (apc' = "message" => i' \in 1..Len(msgs') + 1)
      BY <1>0, <1>4, <2>1 DEF Answered
    <2>4. QED
      BY <2>1, <2>2, <2>3
  <1>5. CASE HandOver \/ FailConversation
    BY <1>5, EmptySeq, LenProperties DEF HandOver, FailConversation
  <1>6. CASE AskPassword \/ Verify
    <2>1. msgs' = msgs /\ method' = method /\ apc' # "message" /\ (resp' = resp \/ resp' = {})
      BY <1>6 DEF AskPassword, Verify
    <2>2. method = "shadow"
      BY <1>6 DEF AskPassword, Verify, AuthInv, PlaceInv
    <2>3. (i' = i /\ apc' # "asking") \/ i' = 1
      BY <1>6 DEF AskPassword, Verify
    <2>4. QED
      <3>1. resp' \subseteq 1..Len(msgs') + 1 /\ msgs' \in Seq(Styles)
        BY <2>1
      <3>2. i' \in Nat /\ (apc' = "asking" => i' \in 1..Len(msgs') + 1)
        BY <1>0, <2>1, <2>3
      <3>3. QED
        BY <2>1, <2>2, <3>1, <3>2
  <1>7. QED
    BY <1>1, <1>2, <1>3, <1>4, <1>5, <1>6 DEF Next, Vlock

DataInv == BufferInv /\ InputInv /\ MessageInv

LEMMA Buffers == Spec => []DataInv
  <1>1. Init => DataInv
    BY PromptAssumption, EmptySeq DEF DataInv, Init, PromptInit, BufferInv, InputInv, MessageInv, Readable, Waiting
  <1>2. AuthInv /\ DataInv /\ [Next]_vars => DataInv'
    <2> SUFFICES ASSUME AuthInv, DataInv, [Next]_vars PROVE DataInv'
      OBVIOUS
    <2> USE DEF DataInv
    <2>1. MessageInv'
      BY MessagesKept
    <2>2. CASE Prompting
      BY <2>1, <2>2, PromptBuffers DEF Prompting
    <2>3. CASE Outside
      BY <2>1, <2>3, WorldBuffers DEF Outside
    <2>4. CASE ~Prompting /\ ~Outside
      <3>1. /\ UNCHANGED <<c, buffer, input, keys, hungup>>
            /\ pc' = pc \/ pc' \in {"idle", "echo", "isig"}
        BY <2>4 DEF Next, Vlock, Start, Decide, End, Converse, Ask, Tell, Answered, HandOver,
             FailConversation, AskPassword, Verify, Call, vars, promptVars, callee, world, past
      <3>2. QED
        BY <2>1, <3>1, AuthBuffers
    <2>5. QED
      BY <2>2, <2>3, <2>4
  <1>3. QED
    BY <1>1, <1>2, Inductive, PTL DEF Spec

(* Every variable stays in its domain; above all, the buffer of prompt() is *)
(* never overrun, however the kernel edits lines between two characters.    *)
THEOREM TypeCorrect == Spec => []TypeOK
  <1>3. AuthInv /\ DataInv => TypeOK
    <2> SUFFICES ASSUME AuthInv, DataInv PROVE TypeOK
      OBVIOUS
    <2> USE DEF DataInv
    <2>1. saved \in Seq(SUBSET Flags) /\ Len(saved) <= 3 /\ flags \subseteq Flags
      <3>1. /\ <<>> \in Seq(SUBSET Flags) /\ Len(Outer) <= 1
            /\ Append(Append(Outer, Shown), Quiet) \in Seq(SUBSET Flags)
            /\ Len(Append(Append(Outer, Shown), Quiet)) = Len(Outer) + 2
            /\ Len(Append(Outer, Shown)) = Len(Outer) + 1 /\ Len(Outer) \in Nat
        BY Stacks, AppendProperties, EmptySeq, LenProperties DEF AuthInv, Outer
      <3>2. \/ saved = <<>> \/ saved = Outer \/ saved = Append(Outer, Shown)
            \/ saved = Append(Append(Outer, Shown), Quiet)
        BY DEF AuthInv, FlagsInv, ReplyInv, Waiting, Prompted
      <3>3. flags \subseteq Flags
        BY Stacks DEF AuthInv, FlagsInv, ReplyInv, Waiting, Prompted
      <3>4. Len(<<>>) = 0
        BY EmptySeq
      <3>5. saved \in Seq(SUBSET Flags)
        BY <3>1, <3>2, Stacks DEF AuthInv
      <3>6. Len(saved) <= 3
        BY <3>1, <3>2, <3>4
      <3>7. QED
        BY <3>3, <3>5, <3>6
    <2>2. error \in {"none", "timeout", "failed", "denied"}
      BY DEF AuthInv, ErrorInv
    <2>3. /\ buffer \in Seq(Keys \union {nul}) /\ Len(buffer) <= BufferSize
          /\ input \in Seq(Keys) /\ Len(input) <= MaxKeys
      <3>1. Len(input) \in Nat
        BY LenProperties DEF InputInv
      <3>2. QED
        BY <3>1, PromptAssumption DEF BufferInv, InputInv
    <2>4. /\ msgs \in Seq(Styles) /\ resp \subseteq 1..Len(msgs) + 1
      BY DEF MessageInv
    <2>5. /\ err \in {"none", "timeout", "failed"}
          /\ pc \in {"idle", "echo", "isig", "loop", "select", "before_select", "read",
                     "canonical", "handle", "copy", "out", "echo_back", "done"}
          /\ apc \in {"start", "pam", "message", "asking", "fail", "verify", "end", "returned"}
      BY DEF AuthInv, PlaceInv, ReplyInv, Waiting, Prompted
    <2>6. QED
      BY <2>1, <2>2, <2>3, <2>4, <2>5 DEF TypeOK
  <1>4. QED
    BY <1>3, Inductive, Buffers, PTL

-----------------------------------------------------------------------------
(* What is meant by the keys typed, key by key.                             *)
LEMMA LeastOf ==
  ASSUME NEW S \in SUBSET Nat, S # {}
  PROVE  \E m \in S : \A n \in S : m <= n
  <1> DEFINE R == {ss \in Nat \X Nat : ss[1] < ss[2]}
  <1>1. IsWellFoundedOn(R, Nat)
    BY NatLessThanWellFounded, Zenon DEF OpToRel
  <1> HIDE DEF R
  <1>2. PICK m \in S : \A n \in S : <<n, m>> \notin R
    BY <1>1, WFMin
  <1>3. ASSUME NEW n \in S PROVE m <= n
    <2>1. n \in Nat /\ m \in Nat
      OBVIOUS
    <2>2. ~(n < m)
      BY <1>2, <2>1 DEF R
    <2>3. QED
      BY <2>1, <2>2
  <1>4. QED
    BY <1>3

Nothing == [text |-> <<>>, ended |-> FALSE]

(* The recursion of After has a solution: a least number of keys without    *)
(* one is not 0, and the solution for one key less extends to it.           *)
Solves(m, s, n) ==
    m = [k \in 0..n |-> IF k = 0 THEN Nothing ELSE Pressed(m[k - 1], s[k])]

LEMMA Solvable ==
  ASSUME NEW s \in Seq(Keys)
  PROVE  \E m : Solves(m, s, Len(s))
  <1> DEFINE Bad == {n \in Nat : ~\E m : Solves(m, s, n)}
  <1>1. Bad = {}
    <2> SUFFICES ASSUME Bad # {} PROVE FALSE
      OBVIOUS
    <2>1. PICK n \in Bad : \A k \in Bad : n <= k
      BY LeastOf
    <2>2. n # 0
      <3> DEFINE z == [k \in 0..0 |-> IF k = 0 THEN Nothing ELSE Nothing]
      <3>1. Solves(z, s, 0)
        BY DEF Solves
      <3>2. QED
        BY <2>1, <3>1
    <2>3. n \in Nat /\ n - 1 \in Nat /\ n - 1 \notin Bad
      BY <2>1, <2>2
    <2>4. PICK m : Solves(m, s, n - 1)
      BY <2>3
    <2>5. DEFINE g == [k \in 0..n |-> IF k = n THEN Pressed(m[n - 1], s[n]) ELSE m[k]]
    <2>6. \A k \in 0..n : g[k] = IF k = 0 THEN Nothing ELSE Pressed(g[k - 1], s[k])
      <3> TAKE k \in 0..n
      <3>1. CASE k = n
        <4>1. k # 0 /\ k - 1 \in 0..n /\ k - 1 # n
          BY <2>2, <2>3, <3>1
        <4>2. g[k - 1] = m[n - 1] /\ g[k] = Pressed(m[n - 1], s[n])
          BY <2>3, <3>1, <4>1
        <4>3. QED
          BY <3>1, <4>1, <4>2
      <3>2. CASE k # n
        <4>1. k \in 0..n - 1
          BY <2>3, <3>2
        <4>2. m[k] = IF k = 0 THEN Nothing ELSE Pressed(m[k - 1], s[k])
          BY <2>4, <4>1 DEF Solves
        <4>3. g[k] = m[k] /\ (k # 0 => g[k - 1] = m[k - 1])
          BY <2>3, <3>2, <4>1
        <4>4. QED
          BY <4>2, <4>3
      <3>3. QED
        BY <3>1, <3>2
    <2>7. Solves(g, s, n)
      BY <2>6 DEF Solves
    <2>8. QED
      BY <2>1, <2>7
  <1>2. QED
    BY <1>1, LenProperties

LEMMA KeyByKey ==
  ASSUME NEW s \in Seq(Keys)
  PROVE  /\ After(s)[0] = Nothing
         /\ \A n \in 1..Len(s) : After(s)[n] = Pressed(After(s)[n - 1], s[n])
  <1>1. Solves(After(s), s, Len(s))
    BY Solvable DEF After, Solves, Nothing
  <1>2. Len(s) \in Nat
    BY LenProperties
  <1>3. QED
    BY <1>1, <1>2 DEF Solves

(* Another key changes nothing of what was meant by those before it.        *)
LEMMA AnotherKey ==
  ASSUME NEW s \in Seq(Keys), NEW k \in Keys, NEW n \in 0..Len(s)
  PROVE  After(Append(s, k))[n] = After(s)[n]
  <1> DEFINE t == Append(s, k)
             Bad == {j \in 0..Len(s) : After(t)[j] # After(s)[j]}
  <1>1. t \in Seq(Keys) /\ Len(t) = Len(s) + 1 /\ \A j \in 1..Len(s) : t[j] = s[j]
    BY AppendProperties
  <1>2. Len(s) \in Nat
    BY LenProperties
  <1>3. Bad = {}
    <2> SUFFICES ASSUME Bad # {} PROVE FALSE
      OBVIOUS
    <2>1. PICK j \in Bad : \A h \in Bad : j <= h
      <3>1. Bad \in SUBSET Nat
        BY <1>2
      <3>2. QED
        BY <3>1, LeastOf
    <2>2. j # 0
      BY <1>1, <2>1, KeyByKey
    <2>3. j \in 1..Len(s) /\ j - 1 \in 0..Len(s) /\ j - 1 \notin Bad /\ j \in 1..Len(t)
      BY <1>1, <1>2, <2>1, <2>2
    <2>4. After(t)[j] = Pressed(After(t)[j - 1], t[j]) /\ After(s)[j] = Pressed(After(s)[j - 1], s[j])
      BY <1>1, <2>3, KeyByKey
    <2>5. After(t)[j - 1] = After(s)[j - 1] /\ t[j] = s[j]
      BY <1>1, <2>3
    <2>6. QED
      BY <2>1, <2>4, <2>5
  <1>4. QED
    BY <1>3

(* Nothing that is typed after the end changes what was meant.              *)
LEMMA EndedStays ==
  ASSUME NEW s \in Seq(Keys), NEW n \in 0..Len(s), After(s)[n].ended
  PROVE  After(s)[Len(s)] = After(s)[n]
  <1> DEFINE Bad == {j \in n..Len(s) : After(s)[j] # After(s)[n]}
  <1>1. Len(s) \in Nat /\ n \in Nat
    BY LenProperties
  <1>2. Bad = {}
    <2> SUFFICES ASSUME Bad # {} PROVE FALSE
      OBVIOUS
    <2>1. PICK j \in Bad : \A h \in Bad : j <= h
      <3>1. Bad \in SUBSET Nat
        BY <1>1
      <3>2. QED
        BY <3>1, LeastOf
    <2>2. j # n
      BY <2>1
    <2>3. j \in 1..Len(s) /\ j - 1 \in n..Len(s) /\ j - 1 \notin Bad
      BY <1>1, <2>1, <2>2
    <2>4. After(s)[j - 1] = After(s)[n]
      BY <2>3
    <2>5. After(s)[j] = Pressed(After(s)[n], s[j])
      BY <2>3, <2>4, KeyByKey
    <2>6. QED
      BY <2>1, <2>5 DEF Pressed
  <1>3. QED
    BY <1>1, <1>2

-----------------------------------------------------------------------------
(* prompt() has read the first n of the keys that were typed for it, up to  *)
(* an enter key the queue holds those behind them, and what was read is     *)
(* understood: the buffer is what was meant by it.                          *)
LineAhead(j) == \A h \in 1..j - 1 : input[h] # "enter"
Queued(n) ==
    /\ \A j \in 1..Len(input) : LineAhead(j) => n + j <= Len(typed) /\ typed[n + j] = input[j]
    /\ LineAhead(Len(input) + 1) => Len(typed) = n + Len(input)
Understood(n, over) == After(typed)[n] = [text |-> buffer, ended |-> over]

Reading == {"loop", "select", "before_select", "read"}
Read == {"canonical", "handle"}

MeansInv ==
    /\ typed \in Seq(Keys)
    /\ ~lost /\ ~hungup =>
        /\ pc \in Reading =>
              \E n \in 0..Len(typed) : Queued(n) /\ Understood(n, Len(buffer) = BufferSize)
        /\ pc \in Read /\ err = "none" =>
              \E n \in 0..Len(typed) - 1 : /\ c = typed[n + 1] /\ Understood(n, FALSE)
                                           /\ c # "enter" => Queued(n + 1)
        /\ pc = "copy" => \E n \in 0..Len(typed) : Understood(n, TRUE)
        /\ pc = "out" /\ reply # NoReply =>
              reply = <<buffer>> /\ \E n \in 0..Len(typed) : Understood(n, TRUE)
        /\ pc \in Reading \union Read \union {"copy"} => \A k \in DOMAIN buffer : buffer[k] # nul

LEMMA MeansInit == ASSUME Init PROVE MeansInv
  <1>1. typed = <<>> /\ pc = "idle"
    BY DEF Init, PromptInit
  <1>2. QED
    BY <1>1, EmptySeq DEF MeansInv, Reading, Read

(* A prompt that begins has read nothing, and nothing is queued for it.     *)
LEMMA MeansBegins == ASSUME BufferInv, InputInv, MeansInv, SignalsOff PROVE MeansInv'
  <1>1. /\ typed' = <<>> /\ input' = <<>> /\ buffer' = <<>> /\ pc' = "loop"
    BY DEF SignalsOff, Flush
  <1>2. <<>> \in Seq(Keys) /\ Len(<<>>) = 0 /\ DOMAIN <<>> = {}
    BY EmptySeq
  <1>3. After(<<>>)[0] = Nothing
    BY <1>2, KeyByKey
  <1>4. Len(buffer') # BufferSize
    BY <1>1, <1>2, PromptAssumption
  <1>5. Queued(0)' /\ Understood(0, Len(buffer) = BufferSize)'
    <2>1. Queued(0)'
      BY <1>1, <1>2 DEF Queued
    <2>2. (Len(buffer') = BufferSize) = FALSE
      BY <1>4
    <2>3. QED
      BY <1>1, <1>2, <1>3, <2>1, <2>2 DEF Understood, Nothing
  <1>6. 0 \in 0..Len(typed')
    BY <1>1, <1>2
  <1>7. QED
    BY <1>1, <1>2, <1>5, <1>6 DEF MeansInv, Reading, Read

(* Nothing is read, typed or answered in these steps.                       *)
LEMMA MeansStays ==
  ASSUME MeansInv, UNCHANGED <<buffer, input, reply, typed, lost, hungup, c>>,
         \/ pc \in Reading /\ pc' \in Reading
         \/ pc \in Read /\ pc' \in Read /\ err' = err
         \/ pc \in Reading \union Read /\ pc' \in Read /\ err' # "none"
         \/ pc' = pc /\ err' = err
         \/ pc' \notin Reading \union Read \union {"copy", "out"}
         \/ pc' = "out" /\ reply' = NoReply
  PROVE  MeansInv'
  <1>1. /\ \A n : (Queued(n)' <=> Queued(n))
        /\ \A n, o : (Understood(n, o)' <=> Understood(n, o))
    BY DEF Queued, LineAhead, Understood
  <1> SUFFICES ASSUME ~lost, ~hungup PROVE MeansInv'
    BY DEF MeansInv
  <1> USE <1>1 DEF MeansInv, Reading, Read
  <1>2. CASE pc \in Reading /\ pc' \in Reading
    BY <1>2
  <1>3. CASE pc \in Read /\ pc' \in Read /\ err' = err
    BY <1>3
  <1>4. CASE pc \in Reading \union Read /\ pc' \in Read /\ err' # "none"
    BY <1>4
  <1>5. CASE pc' = pc /\ err' = err
    BY <1>5
  <1>6. CASE pc' \notin Reading \union Read \union {"copy", "out"}
    BY <1>6
  <1>7. CASE pc' = "out" /\ reply' = NoReply
    BY <1>7
  <1>8. QED
    BY <1>2, <1>3, <1>4, <1>5, <1>6, <1>7

(* A byte is read: the next of the keys, if nobody hung up.                 *)
LEMMA MeansRead ==
  ASSUME AuthInv, BufferInv, InputInv, MeansInv, ReadByte
  PROVE  MeansInv'
  <1> SUFFICES ASSUME ~lost, ~hungup PROVE MeansInv'
    BY DEF MeansInv, ReadByte, world, past
  <1>1. /\ pc = "read" /\ pc' = "canonical" /\ input # <<>> /\ c' = Head(input) /\ input' = Tail(input)
        /\ UNCHANGED <<buffer, typed, lost, hungup, reply, err>>
    BY DEF ReadByte, world, past, result, InputInv, Readable
  <1>2. PICK n \in 0..Len(typed) : Queued(n) /\ Understood(n, Len(buffer) = BufferSize)
    BY <1>1 DEF MeansInv, Reading
  <1>3. /\ input \in Seq(Keys) /\ Len(input) \in Nat /\ Len(input) >= 1 /\ Len(typed) \in Nat
        /\ Head(input) = input[1] /\ Len(input') = Len(input) - 1
        /\ \A j \in 1..Len(input) - 1 : input'[j] = input[j + 1]
    BY <1>1, HeadTailProperties, EmptySeq, LenProperties DEF InputInv, MeansInv
  <1>4. n + 1 <= Len(typed) /\ typed[n + 1] = c'
    <2>1. LineAhead(1) /\ 1 \in 1..Len(input)
      BY <1>3 DEF LineAhead
    <2>2. QED
      BY <1>1, <1>2, <1>3, <2>1 DEF Queued
  <1>5. Understood(n, FALSE)'
    <2>1. Len(buffer) < BufferSize /\ Len(buffer) \in Nat
      BY <1>1, LenProperties DEF BufferInv, Waiting
    <2>2. (Len(buffer) = BufferSize) = FALSE
      BY <2>1, PromptAssumption
    <2>3. QED
      BY <1>1, <1>2, <2>2 DEF Understood
  <1>6. ASSUME c' # "enter" PROVE Queued(n + 1)'
    <2>1. ASSUME NEW j \in 1..Len(input), LineAhead(j)' PROVE LineAhead(j + 1)
      <3> SUFFICES ASSUME NEW h \in 1..j PROVE input[h] # "enter"
        BY DEF LineAhead
      <3>1. CASE h = 1
        BY <1>1, <1>3, <1>6, <3>1
      <3>2. CASE h # 1
        <4>1. h - 1 \in 1..j - 1 /\ h - 1 \in 1..Len(input) - 1 /\ (h - 1) + 1 = h
          BY <1>3, <3>2
        <4>2. input'[h - 1] # "enter"
          BY <2>1, <4>1 DEF LineAhead
        <4>3. QED
          BY <1>3, <4>1, <4>2
      <3>3. QED
        BY <3>1, <3>2
    <2>2. ASSUME NEW j \in 1..Len(input'), LineAhead(j)'
          PROVE  n + 1 + j <= Len(typed') /\ typed'[n + 1 + j] = input'[j]
      <3>1. j \in 1..Len(input) /\ j + 1 \in 1..Len(input) /\ LineAhead(j + 1)
        BY <1>3, <2>1, <2>2
      <3>2. n + (j + 1) <= Len(typed) /\ typed[n + (j + 1)] = input[j + 1]
        BY <1>2, <3>1 DEF Queued
      <3>3. n + (j + 1) = n + 1 + j /\ input'[j] = input[j + 1]
        BY <1>2, <1>3, <2>2
      <3>4. QED
        BY <1>1, <3>2, <3>3
    <2>3. ASSUME LineAhead(Len(input) + 1)' PROVE Len(typed') = n + 1 + Len(input')
      <3>1. PICK l \in 1..Len(input) : l = Len(input) /\ Len(input') + 1 = l
        BY <1>3
      <3>2. LineAhead(l)'
        BY <2>3, <3>1 DEF LineAhead
      <3>3. LineAhead(Len(input) + 1)
        BY <2>1, <3>1, <3>2
      <3>4. Len(typed) = n + Len(input)
        BY <1>2, <3>3 DEF Queued
      <3>5. QED
        BY <1>1, <1>2, <1>3, <3>4
    <2>4. QED
      BY <2>2, <2>3 DEF Queued
  <1>7. n \in 0..Len(typed') - 1
    BY <1>1, <1>3, <1>4
  <1>8. QED
    BY <1>1, <1>4, <1>5, <1>6, <1>7 DEF MeansInv, Reading, Read

(* The byte is a character of the text, or takes one back, or ends it.      *)
LEMMA MeansHandle ==
  ASSUME AuthInv, BufferInv, MeansInv, Handle
  PROVE  MeansInv'
  <1> SUFFICES ASSUME ~lost, ~hungup, err = "none" PROVE MeansInv'
    <2>1. CASE err # "none"
      BY <2>1, MeansStays DEF Handle, result, world, past, AuthInv, ReplyInv
    <2>2. CASE lost \/ hungup
      BY <2>2 DEF MeansInv, Handle, world, past
    <2>3. QED
      BY <2>1, <2>2
  <1>1. /\ pc = "handle" /\ UNCHANGED <<input, typed, lost, hungup, reply, err, c>>
        /\ \/ c = "enter" /\ pc' = "copy" /\ buffer' = buffer
           \/ c = "erase" /\ pc' = "loop" /\ buffer' = IF buffer = <<>> THEN <<>> ELSE Front(buffer)
           \/ c \notin {"enter", "erase"} /\ pc' = "loop" /\ buffer' = Append(buffer, c)
    BY DEF Handle, world, past, result
  <1>2. PICK n \in 0..Len(typed) - 1 : /\ c = typed[n + 1] /\ Understood(n, FALSE)
                                       /\ c # "enter" => Queued(n + 1)
    BY <1>1 DEF MeansInv, Read
  <1>3. /\ typed \in Seq(Keys) /\ Len(typed) \in Nat /\ c \in Keys
        /\ n + 1 \in 1..Len(typed) /\ n + 1 \in 0..Len(typed) /\ n + 1 - 1 = n
    BY <1>2, LenProperties, ElementOfSeq DEF MeansInv
  <1>4. After(typed)[n + 1] = Pressed([text |-> buffer, ended |-> FALSE], c)
    BY <1>2, <1>3, KeyByKey DEF Understood
  <1>5. buffer \in Seq(Keys \union {nul}) /\ Len(buffer) \in Nat /\ Len(buffer) < BufferSize
    BY <1>1, LenProperties DEF BufferInv
  <1>6. \A k \in DOMAIN buffer : buffer[k] # nul
    BY <1>1 DEF MeansInv, Read
  <1>7. CASE c = "enter"
    <2>1. Understood(n + 1, TRUE)'
      BY <1>1, <1>4, <1>7 DEF Understood, Pressed
    <2>2. QED
      BY <1>1, <1>3, <1>6, <1>7, <2>1 DEF MeansInv, Reading, Read
  <1>8. CASE c # "enter"
    <2>1. Queued(n + 1)'
      BY <1>1, <1>2, <1>8 DEF Queued, LineAhead
    <2>2. /\ After(typed)[n + 1] = [text |-> buffer', ended |-> Len(buffer') = BufferSize]
          /\ \A k \in DOMAIN buffer' : buffer'[k] # nul
      <3>1. CASE c = "erase"
        <4>1. After(typed)[n + 1] = [text |-> SubSeq(buffer, 1, Len(buffer) - 1), ended |-> FALSE]
          BY <1>4, <3>1 DEF Pressed
        <4>2. CASE buffer = <<>>
          <5>1. SubSeq(buffer, 1, Len(buffer) - 1) = <<>> /\ Len(<<>>) = 0 /\ DOMAIN <<>> = {}
            BY <4>2
          <5>2. (Len(buffer') = BufferSize) = FALSE
            BY <1>1, <3>1, <4>2, <5>1, PromptAssumption
          <5>3. QED
            BY <1>1, <3>1, <4>1, <4>2, <5>1, <5>2
        <4>3. CASE buffer # <<>>
          <5>1. buffer' = Front(buffer) /\ Len(buffer') = Len(buffer) - 1
            BY <1>1, <1>5, <3>1, <4>3, FrontIsShorter
          <5>2. buffer' = SubSeq(buffer, 1, Len(buffer) - 1)
            BY <5>1 DEF Front
          <5>3. (Len(buffer') = BufferSize) = FALSE
            BY <1>5, <5>1, PromptAssumption
          <5>4. \A k \in DOMAIN buffer' : k \in DOMAIN buffer /\ buffer'[k] = buffer[k]
            <6>1. Len(buffer) - 1 \in Nat /\ Len(buffer) - 1 <= Len(buffer)
              BY <1>5, <4>3, EmptySeq
            <6>2. QED
              BY <1>5, <5>2, <6>1
          <5>5. QED
            BY <1>6, <4>1, <5>2, <5>3, <5>4
        <4>4. QED
          BY <4>2, <4>3
      <3>2. CASE c # "erase"
        <4>1. buffer' = Append(buffer, c) /\ Len(buffer') = Len(buffer) + 1
          BY <1>1, <1>5, <1>8, <3>2, AppendProperties
        <4>2. After(typed)[n + 1] = [text |-> Append(buffer, c), ended |-> Len(buffer) + 1 = BufferSize]
          BY <1>4, <1>8, <3>2 DEF Pressed
        <4>3. c # nul
          BY <1>3 DEF Keys, nul
        <4>4. \A k \in DOMAIN buffer' : buffer'[k] # nul
          BY <1>5, <1>6, <4>1, <4>3
        <4>5. QED
          BY <4>1, <4>2, <4>4
      <3>3. QED
        BY <3>1, <3>2
    <2>3. Understood(n + 1, Len(buffer) = BufferSize)'
      BY <1>1, <2>2 DEF Understood
    <2>4. pc' = "loop"
      BY <1>1, <1>8
    <2>5. QED
      BY <1>1, <1>3, <2>1, <2>2, <2>3, <2>4 DEF MeansInv, Reading, Read
  <1>9. QED
    BY <1>7, <1>8

LEMMA MeansCopied ==
  ASSUME AuthInv, BufferInv, MeansInv, Copy
  PROVE  MeansInv'
  <1> SUFFICES ASSUME ~lost, ~hungup, reply' # NoReply PROVE MeansInv'
    <2>1. CASE reply' = NoReply
      BY <2>1, MeansStays DEF Copy, callee, world, past, AuthInv, ReplyInv
    <2>2. CASE lost \/ hungup
      BY <2>2 DEF MeansInv, Copy, world, past
    <2>3. QED
      BY <2>1, <2>2
  <1>1. /\ pc = "copy" /\ pc' = "out" /\ UNCHANGED <<buffer, typed, lost, hungup>>
        /\ reply' = <<String(buffer)>>
    BY DEF Copy, callee, world, past, AuthInv, ReplyInv
  <1>2. String(buffer) = buffer
    BY <1>1 DEF MeansInv, String
  <1>3. PICK n \in 0..Len(typed) : Understood(n, TRUE)
    BY <1>1 DEF MeansInv
  <1>4. Understood(n, TRUE)'
    BY <1>1, <1>3 DEF Understood
  <1>5. QED
    BY <1>1, <1>2, <1>3, <1>4 DEF MeansInv, Reading, Read

(* All that vlock does at a prompt.                                         *)
LEMMA MeansPrompting ==
  ASSUME AuthInv, BufferInv, InputInv, MeansInv, PromptStep
  PROVE  MeansInv'
  <1> USE DEF callee, result, world, past
  <1>1. CASE EchoOff \/ EchoBack
    <2>1. typed' = typed /\ pc' \in {"isig", "done"}
      BY <1>1 DEF EchoOff, EchoBack
    <2>2. QED
      BY <2>1 DEF MeansInv, Reading, Read
  <1>2. CASE Out
    <2>1. typed' = <<>> /\ pc' \in {"echo_back", "done"}
      BY <1>2 DEF Out
    <2>2. QED
      BY <2>1, EmptySeq DEF MeansInv, Reading, Read
  <1>3. CASE CanonicalOff \/ Ready \/ NotReady \/ Restart \/ CanonicalBack
    <2> USE DEF Reading, Read
    <2>1. CASE CanonicalOff \/ Ready \/ Restart
      BY <2>1, MeansStays DEF CanonicalOff, Ready, Restart
    <2>2. CASE CanonicalBack
      BY <2>2, MeansStays DEF CanonicalBack
    <2>3. CASE NotReady
      <3>1. /\ pc = "select" /\ pc' = "canonical" /\ err' # "none"
            /\ UNCHANGED <<buffer, input, reply, typed, lost, hungup>>
        BY <2>3 DEF NotReady
      <3>2. QED
        BY <3>1 DEF MeansInv
    <2>4. QED
      BY <1>3, <2>1, <2>2, <2>3
  <1>4. CASE BufferFull
    <2>1. /\ pc = "loop" /\ pc' = "copy" /\ Len(buffer) = BufferSize
          /\ UNCHANGED <<buffer, input, reply, typed, lost, hungup>>
      BY <1>4 DEF BufferFull
    <2>2. (Len(buffer) = BufferSize) = TRUE
      BY <2>1
    <2>3. \A n : Understood(n, Len(buffer) = BufferSize) => Understood(n, TRUE)'
      BY <2>1, <2>2 DEF Understood
    <2>4. QED
      BY <2>1, <2>3 DEF MeansInv, Reading, Read
  <1>5. QED
    BY <1>1, <1>2, <1>3, <1>4, MeansBegins, MeansRead, MeansHandle, MeansCopied DEF PromptStep

(* A key is typed: it comes behind what is queued, unless the kernel takes  *)
(* it for an erase key, which the property excepts or which comes behind    *)
(* the end of the line.                                                     *)
LEMMA QueuedMore ==
  ASSUME InputInv, MeansInv, NEW k \in Keys, NEW n \in 0..Len(typed), Queued(n),
         typed' = Append(typed, k),
         \/ input' = Append(input, k)
         \/ input' = input /\ input # <<>> /\ Last(input) = "enter"
  PROVE  Queued(n)'
  <1>1. /\ Len(typed) \in Nat /\ Len(typed') = Len(typed) + 1 /\ typed'[Len(typed) + 1] = k
        /\ \A j \in 1..Len(typed) : typed'[j] = typed[j]
    BY LenProperties, AppendProperties DEF MeansInv
  <1>2. Len(input) \in Nat
    BY LenProperties DEF InputInv
  <1>3. ASSUME NEW j \in 1..Len(input), LineAhead(j)
        PROVE  n + j <= Len(typed') /\ typed'[n + j] = input[j]
    <2>1. n + j <= Len(typed) /\ typed[n + j] = input[j]
      BY <1>3 DEF Queued
    <2>2. n + j \in 1..Len(typed)
      BY <1>1, <1>2, <2>1
    <2>3. QED
      BY <1>1, <2>1, <2>2
  <1>4. CASE input' = Append(input, k)
    <2>1. /\ Len(input') = Len(input) + 1 /\ input'[Len(input) + 1] = k
          /\ \A j \in 1..Len(input) : input'[j] = input[j]
      BY <1>4, AppendProperties DEF InputInv
    <2>2. ASSUME NEW j \in 1..Len(input) + 1, LineAhead(j)' PROVE LineAhead(j)
      BY <1>2, <2>1, <2>2 DEF LineAhead
    <2>3. LineAhead(Len(input) + 1) => Len(typed) = n + Len(input)
      BY DEF Queued
    <2>4. ASSUME NEW j \in 1..Len(input'), LineAhead(j)'
          PROVE  n + j <= Len(typed') /\ typed'[n + j] = input'[j]
      <3>1. CASE j \in 1..Len(input)
        BY <1>3, <2>1, <2>2, <2>4, <3>1
      <3>2. CASE j = Len(input) + 1
        <4>1. Len(typed) = n + Len(input)
          BY <1>2, <2>2, <2>3, <2>4, <3>2
        <4>2. n + j = Len(typed) + 1
          BY <1>1, <1>2, <3>2, <4>1
        <4>3. QED
          BY <1>1, <2>1, <3>2, <4>2
      <3>3. QED
        BY <1>2, <2>1, <2>4, <3>1, <3>2
    <2>5. ASSUME LineAhead(Len(input) + 1)' PROVE Len(typed') = n + Len(input')
      <3>1. LineAhead(Len(input) + 1)
        BY <1>2, <2>1, <2>5 DEF LineAhead
      <3>2. QED
        BY <1>1, <1>2, <2>1, <2>3, <3>1
    <2>6. QED
      BY <2>4, <2>5 DEF Queued
  <1>5. CASE input' = input /\ input # <<>> /\ Last(input) = "enter"
    <2>1. Len(input) \in 1..Len(input) /\ input[Len(input)] = "enter"
      BY <1>2, <1>5, EmptySeq DEF Last, InputInv
    <2>2. ~LineAhead(Len(input) + 1)
      BY <1>2, <2>1 DEF LineAhead
    <2>3. QED
      BY <1>3, <1>5, <2>2 DEF Queued, LineAhead
  <1>6. QED
    BY <1>4, <1>5

LEMMA MeansTyped ==
  ASSUME AuthInv, InputInv, MeansInv, NEW k \in Keys, Type(k)
  PROVE  MeansInv'
  <1>1. UNCHANGED <<pc, c, buffer, err, reply, hungup>> /\ (lost => lost')
    BY DEF Type, callee, result
  <1>2. CASE typed' = typed
    <2>1. ~Asking
      BY <1>2, AppendProperties, LenProperties DEF Type, MeansInv
    <2>2. pc \notin Reading \union Read \union {"copy", "out"}
      BY <2>1 DEF Asking, Reading, Read
    <2>3. QED
      BY <1>1, <1>2, <2>2 DEF MeansInv, Reading, Read
  <1>3. CASE typed' = Append(typed, k) /\ Asking
    <2>1. /\ typed' \in Seq(Keys) /\ Len(typed') = Len(typed) + 1 /\ Len(typed) \in Nat
          /\ \A j \in 1..Len(typed) : typed'[j] = typed[j]
      BY <1>3, AppendProperties, LenProperties DEF MeansInv
    <2> SUFFICES ASSUME ~lost', ~hungup' PROVE MeansInv'
      BY <2>1 DEF MeansInv
    <2>2. ~lost /\ ~hungup
      BY <1>1
    <2>3. \/ input' = Append(input, k)
          \/ input' = input /\ input # <<>> /\ Last(input) = "enter"
      BY <1>3 DEF Type
    <2>4. ASSUME NEW n \in 0..Len(typed)
          PROVE  /\ n \in 0..Len(typed')
                 /\ Queued(n) => Queued(n)'
                 /\ \A o : Understood(n, o) => Understood(n, o)'
      <3>1. n \in 0..Len(typed')
        BY <2>1
      <3>2. Queued(n) => Queued(n)'
        BY <1>3, <2>3, QueuedMore
      <3>3. After(typed')[n] = After(typed)[n]
        BY <1>3, AnotherKey DEF MeansInv
      <3>4. QED
        BY <1>1, <3>1, <3>2, <3>3 DEF Understood
    <2>5. CASE pc \in Reading
      <3>1. PICK n \in 0..Len(typed) : Queued(n) /\ Understood(n, Len(buffer) = BufferSize)
        BY <2>2, <2>5 DEF MeansInv
      <3>2. Queued(n)' /\ Understood(n, Len(buffer) = BufferSize)' /\ n \in 0..Len(typed')
        BY <1>1, <2>4, <3>1
      <3>3. QED
        BY <1>1, <2>1, <2>2, <2>5, <3>2 DEF MeansInv, Reading, Read
    <2>6. CASE pc \in Read
      <3> SUFFICES ASSUME err = "none" PROVE MeansInv'
        BY <1>1, <2>1, <2>2, <2>6 DEF MeansInv, Reading, Read
      <3>1. PICK n \in 0..Len(typed) - 1 : /\ c = typed[n + 1] /\ Understood(n, FALSE)
                                           /\ c # "enter" => Queued(n + 1)
        BY <2>2, <2>6 DEF MeansInv
      <3>2. /\ n \in 0..Len(typed) /\ n + 1 \in 0..Len(typed) /\ n + 1 \in 1..Len(typed)
            /\ n \in 0..Len(typed') - 1
        BY <2>1, <3>1
      <3>3. c' = typed'[n + 1] /\ Understood(n, FALSE)' /\ (c' # "enter" => Queued(n + 1)')
        BY <1>1, <2>1, <2>4, <3>1, <3>2
      <3>4. QED
        BY <1>1, <2>1, <2>2, <2>6, <3>2, <3>3 DEF MeansInv, Reading, Read
    <2>7. CASE pc \in {"copy", "out"}
      BY <1>1, <2>1, <2>2, <2>4, <2>7 DEF MeansInv, Reading, Read
    <2>8. QED
      BY <1>1, <2>1, <2>5, <2>6, <2>7 DEF MeansInv, Reading, Read
  <1>4. QED
    BY <1>2, <1>3 DEF Type

LEMMA MeansWorld ==
  ASSUME AuthInv, InputInv, MeansInv, World
  PROVE  MeansInv'
  <1>1. CASE HangUp
    BY <1>1 DEF HangUp, MeansInv, past
  <1>2. CASE Interrupt
    BY <1>2, MeansStays DEF Interrupt, Reading, callee, result, past
  <1>3. QED
    BY <1>1, <1>2, MeansTyped DEF World

(* The whole call of auth().                                                *)
LEMMA Meaning == AuthInv /\ BufferInv /\ InputInv /\ MeansInv /\ [Next]_vars => MeansInv'
  <1> SUFFICES ASSUME AuthInv, BufferInv, InputInv, MeansInv, [Next]_vars PROVE MeansInv'
    OBVIOUS
  <1>1. CASE Prompting
    BY <1>1, MeansPrompting DEF Prompting
  <1>2. CASE Outside
    BY <1>2, MeansWorld DEF Outside
  <1>3. CASE Answered \/ (\E how \in Styles : Call(how))
    <2>1. typed' = typed /\ pc' \in {"idle", "echo", "isig"}
      BY <1>3 DEF Answered, Call, past
    <2>2. QED
      BY <2>1 DEF MeansInv, Reading, Read
  <1>4. CASE UNCHANGED promptVars
    BY <1>4, MeansStays DEF promptVars, callee, result, world, past
  <1>5. QED
    <2>1. \/ Prompting \/ Outside \/ Answered \/ (\E how \in Styles : Call(how))
          \/ UNCHANGED promptVars
      BY DEF Next, Vlock, Start, Decide, End, Converse, Ask, Tell, HandOver, FailConversation,
             AskPassword, Verify, vars, Styles
    <2>2. QED
      BY <1>1, <1>2, <1>3, <1>4, <2>1

(* A reply is what the keys meant that were typed while its prompt was on   *)
(* the screen, whatever else was typed, and in whichever step: no key of    *)
(* another prompt, none twice, none left out.                               *)
THEOREM RepliesAreMeant == Spec => []ReplyIsMeant
  <1>1. MeansInv => ReplyIsMeant
    <2> SUFFICES ASSUME MeansInv, pc = "out", reply # NoReply, ~lost, ~hungup
                 PROVE  reply = <<Meant(typed)>>
      BY DEF ReplyIsMeant
    <2>1. PICK n \in 0..Len(typed) : Understood(n, TRUE)
      BY DEF MeansInv
    <2>2. reply = <<buffer>> /\ typed \in Seq(Keys)
      BY DEF MeansInv
    <2>3. After(typed)[Len(typed)] = After(typed)[n]
      BY <2>1, <2>2, EndedStays DEF Understood
    <2>4. QED
      BY <2>1, <2>2, <2>3 DEF Understood, Meant
  <1>2. QED
    <2>1. AuthInv /\ DataInv /\ MeansInv /\ [Next]_vars => MeansInv'
      BY Meaning DEF DataInv
    <2>2. QED
      BY <1>1, <2>1, MeansInit, Inductive, Buffers, PTL DEF Spec
=============================================================================
