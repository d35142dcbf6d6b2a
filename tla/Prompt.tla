------------------------------- MODULE Prompt -------------------------------
(***************************************************************************)
(* prompt() and prompt_echo_off() of prompt.c, with the functions they     *)
(* read characters by, and the terminal they read from: its flags, its     *)
(* input queue, and somebody who types between any two steps.  The terminal *)
(* edits its input itself while it is in canonical mode.                   *)
(*                                                                         *)
(* A prompt is a subroutine: pc is "idle" unless one is on the screen.     *)
(***************************************************************************)
EXTENDS Naturals, SequencesExt

CONSTANTS
    InitialFlags,   \* flags the terminal may have when vlock asks
    BufferSize,     \* characters that fit into the buffer
    Timeouts,       \* whether a timeout is given
    MaxKeys,        \* bound: keys typed
    MaxSignals      \* bound: caught signals

ASSUME PromptAssumption ==
    /\ InitialFlags \subseteq SUBSET {"echo", "isig", "icanon"}
    /\ BufferSize \in Nat \ {0}
    /\ Timeouts \subseteq BOOLEAN
    /\ MaxKeys \in Nat /\ MaxSignals \in Nat

VARIABLES
    pc,             \* where the prompt is
    style,          \* "echo_off" or "echo_on"
    flags,          \* what is set in c_lflag
    saved,          \* the lflag variables of the running functions
    timed,          \* there is a timeout
    c,              \* the character read last
    buffer,
    err,            \* "none", "timeout" or "failed"
    reply,          \* <<the string read>>, or NoReply for NULL
    input,          \* the queue of the terminal
    keys, signals,  \* how many keys and signals came so far
    hungup,         \* the terminal is gone
    typed,          \* history: keys since input was flushed for this prompt
    lost            \* history: an erase key came between two characters

callee == <<style, saved, c, buffer>>
result == <<err, reply>>
world == <<keys, signals, hungup>>
past == <<typed, lost>>
promptVars == <<pc, callee, flags, timed, result, input, world, past>>

Keys == {"a", "enter", "erase"}
nul == "nul"
NoReply == <<>>

PromptInit ==
    /\ pc = "idle" /\ style = "echo_off"
    /\ flags \in InitialFlags
    /\ saved = <<>>
    /\ timed \in Timeouts
    /\ c = nul /\ buffer = <<>>
    /\ err = "none" /\ reply = NoReply
    /\ input = <<>>
    /\ keys = 0 /\ signals = 0 /\ hungup = FALSE
    /\ typed = <<>> /\ lost = FALSE

Clear(flag) == flags' = flags \ {flag} /\ saved' = Append(saved, flags)
Reset == flags' = Last(saved) /\ saved' = Front(saved)
Flush == input' = <<>>

-----------------------------------------------------------------------------
(* prompt_echo_off() and the first half of prompt()                        *)

Call(how) ==
    /\ pc = "idle"
    /\ style' = how
    /\ pc' = IF how = "echo_off" THEN "echo" ELSE "isig"
    /\ err' = "none" /\ reply' = NoReply
    /\ UNCHANGED <<flags, saved, timed, c, buffer, input, world, past>>

EchoOff ==
    /\ pc = "echo"
    /\ Clear("echo") /\ Flush
    /\ pc' = "isig"
    /\ UNCHANGED <<style, timed, c, buffer, result, world, past>>

(* Mutant: what was typed before the prompt is kept. *)
SignalsOff_NoFlush ==
    /\ pc = "isig"
    /\ Clear("isig")
    /\ typed' = <<>> /\ lost' = FALSE
    /\ buffer' = <<>>
    /\ pc' = "loop"
    /\ UNCHANGED <<style, timed, c, result, input, world>>

SignalsOff ==
    /\ pc = "isig"
    /\ Clear("isig") /\ Flush
    /\ typed' = <<>> /\ lost' = FALSE
    /\ buffer' = <<>>
    /\ pc' = "loop"
    /\ UNCHANGED <<style, timed, c, result, world>>

-----------------------------------------------------------------------------
(* wait_for_character() and read_character()                               *)

CanonicalOff ==
    /\ pc = "loop" /\ Len(buffer) < BufferSize
    /\ Clear("icanon")
    /\ pc' = "select"
    /\ UNCHANGED <<style, timed, c, buffer, result, input, world, past>>

Readable == input # <<>> \/ hungup

(* select() says there is input, or nothing is typed for the whole timeout, *)
(* or it fails.  A caught signal starts it again, with the whole timeout.   *)
Ready ==
    /\ pc = "select" /\ Readable
    /\ pc' = "read"
    /\ UNCHANGED <<callee, flags, timed, result, input, world, past>>

NotReady ==
    /\ pc = "select"
    /\ \/ timed /\ ~Readable /\ err' = "timeout"
       \/ err' = "failed"
    /\ c' = nul
    /\ pc' = "canonical"
    /\ UNCHANGED <<style, saved, buffer, flags, timed, reply, input, world, past>>

Restart ==
    /\ pc = "before_select"
    /\ pc' = "select"
    /\ UNCHANGED <<callee, flags, timed, result, input, world, past>>

(* A terminal that is gone reads as the end of a file, and c stays 0. *)
ReadByte ==
    /\ pc = "read"
    /\ \/ hungup /\ c' = nul /\ UNCHANGED input
       \/ ~hungup /\ c' = Head(input) /\ input' = Tail(input)
    /\ pc' = "canonical"
    /\ UNCHANGED <<style, saved, buffer, flags, timed, result, world, past>>

CanonicalBack ==
    /\ pc = "canonical"
    /\ Reset
    /\ pc' = "handle"
    /\ UNCHANGED <<style, timed, c, buffer, result, input, world, past>>

-----------------------------------------------------------------------------
(* The second half of prompt()                                             *)

(* Mutant: a read that got nothing is no character. *)
Handle_SkipNul ==
    /\ pc = "handle"
    /\ pc' = CASE err # "none" -> "out" [] err = "none" /\ c = "enter" -> "copy" [] OTHER -> "loop"
    /\ buffer' = CASE err # "none" \/ c \in {"enter", nul} -> buffer
                   [] c = "erase" -> IF buffer = <<>> THEN <<>> ELSE Front(buffer)
                   [] OTHER -> Append(buffer, c)
    /\ UNCHANGED <<style, saved, c, flags, timed, result, input, world, past>>

Handle ==
    /\ pc = "handle"
    /\ \/ err # "none" /\ pc' = "out" /\ UNCHANGED buffer
       \/ err = "none" /\ c = "enter" /\ pc' = "copy" /\ UNCHANGED buffer
       \/ /\ err = "none" /\ c = "erase" /\ pc' = "loop"
          /\ buffer' = IF buffer = <<>> THEN <<>> ELSE Front(buffer)
       \/ /\ err = "none" /\ c \notin {"enter", "erase"} /\ pc' = "loop"
          /\ buffer' = Append(buffer, c)
    /\ UNCHANGED <<style, saved, c, flags, timed, result, input, world, past>>

BufferFull ==
    /\ pc = "loop" /\ Len(buffer) = BufferSize
    /\ pc' = "copy"
    /\ UNCHANGED <<callee, flags, timed, result, input, world, past>>

(* The string ends at the first character 0; memory may be short. *)
String(s) == LET ends == {k \in DOMAIN s : s[k] = nul}
             IN  IF ends = {} THEN s ELSE SubSeq(s, 1, Min(ends) - 1)
Copy ==
    /\ pc = "copy"
    /\ \/ reply' = <<String(buffer)>> /\ UNCHANGED err
       \/ err' = "failed" /\ UNCHANGED reply
    /\ pc' = "out"
    /\ UNCHANGED <<callee, flags, timed, input, world, past>>

(* Mutant: a prompt without an answer returns at once. *)
Out_NotOnError ==
    /\ pc = "out"
    /\ IF err = "none" THEN Reset ELSE saved' = Front(saved) /\ UNCHANGED flags
    /\ Flush
    /\ c' = nul /\ buffer' = <<>>
    /\ typed' = <<>> /\ lost' = FALSE
    /\ pc' = IF style = "echo_off" THEN "echo_back" ELSE "done"
    /\ UNCHANGED <<style, timed, result, world>>

Out ==
    /\ pc = "out"
    /\ Reset /\ Flush
    /\ c' = nul /\ buffer' = <<>>
    /\ typed' = <<>> /\ lost' = FALSE
    /\ pc' = IF style = "echo_off" THEN "echo_back" ELSE "done"
    /\ UNCHANGED <<style, timed, result, world>>

EchoBack ==
    /\ pc = "echo_back"
    /\ Reset /\ Flush
    /\ pc' = "done"
    /\ UNCHANGED <<style, timed, c, buffer, result, world, past>>

-----------------------------------------------------------------------------
(* The person at the keyboard, and the kernel                              *)

Asking == pc \notin {"idle", "echo", "isig", "echo_back", "done"}

(* In canonical mode the kernel applies the erase key to the line typed so  *)
(* far, and drops it if there is none.  Neither is what it would do to the  *)
(* characters in the buffer of prompt().                                    *)
Type(k) ==
    /\ ~hungup /\ keys < MaxKeys
    /\ keys' = keys + 1
    /\ typed' = IF Asking THEN Append(typed, k) ELSE typed
    /\ IF k = "erase" /\ "icanon" \in flags
       THEN /\ input' = IF input = <<>> \/ Last(input) = "enter" THEN input ELSE Front(input)
            /\ lost' = (lost \/ (Asking /\ (input = <<>> \/ Last(input) # "enter")))
       ELSE /\ input' = Append(input, k)
            /\ UNCHANGED lost
    /\ UNCHANGED <<pc, callee, flags, timed, result, signals, hungup>>

HangUp ==
    /\ ~hungup
    /\ hungup' = TRUE
    /\ UNCHANGED <<pc, callee, flags, timed, result, input, keys, signals, past>>

(* A handler, such as those of console_switch.c, interrupts select(). *)
Interrupt ==
    /\ pc = "select" /\ signals < MaxSignals
    /\ signals' = signals + 1
    /\ pc' = "before_select"
    /\ UNCHANGED <<callee, flags, timed, result, input, keys, hungup, past>>

(* The steps vlock takes on its own; the rest is up to others.             *)
PromptStep ==
    \/ EchoOff \/ SignalsOff \/ CanonicalOff \/ Ready \/ NotReady \/ Restart
    \/ ReadByte \/ CanonicalBack \/ Handle \/ BufferFull \/ Copy \/ Out \/ EchoBack

World == (\E k \in Keys : Type(k)) \/ HangUp \/ Interrupt

-----------------------------------------------------------------------------
(* What somebody means who types these keys: the text up to the enter key,  *)
(* or as much as fits, each erase key taking back one character.            *)
Pressed(m, k) ==
    IF m.ended THEN m
    ELSE CASE k = "enter" -> [m EXCEPT !.ended = TRUE]
           [] k = "erase" -> [m EXCEPT !.text = SubSeq(@, 1, Len(@) - 1)]
           [] OTHER -> [text |-> Append(m.text, k), ended |-> Len(m.text) + 1 = BufferSize]

(* After each of the keys. *)
After(s) ==
    LET m[n \in 0..Len(s)] ==
            IF n = 0 THEN [text |-> <<>>, ended |-> FALSE] ELSE Pressed(m[n - 1], s[n])
    IN  m
Meant(s) == After(s)[Len(s)].text

(* The reply to a prompt is what was typed while it was on the screen, and  *)
(* nothing that was typed for another one.  An erase key that comes in the  *)
(* moments of canonical mode between two characters is excepted.            *)
ReplyIsMeant ==
    pc = "out" /\ reply # NoReply /\ ~lost /\ ~hungup => reply = <<Meant(typed)>>
=============================================================================
