----------------------------- MODULE LineSource -----------------------------
(***************************************************************************)
(* FileSource, which reads in poll(), and StdinSource, whose lines a       *)
(* thread reads ahead into a channel of one.                               *)
(*                                                                         *)
(* The input is a sequence of lines, each "text" or "binary" (not UTF-8).  *)
(* A read can fail within a line, and what it leaves of it is text or not  *)
(* whatever the line was: a text line cut inside a character, a binary one *)
(* whose bad bytes are gone.  A .bin file is one message whatever is in    *)
(* it.  Stdin need not have a next line.                                   *)
(***************************************************************************)
EXTENDS SourceLoop, FiniteSets

CONSTANTS
    Inputs,         \* the contents: sequences of line classes
    MaxFaults       \* bound: failing reads

\* What an instance has to give.
LineAssumption == MaxFaults \in Nat /\ Inputs \subseteq Seq({"text", "binary"})

VARIABLES
    kind,       \* "file", "bin", "stdin"
    input,
    line,       \* lines consumed
    rest,       \* what is left of the next line: "whole", or a "text" or "binary" part
    faults,
    reader,     \* stdin's thread: "read", "send", "gone"; "none" for a file
    held,       \* what the thread has to send
    channel,    \* the channel of one: a line, "error" or empty
    fragments   \* history: lines of which a failed read threw something away

readVars == <<line, rest, faults, fragments>>
vars == <<loopVars, kind, input, readVars, reader, held, channel>>

Error == 0      \* an io::Error in place of a line
Nothing == -1

Init ==
    /\ LoopInit
    /\ kind \in {"file", "bin", "stdin"}
    /\ input \in Inputs
    /\ line = 0 /\ rest = "whole" /\ faults = 0
    /\ reader = IF kind = "stdin" THEN "read" ELSE "none"
    /\ held = Nothing /\ channel = Nothing
    /\ fragments = {}

-----------------------------------------------------------------------------
(***************************************************************************)
(* read_line().                                                            *)
(***************************************************************************)

\* What is there to read of line i when n lines have been consumed.
ToRead(n, i) == IF n = line /\ i = line + 1 /\ rest # "whole" THEN rest ELSE input[i]

\* The line the next read_line() that succeeds returns; lines that are not
\* UTF-8 are consumed and skipped.  Len(input) + 1 is end of file.
NextText(from) ==
    LET texts == {i \in (from + 1)..Len(input) : ToRead(from, i) = "text"}
    IN IF texts = {} THEN Len(input) + 1 ELSE CHOOSE i \in texts : \A j \in texts : i <= j

AtEof(next) == next > Len(input)

\* A read that fails after `at' lines, those it skipped included.  It has
\* consumed nothing of the next line, part of it, or all of a last line that
\* ends without a newline; what it consumed is gone.
ReadFails(at, left) ==
    /\ faults < MaxFaults
    /\ faults' = faults + 1
    /\ at \in line..Len(input) /\ at < NextText(line)
    /\ IF left = "all"
       THEN line' = at /\ rest' = (IF at = line THEN rest ELSE "whole") /\ UNCHANGED fragments
       ELSE /\ at < Len(input)
            /\ fragments' = fragments \cup {IF kind = "bin" THEN Len(input) ELSE at + 1}
            /\ IF left = "none" THEN at + 1 = Len(input) /\ line' = Len(input) /\ rest' = "whole"
               ELSE line' = at /\ rest' = left

\* What a failed read may leave of a line.
Leaves == {"all", "text", "binary", "none"}

ReadTo(next) ==
    /\ line' = IF AtEof(next) THEN Len(input) ELSE next
    /\ rest' = "whole"
    /\ UNCHANGED <<faults, fragments>>

FilePoll ==
    /\ kind = "file"
    /\ \/ LET next == NextText(line)
          IN /\ IF AtEof(next) THEN PollNone ELSE PollSome(next)
             /\ ReadTo(next)
       \/ \E at \in 0..Len(input), left \in Leaves : ReadFails(at, left) /\ PollError
    /\ UNCHANGED <<kind, input, reader, held, channel>>

\* A .bin file: read_to_end() until one succeeds, then end of file.
BinaryPoll ==
    /\ kind = "bin"
    /\ IF emitted # <<>> THEN PollNone /\ UNCHANGED readVars
       ELSE \/ PollSome(Len(input)) /\ ReadTo(Len(input) + 1)
            \/ \E left \in Leaves : ReadFails(line, left) /\ PollError
    /\ UNCHANGED <<kind, input, reader, held, channel>>

(***************************************************************************)
(* StdinSource.                                                            *)
(***************************************************************************)

\* The thread reads a line or an error, or leaves at end of file.
ThreadReads ==
    /\ reader = "read"
    /\ \/ LET next == NextText(line)
          IN /\ ReadTo(next)
             /\ IF AtEof(next) THEN reader' = "gone" /\ UNCHANGED held
                ELSE reader' = "send" /\ held' = next
       \/ \E at \in 0..Len(input), left \in Leaves : ReadFails(at, left) /\ reader' = "send" /\ held' = Error
    /\ UNCHANGED <<loopVars, kind, input, channel>>

\* blocking_send: it waits for room, and fails once close() has dropped lines.
ThreadSends ==
    /\ reader = "send"
    /\ IF phase = "done" THEN reader' = "gone" /\ UNCHANGED channel
       ELSE channel = Nothing /\ channel' = held /\ reader' = "read"
    /\ held' = Nothing
    /\ UNCHANGED <<loopVars, kind, input, readVars>>

StdinPoll ==
    /\ kind = "stdin"
    /\ \/ channel > Error /\ PollSome(channel)
       \/ channel = Error /\ PollError
       \/ channel = Nothing /\ reader = "gone" /\ PollNone
    /\ channel' = Nothing
    /\ UNCHANGED <<kind, input, readVars, reader, held>>

\* close(): the reader or the receiver is dropped; a blocked thread goes on.
CloseSource ==
    /\ Closed
    /\ channel' = Nothing
    /\ UNCHANGED <<kind, input, readVars, reader, held>>

Rest == UNCHANGED <<kind, input, readVars, reader, held, channel>>

Over == phase = "done" /\ UNCHANGED vars

Next ==
    \/ FilePoll \/ BinaryPoll \/ StdinPoll
    \/ ThreadReads \/ ThreadSends
    \/ LoopStep /\ Rest
    \/ Cancel /\ Rest
    \/ CloseSource
    \/ Over

Spec == Init /\ [][Next]_vars

(***************************************************************************)
(* Fairness: the task is polled.  Not the thread: nobody need type a line. *)
(***************************************************************************)
SourceTask == FilePoll \/ BinaryPoll \/ StdinPoll \/ (LoopStep /\ Rest) \/ CloseSource

FairSpec == Spec /\ WF_vars(SourceTask)

-----------------------------------------------------------------------------
LineTypeOK ==
    /\ LoopTypeOK
    /\ kind \in {"file", "bin", "stdin"}
    /\ input \in Inputs
    /\ line \in 0..Len(input)
    /\ rest \in {"whole", "text", "binary"}
    /\ faults \in 0..MaxFaults
    /\ reader \in {"none", "read", "send", "gone"}
    /\ held \in {Nothing, Error} \cup 1..Len(input)
    /\ channel \in {Nothing, Error} \cup 1..Len(input)

Text == {i \in 1..Len(input) : input[i] = "text"}

\* A source that came to its end of file has emitted every line of text and no
\* other, apart from the lines a failed read cut, and each failed read cut at
\* most one; a .bin file is always one message.
EofIsComplete ==
    /\ Cardinality(fragments) <= faults
    /\ phase = "done" /\ result = "ok" /\ ~cancelled =>
          IF kind = "bin" THEN ToSet(emitted) = {Len(input)}
          ELSE ToSet(emitted) \ fragments = Text \ fragments

\* Bad data never uses up the error budget: a source whose reads do not fail
\* does not fail.
BadDataIsNoError == faults = 0 => pollErrors = 0 /\ result = "ok"

\* One envelope per line: what is emitted is a whole line.
WholeLines == ToSet(emitted) \cap fragments = {}
=============================================================================
