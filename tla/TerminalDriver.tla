--------------------------- MODULE TerminalDriver ---------------------------
(* The terminal driver (bombadil-terminal/src/main.rs): a program runs on a   *)
(* pseudo-terminal, a task reads what it writes and sends it through a        *)
(* bounded channel, and test_program feeds it to an emulated terminal and     *)
(* answers silence with random input.  The program, its descendants, the      *)
(* kernel's two buffers and the clock are the environment.                    *)
EXTENDS Integers, Sequences

CONSTANTS
    Capacity,        \* of the channel of output
    ReadSize,        \* of the reader's buffer, in bytes
    KernelOut,       \* bytes of output the kernel keeps for the reader
    KernelIn,        \* bytes of input it keeps for the program
    MaxOutput,       \* bound: bytes the program writes in all
    Patience         \* readings of the clock without a render

ASSUME ConstantsAssumption ==
    /\ \A bound \in {Capacity, ReadSize, KernelOut, KernelIn} :
        bound \in Nat \ {0}
    /\ MaxOutput \in Nat /\ Patience \in Nat

VARIABLES
    pc,              \* where test_program is
    toWrite,         \* bytes of the input that write_all still has to write
    quiet,           \* the time since render_last_at
    channel,         \* chunks of decoded output
    reader,          \* reading, sending, done, panicked
    chunk,           \* what the reader has decoded and not sent
    output,          \* bytes in the kernel for the reader
    input,           \* how many bytes it has for the program
    program,         \* running, wedged, detached, exited
    success,         \* its exit status
    held,            \* a descendant has the terminal open
    verdict,         \* how the test ended
    (* history *)
    written,         \* every byte written to the terminal
    cuts,            \* where in it the reads ended, in turn
    seen             \* the chunks the emulated terminal was given

outVars == <<output, written>>
readVars == <<channel, reader, chunk, cuts>>
programVars == <<program, success, held>>
screenVars == <<quiet, seen>>
vars == <<pc, toWrite, screenVars, readVars, outVars, input, programVars,
          verdict>>

-----------------------------------------------------------------------------
(* The program writes ASCII or a character of two bytes.                      *)
Characters == {<<"a">>, <<"lead", "trail">>}

Prefix(s, n) == SubSeq(s, 1, n)

(* String::from_utf8_lossy on the bytes of one read *)
Completed(bytes, i) ==
    bytes[i] = "trail" /\ i > 1 /\ bytes[i - 1] = "lead"
Dangling(bytes, i) ==
    \/ bytes[i] = "trail" /\ ~Completed(bytes, i)
    \/ bytes[i] = "lead" /\ i = Len(bytes)
Lossy(bytes) ==
    LET shown == SelectSeq([i \in DOMAIN bytes |-> i],
                           LAMBDA i : \/ bytes[i] = "a" \/ Completed(bytes, i)
                                      \/ Dangling(bytes, i))
    IN [k \in DOMAIN shown |->
            IF bytes[shown[k]] = "a" THEN "a"
            ELSE IF Completed(bytes, shown[k]) THEN "wide" ELSE "replacement"]

(* The kernel ends the stream when nobody has the terminal open any more.     *)
TerminalOpen == program \in {"running", "wedged"} \/ held
Running == verdict = "none"

-----------------------------------------------------------------------------
(* random_action: a character, the three bytes of an arrow key, or scrolling *)
(* and resizing, which neither the program's output nor its input waits for.  *)
(* Every branch has a leaf and a weight, so that pruning and picking succeed. *)
RandomAction == {1, 3, 0}

-----------------------------------------------------------------------------
Init ==
    /\ pc = "starting" /\ toWrite = 0 /\ quiet = 0
    /\ channel = <<>> /\ reader = "reading" /\ chunk = <<>>
    /\ output = <<>> /\ input = 0
    /\ program = "running" /\ success = TRUE /\ held = FALSE
    /\ verdict = "none"
    /\ written = <<>> /\ cuts = <<>> /\ seen = <<>>

(* The sleep of 200 ms before the loop *)
Start ==
    /\ Running /\ pc = "starting"
    /\ pc' = "reading"
    /\ UNCHANGED <<toWrite, screenVars, readVars, outVars, input, programVars,
                   verdict>>

-----------------------------------------------------------------------------
(* The reader's task *)

Read ==
    /\ reader = "reading" /\ output # <<>>
    /\ \E n \in 1..ReadSize :
        /\ n <= Len(output)
        /\ chunk' = Lossy(Prefix(output, n))
        /\ output' = SubSeq(output, n + 1, Len(output))
        /\ cuts' = Append(cuts, Len(written) - Len(output) + n)
    /\ reader' = "sending"
    /\ UNCHANGED <<pc, toWrite, screenVars, channel, written, input,
                   programVars, verdict>>

(* send waits for room; with the receiver gone, it fails and expect panics.   *)
ChannelNeverFull == TRUE     \* As if the channel were unbounded
ChannelHasRoom == Len(channel) < Capacity

SendOrDrop ==               \* As if by try_send
    /\ reader = "sending"
    /\ channel' = IF ChannelHasRoom THEN Append(channel, chunk) ELSE channel
    /\ reader' = "reading"
    /\ chunk' = <<>>
    /\ UNCHANGED <<pc, toWrite, screenVars, cuts, outVars, input, programVars,
                   verdict>>
Send ==
    /\ reader = "sending"
    /\ IF Running
       THEN /\ ChannelHasRoom
            /\ channel' = Append(channel, chunk)
            /\ reader' = "reading"
       ELSE reader' = "panicked" /\ UNCHANGED channel
    /\ chunk' = <<>>
    /\ UNCHANGED <<pc, toWrite, screenVars, cuts, outVars, input, programVars,
                   verdict>>

(* The end of the stream, as no bytes or as an error *)
ReadRetries ==              \* As if after an error
    /\ reader = "reading" /\ output = <<>> /\ ~TerminalOpen
    /\ UNCHANGED vars
ReadEnds ==
    /\ reader = "reading" /\ output = <<>> /\ ~TerminalOpen
    /\ reader' = "done"
    /\ UNCHANGED <<pc, toWrite, screenVars, channel, chunk, cuts, outVars,
                   input, programVars, verdict>>

-----------------------------------------------------------------------------
(* test_program *)

ReceiveOutput ==
    /\ Running /\ pc \in {"reading", "draining"} /\ channel # <<>>
    /\ seen' = Append(seen, Head(channel))
    /\ channel' = Tail(channel)
    /\ pc' = "draining"
    /\ UNCHANGED <<toWrite, quiet, reader, chunk, cuts,
                   outVars, input, programVars, verdict>>

Render ==
    /\ Running /\ pc = "draining" /\ channel = <<>>
    /\ quiet' = 0
    /\ pc' = "reading"
    /\ UNCHANGED <<toWrite, seen, readVars, outVars, input,
                   programVars, verdict>>

ReceiveEnd ==
    /\ Running /\ pc = "reading" /\ channel = <<>> /\ reader = "done"
    /\ pc' = "waiting"
    /\ UNCHANGED <<toWrite, screenVars, readVars, outVars, input, programVars,
                   verdict>>

(* A millisecond passes without output *)
Silence == Running /\ pc = "reading" /\ channel = <<>> /\ reader # "done"

FindFinished ==
    /\ Silence /\ program = "exited"
    /\ pc' = "waiting"
    /\ UNCHANGED <<toWrite, screenVars, readVars, outVars, input, programVars,
                   verdict>>

GiveUp ==
    /\ Silence /\ program # "exited" /\ quiet > Patience
    /\ verdict' = "stuck"
    /\ UNCHANGED <<pc, toWrite, screenVars, readVars, outVars, input,
                   programVars>>

ChooseToAct ==
    /\ Silence /\ program # "exited" /\ quiet <= Patience
    /\ pc' = "acting"
    /\ UNCHANGED <<toWrite, screenVars, readVars, outVars, input, programVars,
                   verdict>>

QuietEndsWithAction == 0    \* As if input counted like a render
QuietAfterAction == quiet

Act ==
    /\ Running /\ pc = "acting"
    /\ toWrite' \in RandomAction
    /\ pc' = IF toWrite' = 0 THEN "reading" ELSE "writing"
    /\ quiet' = QuietAfterAction
    /\ UNCHANGED <<seen, readVars, outVars, input, programVars, verdict>>

(* write_all blocks on a full buffer; once the terminal is closed it fails    *)
(* and expect panics.                                                         *)
WriteInput ==
    /\ Running /\ pc = "writing" /\ TerminalOpen /\ input < KernelIn
    /\ input' = input + 1
    /\ toWrite' = toWrite - 1
    /\ pc' = IF toWrite = 1 THEN "reading" ELSE pc
    /\ UNCHANGED <<screenVars, readVars, outVars, programVars, verdict>>

WriteFails ==
    /\ Running /\ pc = "writing" /\ ~TerminalOpen
    /\ verdict' = "panicked"
    /\ UNCHANGED <<pc, toWrite, screenVars, readVars, outVars, input,
                   programVars>>

(* PtyProcess::wait *)
WaitForProgram ==
    /\ Running /\ pc = "waiting" /\ program = "exited"
    /\ pc' = "joining"
    /\ UNCHANGED <<toWrite, screenVars, readVars, outVars, input, programVars,
                   verdict>>

JoinReader ==
    /\ Running /\ pc = "joining" /\ reader = "done"
    /\ verdict' = IF success THEN "passed" ELSE "failed"
    /\ UNCHANGED <<pc, toWrite, screenVars, readVars, outVars, input,
                   programVars>>

-----------------------------------------------------------------------------
(* The program, its descendants and the clock *)

ProgramWrites ==
    /\ program = "running" \/ held
    /\ \E character \in Characters :
        /\ Len(output) + Len(character) <= KernelOut
        /\ Len(written) + Len(character) <= MaxOutput
        /\ output' = output \o character
        /\ written' = written \o character
    /\ UNCHANGED <<pc, toWrite, screenVars, readVars, input, programVars,
                   verdict>>

ProgramReads ==
    /\ program = "running" /\ input > 0
    /\ input' = input - 1
    /\ UNCHANGED <<pc, toWrite, screenVars, readVars, outVars, programVars,
                   verdict>>

ProgramWedges ==
    /\ program = "running"
    /\ program' = "wedged"
    /\ UNCHANGED <<pc, toWrite, screenVars, readVars, outVars, input, success,
                   held, verdict>>

ProgramDetaches ==
    /\ program = "running"
    /\ program' = "detached"
    /\ UNCHANGED <<pc, toWrite, screenVars, readVars, outVars, input, success,
                   held, verdict>>

ProgramExits ==
    /\ program \in {"running", "detached"}
    /\ program' = "exited"
    /\ success' \in BOOLEAN
    /\ UNCHANGED <<pc, toWrite, screenVars, readVars, outVars, input, held,
                   verdict>>

ProgramForks ==
    /\ program = "running" /\ ~held
    /\ held' = TRUE
    /\ UNCHANGED <<pc, toWrite, screenVars, readVars, outVars, input, program,
                   success, verdict>>

DescendantExits ==
    /\ held
    /\ held' = FALSE
    /\ UNCHANGED <<pc, toWrite, screenVars, readVars, outVars, input, program,
                   success, verdict>>

Tick ==
    /\ Running /\ quiet <= Patience
    /\ quiet' = quiet + 1
    /\ UNCHANGED <<pc, toWrite, seen, readVars, outVars, input,
                   programVars, verdict>>

-----------------------------------------------------------------------------
Reader == Read \/ Send \/ ReadEnds
Test == Start \/ ReceiveOutput \/ Render \/ ReceiveEnd \/ FindFinished
            \/ GiveUp \/ ChooseToAct \/ Act \/ WriteInput \/ WriteFails
            \/ WaitForProgram \/ JoinReader
Program == ProgramWrites \/ ProgramReads \/ ProgramWedges \/ ProgramDetaches
               \/ ProgramExits \/ ProgramForks \/ DescendantExits

Next == Reader \/ Test \/ Program \/ Tick

(* The two tasks run and time passes; the program need not do anything.       *)
Spec == Init /\ [][Next]_vars /\ WF_vars(Reader) /\ WF_vars(Test)
            /\ WF_vars(Tick)

-----------------------------------------------------------------------------
(* Types *)
TypeOK ==
    /\ pc \in {"starting", "reading", "draining", "acting", "writing",
               "waiting", "joining"}
    /\ toWrite \in 0..3 /\ (pc = "writing" <=> toWrite > 0)
    /\ quiet \in 0..(Patience + 1)
    /\ reader \in {"reading", "sending", "done", "panicked"}
    /\ Len(channel) <= Capacity
    /\ Len(output) <= KernelOut /\ input \in 0..KernelIn
    /\ program \in {"running", "wedged", "detached", "exited"}
    /\ success \in BOOLEAN /\ held \in BOOLEAN
    /\ verdict \in {"none", "passed", "failed", "stuck", "panicked"}

(* What the emulated terminal shows is what the program wrote, in order and   *)
(* with nothing left out or shown twice, decoded read by read: only a         *)
(* character that a read ended inside is damaged.  Once the reader is done    *)
(* and the channel empty, all of it was shown (PtyProcess::spawn, PtyOutput,  *)
(* test_program).                                                             *)
CutBefore(i) == IF i = 1 THEN 0 ELSE cuts[i - 1]
Decoded(i) == Lossy(SubSeq(written, CutBefore(i) + 1, cuts[i]))
ReadSoFar == CutBefore(Len(cuts) + 1)

ShowsWhatWasWritten ==
    /\ \A i \in DOMAIN cuts : CutBefore(i) < cuts[i]
    /\ DOMAIN seen \subseteq DOMAIN cuts
    /\ \A i \in DOMAIN seen : seen[i] = Decoded(i)
    /\ reader = "done" /\ channel = <<>> =>
          DOMAIN seen = DOMAIN cuts /\ ReadSoFar = Len(written)

(* A program that stops reacting is reported, unless the test itself waits:   *)
(* in a write for a program that reads no input, which the patience of ten    *)
(* seconds does not cover (test_program).                                     *)
StuckIsNoticed ==
    program = "wedged" /\ ~held ~>
        \/ verdict # "none"
        \/ pc = "writing" /\ input = KernelIn

(* When the program has exited and nobody else has its terminal, the test     *)
(* ends, unless the reader waits for room in a channel nobody reads any more  *)
(* (PtyProcess::wait).                                                        *)
EndsWithTheProgram ==
    program = "exited" /\ ~held ~>
        \/ verdict # "none"
        \/ pc = "joining" /\ reader = "sending" /\ ~ChannelHasRoom
=============================================================================
