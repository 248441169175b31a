------------------------ MODULE TerminalDriverProofs ------------------------
(* The terminal driver's types and the way of its output, for every capacity, *)
(* buffer and program: the emulated terminal is given what was written, in    *)
(* order, each byte once and with nothing left out.                           *)
EXTENDS TerminalDriver, SequenceTheorems, TLAPS

-----------------------------------------------------------------------------
(* The invariant *)

Bytes == {"a", "lead", "trail"}
Chunks == {Lossy(bytes) : bytes \in Seq(Bytes)}

SequencesTyped ==
    /\ written \in Seq(Bytes) /\ output \in Seq(Bytes)
    /\ channel \in Seq(Chunks) /\ seen \in Seq(Chunks)
    /\ reader = "sending" => chunk \in Chunks
    /\ cuts \in Seq(Int)

Typed == TypeOK /\ SequencesTyped

(* The reads cut what was written into pieces; the kernel has the rest.       *)
Cutting ==
    /\ \A i \in 1..Len(cuts) :
          cuts[i] \in 1..Len(written) /\ CutBefore(i) < cuts[i]
    /\ output = SubSeq(written, ReadSoFar + 1, Len(written))

(* Piece by piece was shown, then waits in the channel, then at its reader,   *)
(* and only the last one can get lost, by a reader that nobody listens to.    *)
InHand == IF reader \in {"sending", "panicked"} THEN 1 ELSE 0

Passing ==
    /\ \A i \in 1..Len(seen) : seen[i] = Decoded(i)
    /\ \A i \in 1..Len(channel) : channel[i] = Decoded(Len(seen) + i)
    /\ reader = "sending" => chunk = Decoded(Len(cuts))
    /\ Len(cuts) = Len(seen) + Len(channel) + InHand

(* A reader that is done has missed nothing and will not.                     *)
Closing == reader = "done" => ~TerminalOpen /\ output = <<>>

OutputInv == Cutting /\ Passing /\ Closing

-----------------------------------------------------------------------------
(* Types *)

(* Characters are bytes. *)
LEMMA CharactersTyped ==
    \A character \in Characters :
        character \in Seq(Bytes) /\ Len(character) \in 1..2
<1>1. "a" \in Bytes /\ "lead" \in Bytes /\ "trail" \in Bytes
  BY DEF Bytes
<1>2. <<"a">> \in Seq(Bytes) /\ Len(<<"a">>) = 1
  BY <1>1
<1>3. <<"lead", "trail">> \in Seq(Bytes) /\ Len(<<"lead", "trail">>) = 2
  BY <1>1
<1>4. \A character \in Characters :
         character = <<"a">> \/ character = <<"lead", "trail">>
  BY DEF Characters
<1> SUFFICES ASSUME NEW character \in Characters
             PROVE  character \in Seq(Bytes) /\ Len(character) \in 1..2
  OBVIOUS
<1>5. CASE character = <<"a">>
  BY <1>2, <1>5
<1>6. CASE character = <<"lead", "trail">>
  BY <1>3, <1>6
<1> QED
  BY <1>4, <1>5, <1>6

(* The capacities and the patience are numbers. *)
LEMMA ConstantsTyped ==
    /\ Capacity \in Nat \ {0} /\ ReadSize \in Nat \ {0}
    /\ KernelOut \in Nat \ {0} /\ KernelIn \in Nat \ {0}
    /\ Patience \in Nat
BY ConstantsAssumption

LEMMA TypedInit == Init => Typed
<1> SUFFICES ASSUME Init PROVE Typed
  OBVIOUS
<1>1. SequencesTyped
  BY DEF Init, SequencesTyped
<1>2. Len(channel) = 0 /\ Len(output) = 0
  BY DEF Init
<1>3. 0 \in 0..3 /\ 0 \in 0..(Patience + 1) /\ 0 \in 0..KernelIn
  BY ConstantsTyped
<1>4. Len(channel) <= Capacity /\ Len(output) <= KernelOut
  BY <1>2, ConstantsTyped
<1>5. pc # "writing" /\ ~(toWrite > 0)
  BY DEF Init
<1>6. TypeOK
  BY <1>3, <1>4, <1>5 DEF Init, TypeOK
<1> QED
  BY <1>1, <1>6 DEF Typed

(* The steps of the reader keep the types. *)
LEMMA ReaderTyped == ASSUME Typed, Reader PROVE Typed'
<1> USE DEF vars, outVars, readVars, programVars, screenVars, Running
<1>1. CASE Read
  <2>1. PICK n \in 1..ReadSize :
           /\ n <= Len(output) /\ chunk' = Lossy(Prefix(output, n))
           /\ output' = SubSeq(output, n + 1, Len(output))
           /\ cuts' = Append(cuts, Len(written) - Len(output) + n)
    BY <1>1 DEF Read
  <2>2. n \in Nat /\ Len(output) \in Nat
    BY LenProperties, ConstantsTyped DEF Typed, SequencesTyped
  <2>3. Prefix(output, n) \in Seq(Bytes)
    BY <2>1, <2>2, SubSeqProperties, ElementOfSeq
       DEF Prefix, Typed, SequencesTyped
  <2>4. /\ output' \in Seq(Bytes)
        /\ Len(output') = Len(output) - n
    BY <2>1, <2>2, SubSeqProperties, ElementOfSeq DEF Typed, SequencesTyped
  <2>5. cuts' \in Seq(Int)
    BY <2>1, <2>2, LenProperties, AppendProperties DEF Typed, SequencesTyped
  <2>6. SequencesTyped'
    BY <1>1, <2>1, <2>3, <2>4, <2>5 DEF Read, Typed, SequencesTyped, Chunks
  <2>7. TypeOK'
    BY <1>1, <2>2, <2>4, ConstantsTyped DEF Read, Typed, TypeOK
  <2> QED
    BY <2>6, <2>7 DEF Typed
<1>2. CASE Send
  <2>1. SequencesTyped'
    <3>1. channel' = channel \/ channel' = Append(channel, chunk)
      BY <1>2 DEF Send
    <3>2. channel' \in Seq(Chunks) /\ reader' # "sending"
      <4>1. channel \in Seq(Chunks) /\ chunk \in Chunks
        BY <1>2 DEF Send, Typed, SequencesTyped
      <4>2. Append(channel, chunk) \in Seq(Chunks)
        BY <4>1, AppendProperties
      <4>3. reader' # "sending"
        BY <1>2 DEF Send
      <4> QED
        BY <3>1, <4>1, <4>2, <4>3
    <3> QED
      BY <1>2, <3>2 DEF Send, Typed, SequencesTyped
  <2>2. Len(channel') <= Capacity
    BY <1>2, ConstantsTyped DEF Send, Typed, SequencesTyped, TypeOK,
       ChannelHasRoom
  <2>3. TypeOK'
    BY <1>2, <2>2 DEF Send, Typed, TypeOK
  <2> QED
    BY <2>1, <2>3 DEF Typed
<1>3. CASE ReadEnds
  BY <1>3 DEF ReadEnds, Typed, TypeOK, SequencesTyped
<1> QED
  BY <1>1, <1>2, <1>3 DEF Reader
(* So do those of the test, ... *)
LEMMA TestTyped == ASSUME Typed, Test PROVE Typed'
<1> USE DEF vars, outVars, readVars, programVars, screenVars, Running
<1>1. CASE Start \/ Render \/ ReceiveEnd \/ FindFinished \/ GiveUp
           \/ ChooseToAct \/ WriteFails \/ WaitForProgram \/ JoinReader
  <2>1. SequencesTyped'
    BY <1>1 DEF Start, Render, ReceiveEnd, FindFinished, GiveUp, ChooseToAct,
       WriteFails, WaitForProgram, JoinReader, Typed, SequencesTyped
  <2>2. TypeOK'
    BY <1>1, ConstantsTyped DEF Start, Render, ReceiveEnd, FindFinished, GiveUp,
       ChooseToAct, WriteFails, WaitForProgram, JoinReader, Silence, Typed,
       TypeOK
  <2> QED
    BY <2>1, <2>2 DEF Typed
<1>2. CASE ReceiveOutput
  <2>1. /\ Head(channel) \in Chunks /\ Tail(channel) \in Seq(Chunks)
        /\ Len(Tail(channel)) = Len(channel) - 1 /\ Len(channel) \in Nat
    BY <1>2, HeadTailProperties, LenProperties
       DEF ReceiveOutput, Typed, SequencesTyped
  <2>2. SequencesTyped'
    BY <1>2, <2>1, AppendProperties DEF ReceiveOutput, Typed, SequencesTyped
  <2>3. TypeOK'
    BY <1>2, <2>1, ConstantsTyped DEF ReceiveOutput, Typed, TypeOK
  <2> QED
    BY <2>2, <2>3 DEF Typed
<1>3. CASE Act \/ WriteInput
  <2>1. SequencesTyped'
    BY <1>3 DEF Act, WriteInput, Typed, SequencesTyped
  <2>2. TypeOK'
    BY <1>3, ConstantsTyped DEF Act, WriteInput, RandomAction, QuietAfterAction,
       Typed, TypeOK
  <2> QED
    BY <2>1, <2>2 DEF Typed
<1> QED
  BY <1>1, <1>2, <1>3 DEF Test

(* ... the program and the clock. *)
LEMMA ProgramTyped == ASSUME Typed, Program \/ Tick PROVE Typed'
<1> USE DEF vars, outVars, readVars, programVars, screenVars, Running
<1>1. CASE ProgramWrites
  <2>1. PICK character \in Characters :
           /\ Len(output) + Len(character) <= KernelOut
           /\ output' = output \o character /\ written' = written \o character
    BY <1>1 DEF ProgramWrites
  <2>2. /\ character \in Seq(Bytes)
        /\ output \in Seq(Bytes) /\ written \in Seq(Bytes)
    BY CharactersTyped DEF Typed, SequencesTyped
  <2>3. /\ output' \in Seq(Bytes) /\ written' \in Seq(Bytes)
        /\ Len(output') = Len(output) + Len(character)
    BY <2>1, <2>2, ConcatProperties
  <2>4. SequencesTyped'
    BY <1>1, <2>3 DEF ProgramWrites, Typed, SequencesTyped
  <2>5. TypeOK'
    BY <1>1, <2>1, <2>3 DEF ProgramWrites, Typed, TypeOK
  <2> QED
    BY <2>4, <2>5 DEF Typed
<1>2. CASE ProgramReads \/ Tick
  <2>1. SequencesTyped'
    BY <1>2 DEF ProgramReads, Tick, Typed, SequencesTyped
  <2>2. CASE ProgramReads
    BY <2>1, <2>2, ConstantsTyped DEF ProgramReads, Typed, TypeOK
  <2>3. CASE Tick
    BY <2>1, <2>3, ConstantsTyped DEF Tick, Typed, TypeOK
  <2> QED
    BY <1>2, <2>2, <2>3
<1>3. CASE \/ ProgramWedges \/ ProgramDetaches \/ ProgramExits
           \/ ProgramForks \/ DescendantExits
  <2>1. SequencesTyped'
    BY <1>3 DEF ProgramWedges, ProgramDetaches, ProgramExits,
       ProgramForks, DescendantExits, Typed, SequencesTyped
  <2>2. TypeOK'
    BY <1>3 DEF ProgramWedges, ProgramDetaches,
       ProgramExits, ProgramForks, DescendantExits, Typed, TypeOK
  <2> QED
    BY <2>1, <2>2 DEF Typed
<1> QED
  BY <1>1, <1>2, <1>3 DEF Program

(* Every step keeps the types. *)
LEMMA TypedNext == Typed /\ [Next]_vars => Typed'
<1>1. ASSUME Typed, UNCHANGED vars PROVE Typed'
  BY <1>1 DEF vars, outVars, readVars, programVars, screenVars, Typed, TypeOK,
     SequencesTyped
<1> QED
  BY <1>1, ReaderTyped, TestTyped, ProgramTyped DEF Next

(* Every variable has its type, and no buffer holds more than it may. *)
THEOREM TypeCorrect == Spec => []TypeOK
<1>1. Typed => TypeOK
  BY DEF Typed
<1> QED
  BY <1>1, TypedInit, TypedNext, PTL DEF Spec

-----------------------------------------------------------------------------
(* The way of the output *)

(* What is left of a sequence after some of it *)
LEMMA RestLength ==
    ASSUME NEW all \in Seq(Bytes), NEW r \in 0..Len(all)
    PROVE  LET rest == SubSeq(all, r + 1, Len(all))
           IN rest \in Seq(Bytes) /\ Len(rest) = Len(all) - r
<1>1. Len(all) \in Nat /\ r \in Nat
  BY LenProperties
<1>2. \A i \in (r + 1)..Len(all) : all[i] \in Bytes
  BY <1>1, ElementOfSeq
<1> QED
  BY <1>1, <1>2, SubSeqProperties

(* A read takes a piece from the front of what the kernel has. *)
LEMMA PieceRead ==
    ASSUME NEW all \in Seq(Bytes), NEW r \in 0..Len(all),
           NEW n \in 1..(Len(all) - r)
    PROVE  LET rest == SubSeq(all, r + 1, Len(all))
           IN /\ Len(rest) = Len(all) - r
              /\ SubSeq(rest, 1, n) = SubSeq(all, r + 1, r + n)
              /\ SubSeq(rest, n + 1, Len(rest))
                    = SubSeq(all, r + n + 1, Len(all))
<1> DEFINE rest == SubSeq(all, r + 1, Len(all))
<1>1. Len(all) \in Nat /\ r \in Nat /\ n \in Nat /\ r + n <= Len(all)
  BY LenProperties
<1>2. rest \in Seq(Bytes) /\ Len(rest) = Len(all) - r
  BY RestLength
<1>3. /\ r + 1 \in 1..Len(all) /\ Len(all) \in 1..Len(all)
      /\ 1 \in 1..(Len(all) - (r + 1) + 1) /\ n \in 1..(Len(all) - (r + 1) + 1)
  BY <1>1
<1>4. SubSeq(rest, 1, n) = SubSeq(all, r + 1, r + n)
  <2>1. SubSeq(rest, 1, n) = SubSeq(all, (r + 1) + 1 - 1, (r + 1) + n - 1)
    BY <1>3, SubSeqOfSubSeq
  <2> QED
    BY <1>1, <2>1
<1>5. SubSeq(rest, n + 1, Len(rest)) = SubSeq(all, r + n + 1, Len(all))
  <2>1. CASE n = Len(rest)
    <3>1. Len(rest) < n + 1 /\ Len(all) < r + n + 1
      BY <1>1, <1>2, <2>1
    <3>2. SubSeq(rest, n + 1, Len(rest)) = <<>>
      BY <1>1, <1>2, <3>1, SubSeqEmpty
    <3>3. SubSeq(all, r + n + 1, Len(all)) = <<>>
      BY <1>1, <3>1, SubSeqEmpty
    <3> QED
      BY <3>2, <3>3
  <2>2. CASE n # Len(rest)
    <3>1. /\ n + 1 \in 1..(Len(all) - (r + 1) + 1)
          /\ Len(rest) \in 1..(Len(all) - (r + 1) + 1)
      BY <1>1, <1>2, <2>2
    <3>2. SubSeq(rest, n + 1, Len(rest))
             = SubSeq(all, (r + 1) + (n + 1) - 1, (r + 1) + Len(rest) - 1)
      BY <1>3, <3>1, SubSeqOfSubSeq
    <3> QED
      BY <1>1, <1>2, <3>2
  <2> QED
    BY <2>1, <2>2
<1> QED
  BY <1>2, <1>4, <1>5

(* What is written at the end changes no piece before and comes last in what  *)
(* the kernel has.                                                            *)
LEMMA PieceWritten ==
    ASSUME NEW all \in Seq(Bytes), NEW more \in Seq(Bytes), more # <<>>
    PROVE  /\ Len(all \o more) = Len(all) + Len(more)
           /\ \A m \in Nat, n \in 0..Len(all) :
                 SubSeq(all \o more, m + 1, n) = SubSeq(all, m + 1, n)
           /\ \A r \in 0..Len(all) :
                 SubSeq(all, r + 1, Len(all)) \o more
                    = SubSeq(all \o more, r + 1, Len(all \o more))
<1> DEFINE longer == all \o more
<1>1. /\ longer \in Seq(Bytes) /\ Len(longer) = Len(all) + Len(more)
      /\ Len(all) \in Nat /\ Len(more) \in Nat \ {0}
  BY ConcatProperties, LenProperties, EmptySeq
<1>2. ASSUME NEW m \in Nat, NEW n \in 0..Len(all)
      PROVE  SubSeq(longer, m + 1, n) = SubSeq(all, m + 1, n)
  <2>1. CASE n < m + 1
    BY <1>1, <2>1, SubSeqEmpty
  <2>2. CASE ~(n < m + 1)
    <3>1. m + 1 \in 1..Len(all) /\ n \in 1..Len(all)
      BY <1>1, <2>2
    <3> QED
      BY <3>1, SubSeqOfConcat1
  <2> QED
    BY <2>1, <2>2
<1>3. ASSUME NEW r \in 0..Len(all)
      PROVE  SubSeq(all, r + 1, Len(all)) \o more
                = SubSeq(longer, r + 1, Len(longer))
  <2>1. SubSeq(all, r + 1, Len(all)) = SubSeq(longer, r + 1, Len(all))
    BY <1>1, <1>2
  <2>2. SubSeq(longer, Len(all) + 1, Len(longer)) = more
    <3>1. /\ Len(all) + 1 \in Len(all) + 1 .. Len(all) + Len(more)
          /\ Len(longer) \in Len(all) + 1 .. Len(all) + Len(more)
          /\ Len(all) + 1 - Len(all) = 1
          /\ Len(longer) - Len(all) = Len(more)
      BY <1>1
    <3>2. SubSeq(longer, Len(all) + 1, Len(longer)) = SubSeq(more, 1, Len(more))
      BY <3>1, SubSeqOfConcat2
    <3> QED
      BY <3>2, SubSeqFull
  <2>3. /\ r + 1 \in 1..(Len(longer) + 1)
        /\ Len(all) \in (r + 1) - 1 .. Len(longer)
        /\ Len(longer) \in Len(all)..Len(longer)
    BY <1>1
  <2>4. SubSeq(longer, r + 1, Len(all))
           \o SubSeq(longer, Len(all) + 1, Len(longer))
           = SubSeq(longer, r + 1, Len(longer))
    BY <1>1, <2>3, ConcatAdjacentSubSeq
  <2> QED
    BY <2>1, <2>2, <2>4
<1> QED
  BY <1>1, <1>2, <1>3

(* Before every piece and after the last one is a place in what was written. *)
LEMMA CutsTyped ==
    ASSUME Typed, Cutting
    PROVE  /\ Len(written) \in Nat /\ Len(cuts) \in Nat
           /\ DOMAIN cuts = 1..Len(cuts)
           /\ \A i \in 1..Len(cuts) : /\ cuts[i] \in 0..Len(written)
                                      /\ CutBefore(i) \in 0..Len(written)
           /\ ReadSoFar \in 0..Len(written)
<1>1. /\ Len(written) \in Nat /\ Len(cuts) \in Nat
      /\ DOMAIN cuts = 1..Len(cuts)
  BY LenProperties DEF Typed, SequencesTyped
<1>2. \A i \in 1..Len(cuts) : cuts[i] \in 0..Len(written)
  BY <1>1 DEF Cutting
<1>3. ASSUME NEW i \in 1..(Len(cuts) + 1) PROVE CutBefore(i) \in 0..Len(written)
  <2>1. i = 1 \/ i - 1 \in 1..Len(cuts)
    BY <1>1
  <2> QED
    BY <1>1, <1>2, <2>1 DEF CutBefore
<1>4. Len(cuts) + 1 \in 1..(Len(cuts) + 1)
  BY <1>1
<1> QED
  BY <1>1, <1>2, <1>3, <1>4 DEF ReadSoFar

(* Where nothing is read or written, the pieces stay. *)
LEMMA PiecesStay ==
    ASSUME UNCHANGED <<cuts, outVars>>
    PROVE  /\ Cutting => Cutting'
           /\ \A i : Decoded(i)' = Decoded(i)
<1>1. /\ cuts' = cuts /\ written' = written /\ output' = output
      /\ \A i : CutBefore(i)' = CutBefore(i)
  BY DEF outVars, CutBefore
<1> QED
  BY <1>1 DEF Cutting, Decoded, ReadSoFar

(* A read adds a piece at the end. *)
LEMMA ReadKeeps == ASSUME Typed, Typed', OutputInv, Read PROVE OutputInv'
<1>1. PICK n \in 1..ReadSize :
         /\ n <= Len(output) /\ chunk' = Lossy(Prefix(output, n))
         /\ output' = SubSeq(output, n + 1, Len(output))
         /\ cuts' = Append(cuts, Len(written) - Len(output) + n)
  BY DEF Read
<1>2. /\ reader = "reading" /\ reader' = "sending"
      /\ UNCHANGED <<channel, written, seen, program, held>>
  BY DEF Read, screenVars, programVars
<1> DEFINE r == ReadSoFar
<1> PICK last : last = Len(cuts) + 1
  OBVIOUS
<1>3. /\ Len(written) \in Nat /\ Len(cuts) \in Nat /\ r \in 0..Len(written)
      /\ \A i \in 1..Len(cuts) : /\ cuts[i] \in 0..Len(written)
                                 /\ CutBefore(i) \in 0..Len(written)
      /\ written \in Seq(Bytes) /\ cuts \in Seq(Int)
  BY CutsTyped DEF Typed, OutputInv, SequencesTyped
<1>4. output = SubSeq(written, r + 1, Len(written))
  BY DEF OutputInv, Cutting
<1>5. Len(output) = Len(written) - r
  BY <1>3, <1>4, RestLength
<1>6. n \in 1..(Len(written) - r)
  BY <1>1, <1>3, <1>5, ConstantsTyped
<1>7. /\ Prefix(output, n) = SubSeq(written, r + 1, r + n)
      /\ output' = SubSeq(written, r + n + 1, Len(written))
  BY <1>1, <1>3, <1>4, <1>6, PieceRead DEF Prefix
<1>8. /\ Len(cuts') = last /\ cuts'[last] = r + n
      /\ \A i \in 1..Len(cuts) : cuts'[i] = cuts[i]
  BY <1>1, <1>3, <1>5, <1>6, AppendProperties
<1>9. /\ \A i \in 1..Len(cuts) : CutBefore(i)' = CutBefore(i)
      /\ CutBefore(last)' = r
      /\ ReadSoFar' = r + n
  <2>1. \A i \in 1..last : i = 1 \/ i - 1 \in 1..Len(cuts)
    BY <1>3
  <2>2. \A i \in 1..last : (CutBefore(i))' = CutBefore(i)
    BY <1>8, <2>1 DEF CutBefore
  <2>3. last \in 1..last /\ last + 1 # 1 /\ (last + 1) - 1 = last
    BY <1>3
  <2>4. CutBefore(last)' = r
    BY <1>3, <1>8, <2>1, <2>3 DEF CutBefore, ReadSoFar
  <2>5. ReadSoFar' = cuts'[last]
    BY <1>8, <2>3 DEF CutBefore, ReadSoFar
  <2> QED
    BY <1>3, <1>8, <2>2, <2>3, <2>4, <2>5
<1>10. \A i \in 1..Len(cuts') : i \in 1..Len(cuts) \/ i = last
  BY <1>3, <1>8
<1>11. Cutting'
  <2>1. ASSUME NEW i \in 1..Len(cuts')
        PROVE  cuts'[i] \in 1..Len(written) /\ CutBefore(i)' < cuts'[i]
    <3>1. CASE i \in 1..Len(cuts)
      BY <1>8, <1>9, <3>1 DEF OutputInv, Cutting
    <3>2. CASE i = last
      BY <1>3, <1>6, <1>8, <1>9, <3>2
    <3> QED
      BY <1>10, <3>1, <3>2
  <2> QED
    BY <1>2, <1>7, <1>9, <2>1 DEF Cutting
<1>12. /\ \A i \in 1..Len(cuts) : Decoded(i)' = Decoded(i)
       /\ Decoded(last)' = chunk'
  BY <1>1, <1>2, <1>7, <1>8, <1>9 DEF Decoded
<1>13. Passing'
  <2>1. /\ Len(seen) \in Nat /\ Len(channel) \in Nat
        /\ Len(cuts) = Len(seen) + Len(channel)
    BY <1>2, LenProperties DEF OutputInv, Passing, InHand, Typed, SequencesTyped
  <2>2. /\ \A i \in 1..Len(seen) : i \in 1..Len(cuts)
        /\ \A i \in 1..Len(channel) : Len(seen) + i \in 1..Len(cuts)
    BY <2>1
  <2>3. Len(cuts') = Len(seen') + Len(channel') + InHand'
    BY <1>2, <1>8, <2>1 DEF InHand
  <2> QED
    BY <1>2, <1>8, <1>12, <2>2, <2>3 DEF OutputInv, Passing
<1>14. Closing'
  BY <1>2 DEF Closing
<1> QED
  BY <1>11, <1>13, <1>14 DEF OutputInv

(* A write changes no piece there is. *)
LEMMA WriteKeeps ==
    ASSUME Typed, Typed', OutputInv, ProgramWrites PROVE OutputInv'
<1>1. PICK character \in Characters : /\ output' = output \o character
                                      /\ written' = written \o character
  BY DEF ProgramWrites
<1>2. /\ UNCHANGED <<channel, reader, chunk, cuts, seen, program, held>>
      /\ program = "running" \/ held
  BY DEF ProgramWrites, readVars, screenVars, programVars
<1>3. /\ Len(written) \in Nat /\ Len(cuts) \in Nat
      /\ ReadSoFar \in 0..Len(written)
      /\ \A i \in 1..Len(cuts) : /\ cuts[i] \in 0..Len(written)
                                 /\ CutBefore(i) \in 0..Len(written)
  BY CutsTyped DEF OutputInv
<1>4. /\ written \in Seq(Bytes) /\ character \in Seq(Bytes)
      /\ character # <<>> /\ Len(character) \in Nat \ {0}
  <2>1. character \in Seq(Bytes) /\ Len(character) \in 1..2
    BY CharactersTyped
  <2>2. character # <<>>
    BY <2>1, EmptySeq
  <2> QED
    BY <2>1, <2>2 DEF Typed, SequencesTyped
<1>5. /\ Len(written') = Len(written) + Len(character)
      /\ \A m \in Nat, n \in 0..Len(written) :
            SubSeq(written', m + 1, n) = SubSeq(written, m + 1, n)
      /\ \A r \in 0..Len(written) :
            SubSeq(written, r + 1, Len(written)) \o character
               = SubSeq(written', r + 1, Len(written'))
  BY <1>1, <1>4, PieceWritten
<1>6. \A i : CutBefore(i)' = CutBefore(i)
  BY <1>2 DEF CutBefore
<1>7. Cutting'
  <2>1. ReadSoFar' = ReadSoFar
    BY <1>2, <1>6 DEF ReadSoFar
  <2>2. output' = SubSeq(written', ReadSoFar' + 1, Len(written'))
    BY <1>1, <1>3, <1>5, <2>1 DEF OutputInv, Cutting
  <2>3. \A i \in 1..Len(cuts) :
           cuts[i] \in 1..Len(written') /\ CutBefore(i) < cuts[i]
    BY <1>3, <1>4, <1>5 DEF OutputInv, Cutting
  <2> QED
    BY <1>2, <1>6, <2>2, <2>3 DEF Cutting
<1>8. \A i \in 1..Len(cuts) : Decoded(i)' = Decoded(i)
  <2> SUFFICES ASSUME NEW i \in 1..Len(cuts)
               PROVE  Decoded(i)' = Decoded(i)
    OBVIOUS
  <2>1. CutBefore(i) \in Nat /\ cuts[i] \in 0..Len(written)
    BY <1>3
  <2> QED
    BY <1>2, <1>5, <1>6, <2>1 DEF Decoded
<1>9. Passing'
  <2>1. /\ Len(seen) \in Nat /\ Len(channel) \in Nat
        /\ Len(cuts) = Len(seen) + Len(channel) + InHand
    BY LenProperties DEF OutputInv, Passing, Typed, SequencesTyped
  <2>2. /\ \A i \in 1..Len(seen) : i \in 1..Len(cuts)
        /\ \A i \in 1..Len(channel) : Len(seen) + i \in 1..Len(cuts)
        /\ reader = "sending" => Len(cuts) \in 1..Len(cuts)
    BY <2>1 DEF InHand
  <2> QED
    BY <1>2, <1>8, <2>1, <2>2 DEF OutputInv, Passing, InHand
<1>10. Closing'
  BY <1>2 DEF OutputInv, Closing, TerminalOpen
<1> QED
  BY <1>7, <1>9, <1>10 DEF OutputInv

(* A piece that is sent comes last in the channel, or is lost with a reader   *)
(* that nobody listens to.                                                    *)
LEMMA SendKeeps == ASSUME Typed, Typed', OutputInv, Send PROVE OutputInv'
<1>1. /\ UNCHANGED <<cuts, outVars, seen>> /\ reader = "sending"
      /\ \/ channel' = Append(channel, chunk) /\ reader' = "reading"
         \/ channel' = channel /\ reader' = "panicked"
  BY DEF Send, screenVars
<1>2. Cutting' /\ \A i : Decoded(i)' = Decoded(i)
  BY <1>1, PiecesStay DEF OutputInv
<1>3. Closing'
  BY <1>1 DEF Closing
<1>4. /\ Len(seen) \in Nat /\ Len(channel) \in Nat
      /\ Len(cuts) = Len(seen) + Len(channel) + 1
      /\ channel \in Seq(Chunks) /\ chunk \in Chunks
  BY <1>1, LenProperties DEF OutputInv, Passing, InHand, Typed, SequencesTyped
<1>5. CASE channel' = Append(channel, chunk) /\ reader' = "reading"
  <2>1. /\ Len(channel') = Len(channel) + 1
        /\ \A i \in 1..Len(channel) : channel'[i] = channel[i]
        /\ channel'[Len(channel) + 1] = chunk
    BY <1>4, <1>5, AppendProperties
  <2>2. ASSUME NEW i \in 1..Len(channel')
        PROVE  channel'[i] = Decoded(Len(seen) + i)
    <3>1. CASE i \in 1..Len(channel)
      BY <2>1, <3>1 DEF OutputInv, Passing
    <3>2. CASE i = Len(channel) + 1
      <4>1. Len(seen) + i = Len(cuts)
        BY <1>4, <3>2
      <4> QED
        BY <1>1, <2>1, <3>2, <4>1 DEF OutputInv, Passing
    <3> QED
      BY <1>4, <2>1, <3>1, <3>2
  <2>3. Len(cuts) = Len(seen) + Len(channel') + 0
    BY <1>4, <2>1
  <2> QED
    BY <1>1, <1>2, <1>3, <1>5, <2>2, <2>3 DEF OutputInv, Passing, InHand
<1>6. CASE channel' = channel /\ reader' = "panicked"
  BY <1>1, <1>2, <1>3, <1>4, <1>6 DEF OutputInv, Passing, InHand
<1> QED
  BY <1>1, <1>5, <1>6

(* The first piece in the channel is the next one to show. *)
LEMMA ReceiveKeeps ==
    ASSUME Typed, Typed', OutputInv, ReceiveOutput PROVE OutputInv'
<1>1. /\ UNCHANGED <<cuts, outVars, reader, chunk, program, held>>
      /\ channel # <<>> /\ channel' = Tail(channel)
      /\ seen' = Append(seen, Head(channel))
  BY DEF ReceiveOutput, programVars
<1>2. Cutting' /\ \A i : Decoded(i)' = Decoded(i)
  BY <1>1, PiecesStay DEF OutputInv
<1>3. /\ Len(seen) \in Nat /\ Len(channel) \in Nat \ {0}
      /\ channel \in Seq(Chunks) /\ seen \in Seq(Chunks)
  BY <1>1, LenProperties, EmptySeq DEF Typed, SequencesTyped
<1>4. /\ Head(channel) = channel[1] /\ Head(channel) \in Chunks
      /\ Len(channel') = Len(channel) - 1
      /\ \A i \in 1..Len(channel') : channel'[i] = channel[i + 1]
  BY <1>1, <1>3, HeadTailProperties
<1>5. /\ Len(seen') = Len(seen) + 1
      /\ \A i \in 1..Len(seen) : seen'[i] = seen[i]
      /\ seen'[Len(seen) + 1] = channel[1]
  BY <1>1, <1>3, <1>4, AppendProperties
<1>6. ASSUME NEW i \in 1..Len(seen') PROVE seen'[i] = Decoded(i)
  <2>1. CASE i \in 1..Len(seen)
    BY <1>5, <2>1 DEF OutputInv, Passing
  <2>2. CASE i = Len(seen) + 1
    <3>1. 1 \in 1..Len(channel)
      BY <1>3
    <3> QED
      BY <1>5, <2>2, <3>1 DEF OutputInv, Passing
  <2> QED
    BY <1>3, <1>5, <2>1, <2>2
<1>7. ASSUME NEW i \in 1..Len(channel')
      PROVE  channel'[i] = Decoded(Len(seen') + i)
  <2>1. i + 1 \in 1..Len(channel) /\ Len(seen') + i = Len(seen) + (i + 1)
    BY <1>3, <1>4, <1>5
  <2> QED
    BY <1>4, <2>1 DEF OutputInv, Passing
<1>8. Len(cuts') = Len(seen') + Len(channel') + InHand'
  <2>1. InHand' = InHand /\ InHand \in {0, 1}
    BY <1>1 DEF InHand
  <2>2. Len(cuts) = Len(seen) + Len(channel) + InHand
    BY DEF OutputInv, Passing
  <2> QED
    BY <1>1, <1>3, <1>4, <1>5, <2>1, <2>2
<1>9. Passing'
  BY <1>1, <1>2, <1>6, <1>7, <1>8 DEF OutputInv, Passing
<1>10. Closing'
  BY <1>1 DEF OutputInv, Closing, TerminalOpen, outVars
<1> QED
  BY <1>2, <1>9, <1>10 DEF OutputInv

(* Nobody else moves output; who closes the terminal does not open it again.  *)
LEMMA OthersKeep ==
    ASSUME Typed, OutputInv, [Next]_vars,
           ~Read, ~Send, ~ReceiveOutput, ~ProgramWrites
    PROVE  OutputInv'
<1> USE DEF vars, outVars, readVars, programVars, screenVars
<1>1. /\ UNCHANGED <<cuts, output, written, channel, chunk, seen>>
      /\ reader' = reader \/ ReadEnds
      /\ TerminalOpen' => TerminalOpen
  <2>1. CASE ReadEnds
    BY <2>1 DEF ReadEnds, TerminalOpen
  <2>2. CASE Test \/ UNCHANGED vars
    BY <2>2 DEF Test, Start, Render, ReceiveEnd, FindFinished, GiveUp,
       ChooseToAct, Act, WriteInput, WriteFails, WaitForProgram, JoinReader,
       TerminalOpen
  <2>3. CASE Program \/ Tick
    BY <2>3 DEF Program, ProgramReads, ProgramWedges, ProgramDetaches,
       ProgramExits, ProgramForks, DescendantExits, Tick, TerminalOpen
  <2> QED
    BY <2>1, <2>2, <2>3 DEF Next, Reader
<1>2. Cutting' /\ \A i : Decoded(i)' = Decoded(i)
  BY <1>1, PiecesStay DEF OutputInv
<1>3. InHand' = InHand
  BY <1>1 DEF InHand, ReadEnds
<1>4. reader' = "sending" => reader = "sending"
  BY <1>1 DEF ReadEnds
<1>5. Passing'
  BY <1>1, <1>2, <1>3, <1>4 DEF OutputInv, Passing
<1>6. Closing'
  BY <1>1 DEF OutputInv, Closing, ReadEnds
<1> QED
  BY <1>2, <1>5, <1>6 DEF OutputInv

(* At first nothing was written. *)
LEMMA OutputInit == Init => OutputInv
<1> SUFFICES ASSUME Init PROVE OutputInv
  OBVIOUS
<1>1. Len(cuts) = 0 /\ Len(seen) = 0 /\ Len(channel) = 0 /\ Len(written) = 0
  BY DEF Init
<1>2. SubSeq(written, ReadSoFar + 1, Len(written)) = <<>>
  <2>1. ReadSoFar = 0
    BY <1>1 DEF ReadSoFar, CutBefore
  <2> QED
    BY <1>1, <2>1, SubSeqEmpty
<1>3. reader = "reading" /\ output = <<>>
  BY DEF Init
<1>4. Cutting /\ Closing
  <2>1. \A i \in 1..Len(cuts) : FALSE
    BY <1>1
  <2> QED
    BY <1>2, <1>3, <2>1 DEF Cutting, Closing
<1>5. InHand = 0
  BY <1>3 DEF InHand
<1>6. Passing
  BY <1>1, <1>3, <1>5 DEF Passing
<1> QED
  BY <1>4, <1>6 DEF OutputInv

(* Of what was written each byte is shown once, waits once or is still in the *)
(* kernel, in the order it was written.                                       *)
THEOREM OutputKept == Spec => [](Typed /\ OutputInv)
<1>1. Init => Typed /\ OutputInv
  BY TypedInit, OutputInit
<1>2. Typed /\ OutputInv /\ [Next]_vars => (Typed /\ OutputInv)'
  BY TypedNext, ReadKeeps, WriteKeeps, SendKeeps, ReceiveKeeps, OthersKeep
<1> QED
  BY <1>1, <1>2, PTL DEF Spec

(* What the emulated terminal shows is what the program wrote, in order, with *)
(* nothing left out or shown twice, and all of it once the reader is done and *)
(* the channel empty.                                                         *)
THEOREM WhatWasWrittenIsShown == Spec => []ShowsWhatWasWritten
<1>1. Typed /\ OutputInv => ShowsWhatWasWritten
  <2> SUFFICES ASSUME Typed, OutputInv PROVE ShowsWhatWasWritten
    OBVIOUS
  <2>1. /\ DOMAIN cuts = 1..Len(cuts) /\ Len(cuts) \in Nat
        /\ ReadSoFar \in 0..Len(written) /\ Len(written) \in Nat
    BY CutsTyped DEF OutputInv
  <2>2. /\ DOMAIN seen = 1..Len(seen) /\ Len(seen) \in Nat
        /\ Len(channel) \in Nat
    BY LenProperties DEF Typed, SequencesTyped
  <2>3. Len(cuts) = Len(seen) + Len(channel) + InHand /\ InHand \in {0, 1}
    BY DEF OutputInv, Passing, InHand
  <2>4. DOMAIN seen \subseteq DOMAIN cuts
    BY <2>1, <2>2, <2>3
  <2>5. /\ \A i \in DOMAIN cuts : CutBefore(i) < cuts[i]
        /\ \A i \in DOMAIN seen : seen[i] = Decoded(i)
    BY <2>1, <2>2 DEF OutputInv, Cutting, Passing
  <2>6. ASSUME reader = "done", channel = <<>>
        PROVE  DOMAIN seen = DOMAIN cuts /\ ReadSoFar = Len(written)
    <3>1. Len(cuts) = Len(seen)
      <4>1. InHand = 0 /\ Len(channel) = 0
        BY <2>6 DEF InHand
      <4> QED
        BY <2>1, <2>2, <2>3, <4>1
    <3>2. output = <<>> /\ output = SubSeq(written, ReadSoFar + 1, Len(written))
      BY <2>6 DEF OutputInv, Closing, Cutting
    <3>3. Len(output) = Len(written) - ReadSoFar
      BY <2>1, <3>2, RestLength DEF Typed, SequencesTyped
    <3>4. Len(output) = 0
      BY <3>2
    <3> QED
      BY <2>1, <2>2, <3>1, <3>3, <3>4
  <2> QED
    BY <2>4, <2>5, <2>6 DEF ShowsWhatWasWritten
<1> QED
  BY <1>1, OutputKept, PTL
=============================================================================
