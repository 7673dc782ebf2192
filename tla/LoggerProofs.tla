----------------------------- MODULE LoggerProofs -----------------------------
(***************************************************************************)
(* Theorems about Logger, for any number of printing threads, any buffer   *)
(* size and any number of lines: no line is doubled, none is lost between  *)
(* print and the file unless the shutdown drops a flush, and no buffer is   *)
(* forgotten while the logger lives.                                        *)
(***************************************************************************)
EXTENDS Logger, TLAPS

(* The lines a sequence holds. *)
Holds(s, l) == \E k \in 1 .. Len(s) : s[k] = l

(* A line is in the file, in one of the buffers or among those freed, and  *)
(* together these are no longer than the lines printed are many.           *)
LinesKept ==
  /\ Len(file) + Len(flushBuffer) + Len(writeOutBuffer) + Len(lost) = printed
  /\ \A l \in 1 .. printed :
       Holds(file, l) \/ Holds(flushBuffer, l) \/ Holds(writeOutBuffer, l) \/ Holds(lost, l)

(* What each phase of the shutdown has reached: once the jobs are dropped  *)
(* nobody flushes, and nothing is freed before deinit.                     *)
PhaseInv ==
  /\ phase \in {"jobless", "closed"} => flushJob = "none" /\ \A t \in Printers : pc[t] = "idle"
  /\ phase = "closed" => flushBuffer = <<>> /\ writeOutBuffer = <<>>
  /\ phase # "closed" => lost = <<>>
  /\ dropped => phase \in {"jobless", "closed"}
  /\ lost # <<>> => dropped

IInv == TypeOK /\ LinesKept /\ PendingHasItsJob /\ PhaseInv

-----------------------------------------------------------------------------
(* What sequences of lines hold. *)

LEMMA ConcatHolds ==
  ASSUME NEW s \in Seq(Lines), NEW t \in Seq(Lines)
  PROVE  /\ s \o t \in Seq(Lines) /\ Len(s \o t) = Len(s) + Len(t)
         /\ \A l : Holds(s \o t, l) <=> Holds(s, l) \/ Holds(t, l)
<1>1. /\ s \o t \in Seq(Lines) /\ Len(s \o t) = Len(s) + Len(t)
      /\ Len(s) \in Nat /\ Len(t) \in Nat
      /\ \A k \in 1 .. Len(s) + Len(t) :
           (s \o t)[k] = IF k <= Len(s) THEN s[k] ELSE t[k - Len(s)]
  OBVIOUS
<1>2. ASSUME NEW l
      PROVE  Holds(s \o t, l) <=> Holds(s, l) \/ Holds(t, l)
  <2>1. ASSUME NEW k \in 1 .. Len(s), s[k] = l
        PROVE  Holds(s \o t, l)
    <3>1. k \in 1 .. Len(s \o t) /\ (s \o t)[k] = l
      BY <1>1, <2>1
    <3> QED BY <3>1 DEF Holds
  <2>2. ASSUME NEW k \in 1 .. Len(t), t[k] = l
        PROVE  Holds(s \o t, l)
    <3>1. k + Len(s) \in 1 .. Len(s \o t) /\ ~(k + Len(s) <= Len(s)) /\ (k + Len(s)) - Len(s) = k
      BY <1>1
    <3>2. (s \o t)[k + Len(s)] = l
      BY <1>1, <2>2, <3>1
    <3> QED BY <3>1, <3>2 DEF Holds
  <2>3. ASSUME NEW k \in 1 .. Len(s \o t), (s \o t)[k] = l
        PROVE  Holds(s, l) \/ Holds(t, l)
    <3>1. CASE k <= Len(s)
      <4>1. k \in 1 .. Len(s) /\ s[k] = l
        BY <1>1, <2>3, <3>1
      <4> QED BY <4>1 DEF Holds
    <3>2. CASE ~(k <= Len(s))
      <4>1. k - Len(s) \in 1 .. Len(t) /\ t[k - Len(s)] = l
        BY <1>1, <2>3, <3>2
      <4> QED BY <4>1 DEF Holds
    <3> QED BY <3>1, <3>2
  <2> QED BY <2>1, <2>2, <2>3 DEF Holds
<1> QED BY <1>1, <1>2

LEMMA AppendHolds ==
  ASSUME NEW s \in Seq(Lines), NEW n \in Lines
  PROVE  /\ Append(s, n) \in Seq(Lines) /\ Len(Append(s, n)) = Len(s) + 1
         /\ Holds(Append(s, n), n)
         /\ \A l : Holds(s, l) => Holds(Append(s, n), l)
<1>1. /\ Append(s, n) \in Seq(Lines) /\ Len(Append(s, n)) = Len(s) + 1 /\ Len(s) \in Nat
      /\ Append(s, n)[Len(s) + 1] = n
      /\ \A k \in 1 .. Len(s) : Append(s, n)[k] = s[k]
  OBVIOUS
<1>2. Holds(Append(s, n), n)
  <2>1. Len(s) + 1 \in 1 .. Len(Append(s, n))
    BY <1>1
  <2> QED BY <1>1, <2>1 DEF Holds
<1>3. ASSUME NEW l, NEW k \in 1 .. Len(s), s[k] = l
      PROVE  Holds(Append(s, n), l)
  <2>1. k \in 1 .. Len(Append(s, n)) /\ Append(s, n)[k] = l
    BY <1>1, <1>3
  <2> QED BY <2>1 DEF Holds
<1> QED BY <1>1, <1>2, <1>3 DEF Holds

LEMMA EmptyHolds == <<>> \in Seq(Lines) /\ Len(<<>>) = 0 /\ \A l : ~Holds(<<>>, l)
BY DEF Holds

LEMMA Lengths ==
  ASSUME TypeOK
  PROVE  /\ Len(file) \in Nat /\ Len(flushBuffer) \in Nat
         /\ Len(writeOutBuffer) \in Nat /\ Len(lost) \in Nat
BY DEF TypeOK

-----------------------------------------------------------------------------

LEMMA InitHolds == Init => IInv
<1> SUFFICES ASSUME Init PROVE IInv
  OBVIOUS
<1>1. TypeOK
  <2>1. printed \in 0 .. MaxLines
    BY SizeAssumption DEF Init
  <2>2. /\ writeOutBuffer \in Seq(Lines) /\ flushBuffer \in Seq(Lines)
        /\ file \in Seq(Lines) /\ lost \in Seq(Lines)
    BY EmptyHolds DEF Init
  <2> QED BY <2>1, <2>2 DEF Init, TypeOK
<1>2. LinesKept
  BY DEF Init, LinesKept
<1>3. PendingHasItsJob /\ PhaseInv
  BY DEF Init, PendingHasItsJob, PhaseInv
<1> QED BY <1>1, <1>2, <1>3 DEF IInv

(* A printer that moves on is in its print, or out of it. *)
LEMMA GotoTyped ==
  ASSUME TypeOK, NEW t \in Printers, NEW from, NEW to \in {"idle", "printed", "overflow", "flush", "write"},
         Goto(t, from, to)
  PROVE  pc' \in [Printers -> {"idle", "printed", "overflow", "flush", "write"}]
BY DEF TypeOK, Goto

(* A printer takes a step only while there are jobs. *)
LEMMA GotoEarly ==
  ASSUME IInv, NEW t \in Printers, NEW from, from # "idle", NEW to, Goto(t, from, to)
  PROVE  phase \notin {"jobless", "closed"}
BY DEF IInv, PhaseInv, Goto

(* The sections under the lock move lines; they neither make nor lose one. *)
LEMMA FlushKeeps ==
  ASSUME IInv, Flush, UNCHANGED ends, phase \notin {"jobless", "closed"},
         pc' \in [Printers -> {"idle", "printed", "overflow", "flush", "write"}]
  PROVE  IInv'
<1> USE DEF IInv, ends
<1>1. CASE UNCHANGED <<buffers, flushing, flushJob, locked>>
  BY <1>1 DEF buffers, TypeOK, LinesKept, PendingHasItsJob, PhaseInv, Holds
<1>2. CASE ~UNCHANGED <<buffers, flushing, flushJob, locked>>
  <2>1. /\ flushing' = TRUE
        /\ writeOutBuffer' = flushBuffer /\ flushBuffer' = writeOutBuffer
        /\ \/ flushJob' = "queued" /\ UNCHANGED locked
           \/ locked' = TRUE /\ UNCHANGED flushJob
        /\ UNCHANGED <<file, printed>>
    BY <1>2 DEF Flush
  <2>2. TypeOK'
    BY <2>1 DEF TypeOK
  <2>3. LinesKept'
    <3>1. Len(file') + Len(flushBuffer') + Len(writeOutBuffer') + Len(lost') = printed'
      BY <2>1, Lengths DEF LinesKept
    <3> QED BY <2>1, <3>1 DEF LinesKept, Holds
  <2>4. PendingHasItsJob' /\ PhaseInv'
    BY <2>1 DEF PendingHasItsJob, PhaseInv
  <2> QED BY <2>2, <2>3, <2>4
<1> QED BY <1>1, <1>2

(* Writing the first buffer moves its lines behind those of the file; what *)
(* else the step does with the second one, it does not count twice.        *)
LEMMA WriteKeeps ==
  ASSUME IInv, FlushWriteBuffer, UNCHANGED dropped,
         \/ UNCHANGED <<flushBuffer, phase, lost>> /\ phase \notin {"jobless", "closed"}
         \/ /\ phase = "jobless" /\ phase' = "closed" /\ UNCHANGED pc
            /\ flushBuffer' = <<>> /\ lost' = flushBuffer,
         pc' \in [Printers -> {"idle", "printed", "overflow", "flush", "write"}]
  PROVE  IInv'
<1> USE DEF IInv
<1>1. /\ ~locked /\ file' = file \o writeOutBuffer /\ writeOutBuffer' = <<>>
      /\ UNCHANGED <<printed, flushing, flushJob, locked>>
  BY DEF FlushWriteBuffer
<1>2. /\ file' \in Seq(Lines) /\ Len(file') = Len(file) + Len(writeOutBuffer)
      /\ \A l : Holds(file', l) <=> Holds(file, l) \/ Holds(writeOutBuffer, l)
  BY <1>1, ConcatHolds DEF TypeOK
<1>3. TypeOK'
  BY <1>1, <1>2, EmptyHolds DEF TypeOK
<1>4. /\ Len(flushBuffer') + Len(lost') = Len(flushBuffer) + Len(lost)
      /\ \A l : Holds(flushBuffer', l) \/ Holds(lost', l) <=> Holds(flushBuffer, l) \/ Holds(lost, l)
  <2>1. CASE UNCHANGED <<flushBuffer, lost>>
    BY <2>1
  <2>2. CASE flushBuffer' = <<>> /\ lost' = flushBuffer /\ lost = <<>>
    BY <2>2, EmptyHolds, Lengths
  <2> QED BY <2>1, <2>2 DEF PhaseInv
<1>5. LinesKept'
  <2>1. Len(writeOutBuffer') = 0
    BY <1>1
  <2>2. Len(file') + Len(flushBuffer') + Len(writeOutBuffer') + Len(lost') = printed'
    <3>1. Len(flushBuffer') \in Nat /\ Len(lost') \in Nat
      BY <1>3 DEF TypeOK
    <3>2. Len(file') \in Nat /\ Len(file) + Len(flushBuffer) + Len(writeOutBuffer) + Len(lost) = printed
      BY <1>3 DEF TypeOK, LinesKept
    <3>3. \A f, w, b, l, f1, b1, l1 \in Nat :
            f1 = f + w /\ b1 + l1 = b + l => f1 + b1 + 0 + l1 = f + b + w + l
      OBVIOUS
    <3>4. Len(file') + Len(flushBuffer') + 0 + Len(lost')
            = Len(file) + Len(flushBuffer) + Len(writeOutBuffer) + Len(lost)
      BY <1>2, <1>4, <3>1, <3>2, <3>3, Lengths
    <3> QED BY <1>1, <2>1, <3>2, <3>4
  <2>3. \A l \in 1 .. printed' :
          \/ Holds(file', l) \/ Holds(flushBuffer', l) \/ Holds(writeOutBuffer', l) \/ Holds(lost', l)
    BY <1>1, <1>2, <1>4 DEF LinesKept
  <2> QED BY <2>2, <2>3 DEF LinesKept, Holds
<1>6. PendingHasItsJob'
  BY <1>1 DEF PendingHasItsJob
<1>7. PhaseInv'
  BY <1>1 DEF PhaseInv, PendingHasItsJob
<1> QED BY <1>3, <1>5, <1>6, <1>7

LEMMA JobKeeps ==
  ASSUME IInv, JobStep
  PROVE  IInv'
<1> USE DEF IInv, ends
<1>1. CASE FlushFromJob
  <2>1. /\ flushJob = "queued" /\ flushJob' = "written"
        /\ file' = file \o flushBuffer /\ flushBuffer' = <<>>
        /\ UNCHANGED <<writeOutBuffer, printed, flushing, locked, pc, phase, dropped, lost>>
    BY <1>1 DEF FlushFromJob
  <2>2. /\ file' \in Seq(Lines) /\ Len(file') = Len(file) + Len(flushBuffer)
        /\ \A l : Holds(file', l) <=> Holds(file, l) \/ Holds(flushBuffer, l)
    BY <2>1, ConcatHolds DEF TypeOK
  <2>3. TypeOK'
    BY <2>1, <2>2, EmptyHolds DEF TypeOK
  <2>4. LinesKept'
    <3>1. Len(flushBuffer') = 0
      BY <2>1
    <3>2. Len(file') + Len(flushBuffer') + Len(writeOutBuffer') + Len(lost') = printed'
      BY <2>1, <2>2, <3>1, Lengths DEF LinesKept
    <3>3. \A l \in 1 .. printed' :
            \/ Holds(file', l) \/ Holds(flushBuffer', l) \/ Holds(writeOutBuffer', l) \/ Holds(lost', l)
      BY <2>1, <2>2 DEF LinesKept
    <3> QED BY <3>2, <3>3 DEF LinesKept, Holds
  <2>5. PendingHasItsJob' /\ PhaseInv'
    BY <2>1 DEF PendingHasItsJob, PhaseInv
  <2> QED BY <2>3, <2>4, <2>5
<1>2. CASE FlushJobEnds
  BY <1>2 DEF FlushJobEnds, buffers, TypeOK, LinesKept, PendingHasItsJob, PhaseInv, Holds
<1> QED BY <1>1, <1>2 DEF JobStep

LEMMA AppendKeeps ==
  ASSUME IInv, NEW t \in Printers, PrintAppends(t)
  PROVE  IInv'
<1> USE DEF IInv, ends
<1>1. /\ printed < MaxLines /\ Goto(t, "idle", "printed")
      /\ printed' = printed + 1
      /\ writeOutBuffer' = Append(writeOutBuffer, printed + 1)
      /\ phase = "running"
      /\ UNCHANGED <<flushBuffer, file, flushing, flushJob, locked, phase, dropped, lost>>
  BY DEF PrintAppends
<1>2. printed + 1 \in Lines /\ printed \in Nat /\ printed + 1 \in 0 .. MaxLines
  BY <1>1, SizeAssumption DEF TypeOK, Lines
<1>3. /\ writeOutBuffer' \in Seq(Lines) /\ Len(writeOutBuffer') = Len(writeOutBuffer) + 1
      /\ Holds(writeOutBuffer', printed + 1)
      /\ \A l : Holds(writeOutBuffer, l) => Holds(writeOutBuffer', l)
  BY <1>1, <1>2, AppendHolds DEF TypeOK
<1>4. pc' \in [Printers -> {"idle", "printed", "overflow", "flush", "write"}]
  BY <1>1, GotoTyped
<1>5. TypeOK'
  BY <1>1, <1>2, <1>3, <1>4 DEF TypeOK
<1>6. LinesKept'
  <2>1. Len(file) + Len(flushBuffer) + Len(writeOutBuffer') + Len(lost) = printed + 1
    BY <1>2, <1>3, Lengths DEF LinesKept
  <2>2. \A l \in 1 .. printed + 1 : l \in 1 .. printed \/ l = printed + 1
    BY <1>2
  <2>3. \A l \in 1 .. printed + 1 :
          Holds(file, l) \/ Holds(flushBuffer, l) \/ Holds(writeOutBuffer', l) \/ Holds(lost, l)
    BY <1>3, <2>2 DEF LinesKept
  <2>4. \A l : /\ Holds(file', l) <=> Holds(file, l)
               /\ Holds(flushBuffer', l) <=> Holds(flushBuffer, l)
               /\ Holds(lost', l) <=> Holds(lost, l)
    BY <1>1
  <2> QED BY <1>1, <2>1, <2>3, <2>4 DEF LinesKept, Holds
<1>7. PendingHasItsJob' /\ PhaseInv'
  BY <1>1 DEF PendingHasItsJob, PhaseInv
<1> QED BY <1>5, <1>6, <1>7

LEMMA Inductive == IInv /\ [Next]_vars => IInv'
<1> SUFFICES ASSUME IInv, [Next]_vars
             PROVE  IInv'
  OBVIOUS
<1>1. ASSUME UNCHANGED buffers, UNCHANGED <<flushing, locked, lost>>,
             pc' \in [Printers -> {"idle", "printed", "overflow", "flush", "write"}],
             \/ /\ UNCHANGED <<flushJob, phase, dropped>>
                /\ UNCHANGED pc \/ phase \notin {"jobless", "closed"}
             \/ /\ UNCHANGED <<flushJob, dropped>>
                /\ phase = "running" /\ phase' = "unplugged"
             \/ /\ flushJob' = "none" /\ phase = "unplugged" /\ phase' = "jobless"
                /\ dropped' = (flushJob = "queued")
                /\ UNCHANGED pc /\ \A t \in Printers : pc[t] = "idle"
      PROVE  IInv'
  <2>1. TypeOK' /\ LinesKept'
    BY <1>1 DEF IInv, buffers, TypeOK, LinesKept, Holds
  <2>2. PhaseInv'
    BY <1>1 DEF IInv, TypeOK, buffers, PhaseInv
  <2>3. PendingHasItsJob'
    <3>1. CASE UNCHANGED <<flushJob, dropped>>
      BY <1>1, <3>1 DEF IInv, buffers, PendingHasItsJob
    <3>2. CASE phase = "unplugged" /\ dropped' = (flushJob = "queued")
      <4>1. dropped = FALSE
        BY <3>2 DEF IInv, PhaseInv, TypeOK
      <4> QED BY <1>1, <3>2, <4>1 DEF IInv, TypeOK, buffers, PendingHasItsJob
    <3> QED BY <1>1, <3>1, <3>2
  <2> QED BY <2>1, <2>2, <2>3 DEF IInv
<1>2. TypeOK
  BY DEF IInv
<1>3. ASSUME NEW t \in Printers, LookAtWriteOut(t) \/ LookAtFlush(t)
      PROVE  IInv'
  <2>1. PICK from, to \in {"idle", "printed", "overflow", "flush", "write"} :
          from # "idle" /\ Goto(t, from, to)
    BY <1>3 DEF LookAtWriteOut, LookAtFlush
  <2>2. UNCHANGED <<buffers, flushing, flushJob, locked, phase, dropped, lost>>
    BY <1>3 DEF LookAtWriteOut, LookAtFlush, ends
  <2>3. phase \notin {"jobless", "closed"}
    BY <2>1, GotoEarly
  <2>4. pc' \in [Printers -> {"idle", "printed", "overflow", "flush", "write"}]
    BY <1>2, <2>1, GotoTyped
  <2> QED BY <1>1, <2>2, <2>3, <2>4
<1>4. ASSUME NEW t \in Printers, Overflow(t)
      PROVE  IInv'
  <2>1. CASE Goto(t, "flush", "idle") /\ Flush /\ UNCHANGED ends
    BY <1>2, <2>1, GotoTyped, GotoEarly, FlushKeeps
  <2>2. CASE Goto(t, "write", "idle") /\ FlushWriteBuffer /\ UNCHANGED <<flushBuffer, ends>>
    <3>1. pc' \in [Printers -> {"idle", "printed", "overflow", "flush", "write"}]
      BY <1>2, <2>2, GotoTyped
    <3>2. phase \notin {"jobless", "closed"}
      BY <2>2, GotoEarly
    <3> QED BY <2>2, <3>1, <3>2, WriteKeeps DEF ends
  <2> QED BY <1>4, <2>1, <2>2 DEF Overflow
<1>5. CASE ProcessEvents
  <2>1. /\ Goto(SystemsThread, "idle", "flush") /\ phase = "running"
        /\ UNCHANGED <<buffers, flushing, flushJob, locked, phase, dropped, lost>>
    BY <1>5 DEF ProcessEvents, ends
  <2>2. pc' \in [Printers -> {"idle", "printed", "overflow", "flush", "write"}]
    BY <1>2, <2>1, GotoTyped, ThreadAssumption
  <2> QED BY <1>1, <2>1, <2>2
<1>6. CASE ShutdownLogging
  BY <1>1, <1>2, <1>6 DEF ShutdownLogging, TypeOK
<1>7. CASE JobsDestroyed
  BY <1>1, <1>2, <1>7 DEF JobsDestroyed, TypeOK
<1>8. CASE Deinit
  BY <1>2, <1>8, WriteKeeps DEF Deinit, TypeOK
<1>9. CASE UNCHANGED vars
  BY <1>1, <1>2, <1>9 DEF vars, ends, TypeOK
<1> QED BY <1>3, <1>4, <1>5, <1>6, <1>7, <1>8, <1>9, AppendKeeps, JobKeeps DEF Next, PrinterStep

THEOREM Invariance == Spec => []IInv
BY InitHolds, Inductive, PTL DEF Spec

(* The logger's fields keep their types. *)
THEOREM TypeCorrect == Spec => []TypeOK
<1>1. IInv => TypeOK
  BY DEF IInv
<1> QED BY <1>1, Invariance, PTL

(* Flushes, overflows, a failed dispatch, a dropped job and shutdown may   *)
(* follow each other in any order: from print on, each line is in exactly  *)
(* one of the file, the two buffers and what deinit freed unwritten, and   *)
(* something is freed unwritten only when a queued flush was dropped.      *)
THEOREM EachLineIsSomewhere == Spec => []EachLineOnce
<1>1. ASSUME IInv
      PROVE  EachLineOnce
  <2> DEFINE fb == file \o flushBuffer
             fbw == fb \o writeOutBuffer
             everywhere == fbw \o lost
  <2>1. /\ fb \in Seq(Lines) /\ Len(fb) = Len(file) + Len(flushBuffer)
        /\ \A l : Holds(fb, l) <=> Holds(file, l) \/ Holds(flushBuffer, l)
    BY <1>1, ConcatHolds DEF IInv, TypeOK
  <2> HIDE DEF fb
  <2>2. /\ fbw \in Seq(Lines) /\ Len(fbw) = Len(fb) + Len(writeOutBuffer)
        /\ \A l : Holds(fbw, l) <=> Holds(fb, l) \/ Holds(writeOutBuffer, l)
    BY <1>1, <2>1, ConcatHolds DEF IInv, TypeOK
  <2> HIDE DEF fbw
  <2>3. /\ Len(everywhere) = Len(fbw) + Len(lost)
        /\ \A l : Holds(everywhere, l) <=> Holds(fbw, l) \/ Holds(lost, l)
    BY <1>1, <2>2, ConcatHolds DEF IInv, TypeOK
  <2> HIDE DEF everywhere
  <2>4. Len(everywhere) = printed /\ \A l \in 1 .. printed : Holds(everywhere, l)
    BY <1>1, <2>1, <2>2, <2>3 DEF IInv, LinesKept
  <2>5. /\ lost # <<>> => dropped
        /\ phase = "closed" /\ ~dropped => Len(file) = printed
    <3>1. lost # <<>> => dropped
      BY <1>1 DEF IInv, PhaseInv
    <3>2. ASSUME phase = "closed", ~dropped
          PROVE  Len(file) = printed
      <4>1. Len(flushBuffer) = 0 /\ Len(writeOutBuffer) = 0 /\ Len(lost) = 0
        BY <1>1, <3>1, <3>2 DEF IInv, PhaseInv
      <4> QED BY <1>1, <4>1, Lengths DEF IInv, LinesKept
    <3> QED BY <3>1, <3>2
  <2> QED BY <2>4, <2>5 DEF EachLineOnce, Holds, everywhere, fbw, fb
<1> QED BY <1>1, Invariance, PTL

(* The swapped-out buffer is never left behind: its job is queued, unless  *)
(* the dispatch failed with the lock held or shutdown dropped the job.     *)
THEOREM BufferNotForgotten == Spec => []PendingHasItsJob
<1>1. IInv => PendingHasItsJob
  BY DEF IInv
<1> QED BY <1>1, Invariance, PTL

=============================================================================
