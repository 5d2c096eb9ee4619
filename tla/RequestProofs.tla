--------------------------- MODULE RequestProofs ---------------------------
(***************************************************************************)
(* Every call of SignalNMI and SignalIRQ is answered as its caller expects *)
(* (CPURequests), for any program, any signals and clean resets.           *)
(*                                                                         *)
(* RequestInv ties the unanswered calls to nmi_pending and irq_pending,    *)
(* and the age of an NMI to the Steps spent since the last boundary, which *)
(* StepInProgress (RefinementProofs) bounds.                               *)
(***************************************************************************)
EXTENDS RefinementProofs, CPURequests

\* An opcode without a routine; a reset that has not started.
Stuck      == glabal_mode = "RUN" /\ instruction_cycle # 0 /\ ir \notin Opcodes
ResetStart == glabal_mode = "RESET" /\ interrupt_cycle = 0

Tracked ==
    /\ requests \subseteq {"NMI", "IRQ"}
    /\ "NMI" \in requests <=> nmi_pending
    /\ "IRQ" \in requests <=> irq_pending

\* An NMI that waits was requested after the step in progress began.
InTime ==
    /\ Boundary => age <= 6
    /\ ResetStart /\ (instruction_cycle = 0 \/ ir \in Opcodes) => age <= 6
    /\ ~Boundary /\ ~ResetStart /\ ~Stuck => age < spent

RequestInv ==
    /\ Tracked
    /\ age \in Nat
    /\ "NMI" \notin requests => age = 0
    /\ "NMI" \in requests => InTime

LEMMA SpentBound ==
    ASSUME RefinementInvariant, ~Stuck
    PROVE  /\ spent \in Nat /\ spent <= 6
           /\ ~Boundary /\ ~ResetStart => 0 < spent
<1>1. /\ TypeOK
      /\ glabal_mode = "RESET" => ResetInProgress(arch.m)
      /\ glabal_mode = "RUN" => RunInProgress(arch.m)
      /\ glabal_mode = "NMI" => HandlerInProgress(NMIVector, arch.m)
      /\ glabal_mode = "IRQ" => HandlerInProgress(IRQVector, arch.m)
  BY DEF RefinementInvariant, ResetInvariant, StepInProgress
<1>2. instruction_cycle \in 0 .. 6 /\ interrupt_cycle \in 0 .. 6
  BY <1>1 DEF TypeOK
<1>3. CASE Boundary
  BY <1>1, <1>3 DEF Boundary, RunInProgress, At
<1>4. CASE glabal_mode = "RUN" /\ instruction_cycle # 0
  <2>1. spent = instruction_cycle
    BY <1>1, <1>4 DEF RunInProgress, At, Stuck
  <2> QED
    BY <2>1, <1>2, <1>4
<1>5. CASE glabal_mode # "RUN"
  <2>1. /\ spent = interrupt_cycle
        /\ glabal_mode # "RESET" => interrupt_cycle >= 1
    BY <1>1, <1>5 DEF TypeOK, GlobalMode, ResetInProgress, HandlerInProgress
  <2> QED
    BY <2>1, <1>2, <1>5 DEF ResetStart
<1> QED
  BY <1>3, <1>4, <1>5 DEF Boundary

\* The calls that a Step leaves unanswered are the ones that stay pending; none of
\* them is an NMI that was waiting at a boundary or for a reset.
LEMMA StepTracks ==
    ASSUME Tracked, RStep
    PROVE  /\ Tracked'
           /\ "NMI" \in requests' => "NMI" \in requests /\ ~Boundary /\ ~ResetStart
<1>1. Step /\ requests' = requests \ Answered
  BY DEF RStep, HStep
<1>2. CASE ResetStart
  <2>1. ResetCycle0
    BY <1>1, <1>2 DEF Step, ResetStart, HandleReset, InvalidInterruptCycle
  <2>2. ~nmi_pending' /\ ~irq_pending'
    BY <2>1 DEF ResetCycle0
  <2>3. Answered = {"NMI", "IRQ"}
    BY <1>2 DEF ResetStart, Answered, Enters
  <2> QED
    BY <1>1, <2>2, <2>3 DEF Tracked
<1>3. CASE glabal_mode = "RUN" /\ EnterNMI
  <2>1. /\ glabal_mode' = "NMI" /\ ~nmi_pending' /\ irq_pending' = irq_pending
    BY <1>3 DEF EnterNMI, EnterInterrupt
  <2>2. Answered = {"NMI"}
    BY <1>3, <2>1 DEF Answered, Enters
  <2> QED
    BY <1>1, <2>1, <2>2 DEF Tracked
<1>4. CASE glabal_mode = "RUN" /\ EnterIRQ
  <2>1. /\ glabal_mode' = "IRQ" /\ ~irq_pending' /\ nmi_pending' = nmi_pending
        /\ ~nmi_pending
    BY <1>4 DEF EnterIRQ, EnterInterrupt
  <2>2. Answered = {"IRQ"}
    BY <1>4, <2>1 DEF Answered, Enters
  <2> QED
    BY <1>1, <2>1, <2>2 DEF Tracked
<1>5. CASE ~ResetStart /\ ~(glabal_mode = "RUN" /\ (EnterNMI \/ EnterIRQ))
  <2>1. CASE glabal_mode = "RUN"
    <3>1. FetchOpcode \/ (~At(0) /\ Execute)
      BY <1>1, <1>5, <2>1 DEF Step
    <3>2. /\ nmi_pending' = nmi_pending /\ irq_pending' = irq_pending
          /\ glabal_mode' = "RUN" /\ (Boundary => ~nmi_pending)
      BY <2>1, <3>1 DEF FetchOpcode, Execute, Boundary, At
    <3>3. Answered = {}
      BY <2>1, <3>2 DEF Answered, Enters
    <3> QED
      BY <1>1, <1>5, <3>2, <3>3 DEF Tracked
  <2>2. CASE glabal_mode # "RUN"
    <3>1. \/ glabal_mode = "RESET" /\ interrupt_cycle # 0 /\ HandleReset
          \/ HandleInterrupt(NMIVector) \/ HandleInterrupt(IRQVector)
      BY <1>1, <1>5, <2>2 DEF Step, ResetStart
    <3>2. nmi_pending' = nmi_pending /\ irq_pending' = irq_pending
      BY <3>1 DEF HandleReset, HandleInterrupt
    <3>3. Answered = {}
      BY <1>5, <2>2 DEF Answered, Enters, ResetStart
    <3> QED
      BY <1>1, <1>5, <2>2, <3>2, <3>3 DEF Tracked, Boundary
  <2> QED
    BY <2>1, <2>2
<1> QED
  BY <1>2, <1>3, <1>4, <1>5

LEMMA StepInTime ==
    ASSUME RefinementInvariant, RequestInv, RStep
    PROVE  RequestInv'
<1>1. /\ Tracked'
      /\ "NMI" \in requests' => "NMI" \in requests /\ ~Boundary /\ ~ResetStart
  BY StepTracks DEF RequestInv
<1>2. age \in Nat /\ MaxSpent = 8
      /\ age' = IF "NMI" \notin requests' THEN 0
                ELSE IF age < MaxSpent THEN age + 1 ELSE age
  BY DEF RequestInv, RStep, MaxSpent
<1>3. age' \in Nat /\ ("NMI" \notin requests' => age' = 0) /\ age' <= age + 1
  BY <1>2
<1>4. ASSUME "NMI" \in requests' PROVE InTime'
  <2>1. ~Boundary /\ ~ResetStart /\ InTime
    BY <1>1, <1>4 DEF RequestInv
  <2>2. CASE Stuck
    <3>1. glabal_mode = "RUN" /\ ~At(0) /\ Execute
      BY <2>2 DEF Stuck, RStep, HStep, Step, At, EnterNMI, EnterIRQ, FetchOpcode
    <3>2. UNCHANGED <<glabal_mode, instruction_cycle, ir>>
      BY <2>2, <3>1 DEF Stuck, Execute, ExecuteUndefined
    <3>3. Stuck' /\ ~Boundary' /\ ~ResetStart'
      BY <2>1, <2>2, <3>2 DEF Stuck, Boundary, ResetStart
    <3> QED
      BY <3>3 DEF InTime
  <2>3. CASE ~Stuck
    <3>1. spent \in Nat /\ spent <= 6 /\ age < spent
      BY <2>1, <2>3, SpentBound DEF InTime
    <3>2. ~Boundary' => spent' = spent + 1
      BY <3>1 DEF RStep, HStep, MaxSpent
    <3>3. age' <= 6 /\ (~Boundary' => age' < spent')
      BY <1>2, <1>3, <3>1, <3>2
    <3> QED
      BY <3>3 DEF InTime
  <2> QED
    BY <2>2, <2>3
<1> QED
  BY <1>1, <1>3, <1>4 DEF RequestInv

LEMMA ResetInTime ==
    ASSUME ResetsAreClean, RefinementInvariant, RequestInv, RReset
    PROVE  RequestInv'
<1>1. /\ requests' = requests /\ age' = age
      /\ UNCHANGED <<nmi_pending, irq_pending, instruction_cycle, interrupt_cycle, ir>>
      /\ glabal_mode \in {"RESET", "RUN"} /\ glabal_mode' = "RESET"
      /\ spent' = IF glabal_mode = "RESET" THEN spent ELSE 0
  BY DEF RReset, HReset, Reset, ResetsAreClean
<1>2. Tracked' /\ age' \in Nat /\ ("NMI" \notin requests' => age' = 0)
  BY <1>1 DEF RequestInv, Tracked
<1>3. ASSUME "NMI" \in requests' PROVE InTime'
  <2>1. InTime
    BY <1>1, <1>3 DEF RequestInv
  <2>2. CASE glabal_mode = "RESET"
    <3>1. spent' = spent
      BY <1>1, <2>2
    <3>2. Boundary' = Boundary /\ ResetStart' = ResetStart /\ Stuck' = Stuck
      BY <1>1, <2>2 DEF Boundary, ResetStart, Stuck
    <3> QED
      BY <1>1, <2>1, <3>1, <3>2 DEF InTime
  <2>3. CASE glabal_mode = "RUN"
    <3>1. interrupt_cycle = 0
      BY <2>3 DEF RefinementInvariant, ResetInvariant, CycleInvariant, CycleDiscipline
    <3>2. ResetStart' /\ ~Boundary'
      BY <1>1, <3>1 DEF ResetStart, Boundary
    <3>3. instruction_cycle = 0 \/ ir \in Opcodes => age <= 6
      <4>1. CASE Boundary
        BY <2>1, <4>1 DEF InTime
      <4>2. CASE ~Boundary /\ ~Stuck
        <5>1. spent \in Nat /\ spent <= 6 /\ age < spent /\ age \in Nat
          BY <2>1, <2>3, <4>2, SpentBound DEF InTime, ResetStart, RequestInv
        <5> QED
          BY <5>1
      <4> QED
        BY <2>3, <4>1, <4>2 DEF Boundary, Stuck
    <3> QED
      BY <1>1, <3>2, <3>3 DEF InTime
  <2> QED
    BY <1>1, <2>2, <2>3
<1> QED
  BY <1>2, <1>3 DEF RequestInv

LEMMA SignalInTime ==
    ASSUME RefinementInvariant, RequestInv,
           RSignalNMI \/ RSignalIRQ \/ UNCHANGED requestVars
    PROVE  RequestInv'
<1>1. /\ age' = age
      /\ UNCHANGED <<glabal_mode, instruction_cycle, interrupt_cycle, ir, spent>>
  BY DEF RSignalNMI, RSignalIRQ, HSignalNMI, HSignalIRQ, SignalNMI, SignalIRQ,
         requestVars, allVars, vars, history
<1>2. Tracked' /\ requests \subseteq requests'
  <2>1. Tracked
    BY DEF RequestInv
  <2>2. CASE RSignalNMI
    <3>1. /\ requests' = requests \cup {"NMI"}
          /\ nmi_pending' = TRUE /\ irq_pending' = irq_pending
      BY <2>2 DEF RSignalNMI, HSignalNMI, SignalNMI
    <3> QED
      BY <2>1, <3>1 DEF Tracked
  <2>3. CASE RSignalIRQ
    <3>1. /\ requests' = requests \cup {"IRQ"}
          /\ irq_pending' = TRUE /\ nmi_pending' = nmi_pending
      BY <2>3 DEF RSignalIRQ, HSignalIRQ, SignalIRQ
    <3> QED
      BY <2>1, <3>1 DEF Tracked
  <2>4. CASE UNCHANGED requestVars
    <3>1. UNCHANGED <<requests, nmi_pending, irq_pending>>
      BY <2>4 DEF requestVars, allVars, vars
    <3> QED
      BY <2>1, <3>1 DEF Tracked
  <2> QED
    BY <2>2, <2>3, <2>4
<1>3. Boundary' = Boundary /\ ResetStart' = ResetStart /\ Stuck' = Stuck
  BY <1>1 DEF Boundary, ResetStart, Stuck
<1>4. InTime
  <2>1. CASE "NMI" \in requests
    BY <2>1 DEF RequestInv
  <2>2. CASE "NMI" \notin requests
    <3>1. age = 0
      BY <2>2 DEF RequestInv
    <3>2. ~Boundary /\ ~ResetStart /\ ~Stuck => 0 < spent
      BY SpentBound
    <3> QED
      BY <3>1, <3>2 DEF InTime
  <2> QED
    BY <2>1, <2>2
<1>5. InTime'
  BY <1>1, <1>3, <1>4 DEF InTime
<1> QED
  BY <1>1, <1>2, <1>5 DEF RequestInv

LEMMA RequestsInductive ==
    ASSUME ResetsAreClean
    PROVE  RSpec => [](RefinementInvariant /\ RequestInv)
<1>1. RInit => RefinementInvariant /\ RequestInv
  <2> SUFFICES ASSUME RInit PROVE RefinementInvariant /\ RequestInv
    OBVIOUS
  <2>1. RefinementInvariant
    BY InitRefines DEF RInit
  <2>2. requests = {} /\ age = 0 /\ ~nmi_pending /\ ~irq_pending
    BY DEF RInit, HInit, Init
  <2> QED
    BY <2>1, <2>2 DEF RequestInv, Tracked
<1>2. ASSUME RefinementInvariant, RequestInv, [RNext]_requestVars
      PROVE  RefinementInvariant' /\ RequestInv'
  <2>1. [HNext]_allVars
    BY <1>2 DEF RNext, RStep, RReset, RSignalNMI, RSignalIRQ, HNext, requestVars
  <2>2. RefinementInvariant'
    BY <1>2, <2>1, NextRefines
  <2>3. RequestInv'
    BY <1>2, StepInTime, ResetInTime, SignalInTime DEF RNext
  <2> QED
    BY <2>2, <2>3
<1>3. RefinementInvariant /\ RequestInv /\ [RNext]_requestVars
        => RefinementInvariant' /\ RequestInv'
  BY <1>2
<1> QED
  BY <1>1, <1>3, PTL DEF RSpec

\* With every reset requested in RUN mode or during a reset, for any program and any
\* pattern of calls: by the seventh Step after SignalNMI the handler is entered or a
\* reset has cancelled the call, whatever IRQs were signalled before or after it,
\* unless the CPU executes an opcode that is not in the table.
THEOREM NMIWithinSevenHolds == ASSUME ResetsAreClean PROVE RSpec => []NMIWithinSeven
<1>1. RefinementInvariant /\ RequestInv => NMIWithinSeven
  <2> SUFFICES ASSUME RefinementInvariant, RequestInv,
                      instruction_cycle = 0 \/ ir \in Opcodes
               PROVE  age <= 6
    BY DEF NMIWithinSeven
  <2>1. ~Stuck
    BY DEF Stuck
  <2>2. CASE "NMI" \notin requests
    BY <2>2 DEF RequestInv
  <2>3. CASE "NMI" \in requests /\ (Boundary \/ ResetStart)
    BY <2>3 DEF RequestInv, InTime
  <2>4. CASE "NMI" \in requests /\ ~Boundary /\ ~ResetStart
    <3>1. spent \in Nat /\ spent <= 6 /\ age < spent /\ age \in Nat
      BY <2>1, <2>4, SpentBound DEF RequestInv, InTime
    <3> QED
      BY <3>1
  <2> QED
    BY <2>2, <2>3, <2>4
<1> QED
  BY <1>1, RequestsInductive, PTL

\* Under the same assumption no call of SignalNMI or SignalIRQ is lost, answered twice,
\* answered out of order or within an instruction, or kept over a reset: Step
\* decides by the calls, as CPURequests counts them, what it decides by
\* nmi_pending, irq_pending and the I flag.
THEOREM RequestsAnsweredHolds == ASSUME ResetsAreClean PROVE RSpec => RequestsAnswered
<1> DEFINE Chosen ==
      IF Boundary /\ "NMI" \in requests THEN "NMI"
      ELSE IF Boundary /\ "IRQ" \in requests /\ interrupt_disable \notin status
      THEN "IRQ" ELSE "RUN"
<1>1. RefinementInvariant /\ RequestInv => (glabal_mode = "RUN" /\ RStep => glabal_mode' = Chosen)
  <2> SUFFICES ASSUME RequestInv, glabal_mode = "RUN", RStep PROVE glabal_mode' = Chosen
    OBVIOUS
  <2>1. Tracked /\ (EnterNMI \/ EnterIRQ \/ FetchOpcode \/ (~At(0) /\ Execute))
    BY DEF RequestInv, RStep, HStep, Step
  <2>2. Boundary <=> At(0)
    BY DEF Boundary, At
  <2> QED
    BY <2>1, <2>2 DEF Tracked, EnterNMI, EnterIRQ, EnterInterrupt, FetchOpcode, Execute
<1> QED
  BY <1>1, RequestsInductive, PTL DEF RequestsAnswered
=============================================================================
