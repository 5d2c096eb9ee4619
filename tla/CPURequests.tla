---------------------------- MODULE CPURequests ----------------------------
(***************************************************************************)
(* CPUHistory with the calls of SignalNMI and SignalIRQ that still wait    *)
(* for an answer, as the owner of the CPU counts them: a call is answered  *)
(* when Step enters the handler, or cancelled when a reset starts.  The    *)
(* members nmi_pending and irq_pending are what the code keeps of it.      *)
(***************************************************************************)
EXTENDS CPUHistory

VARIABLES
    requests,   \* the interrupts signalled and not yet answered
    age         \* Steps since the first unanswered NMI, up to MaxSpent

requestVars == <<allVars, requests, age>>

RInit == HInit /\ requests = {} /\ age = 0

Enters(mode) == glabal_mode = "RUN" /\ glabal_mode' = mode

\* Entering a handler answers its interrupt, two calls at once if there were two;
\* cycle 0 of HandleReset cancels both.
Answered ==
    CASE Enters("NMI") -> {"NMI"}
      [] Enters("IRQ") -> {"IRQ"}
      [] glabal_mode = "RESET" /\ interrupt_cycle = 0 -> {"NMI", "IRQ"}
      [] OTHER -> {}

RStep ==
    /\ HStep
    /\ requests' = requests \ Answered
    /\ age' = IF "NMI" \notin requests' THEN 0
              ELSE IF age < MaxSpent THEN age + 1 ELSE age

RReset == HReset /\ UNCHANGED <<requests, age>>

RSignalNMI == HSignalNMI /\ requests' = requests \cup {"NMI"} /\ UNCHANGED age

RSignalIRQ == HSignalIRQ /\ requests' = requests \cup {"IRQ"} /\ UNCHANGED age

RNext == RStep \/ RReset \/ RSignalNMI \/ RSignalIRQ

RSpec == RInit /\ [][RNext]_requestVars

-----------------------------------------------------------------------------
(* Properties.                                                             *)

\* An NMI waits for the rest of the instruction, interrupt sequence or reset in
\* progress and for nothing else: by the seventh Step after SignalNMI its handler
\* is entered, ahead of any IRQ, or a reset has cancelled it (qnes_cpu.cpp:32, "NMI
\* has priority and cannot be disabled").  Only an opcode that is not in the table
\* holds it back.
NMIWithinSeven == instruction_cycle = 0 \/ ir \in Opcodes => age <= 6

\* Every Step in RUN mode does with the calls made so far what their caller expects:
\* at a boundary it serves an unanswered NMI, else an unanswered and unmasked IRQ;
\* otherwise, and between boundaries, it enters no handler.  So no call is lost,
\* answered twice, or left over from before a reset.
RequestsAnswered ==
    [][glabal_mode = "RUN" /\ RStep =>
         glabal_mode' =
           IF Boundary /\ "NMI" \in requests THEN "NMI"
           ELSE IF Boundary /\ "IRQ" \in requests /\ interrupt_disable \notin status
           THEN "IRQ" ELSE "RUN"]_requestVars
=============================================================================
