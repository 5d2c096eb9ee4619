--------------------------- MODULE MCInterrupts ----------------------------
(***************************************************************************)
(* Two programs and their handlers, with NMIs, IRQs and resets at every    *)
(* cycle (none of the repository's tests calls SignalNMI or SignalIRQ).    *)
(***************************************************************************)
EXTENDS CPUProgress, SequencesExt

At0(base, bytes) ==
    [a \in {base + k - 1 : k \in 1 .. Len(bytes)} |-> bytes[1 + (a - base)]]

\* NMI at 0x0340, IRQ and BRK at 0x0350, reset at 0x0400.
Vectors == At0(65530, <<64, 3, 0, 4, 80, 3>>)

\* The NMI handler counts in cell 0x12, the IRQ handler uses A and the flags.
NMIHandler == At0(832, <<230, 18, 64>>)                 \* INC $12  RTI
IRQHandler == At0(848, <<72, 56, 169, 0, 104, 64>>)     \* PHA SEC LDA #0 PLA RTI

\* I is clear: an indexed load that crosses a page, a branch that does, a
\* subroutine call.  TXS leaves sp = 1, so every nested frame wraps the stack.
Calls ==
    At0(1024, <<162, 1, 154, 88,          \* LDX #1  TXS  CLI
                189, 255, 2,              \* LDA $02FF,X
                32, 244, 4,               \* JSR $04F4
                76, 4, 4>>)               \* JMP $0404
      @@ At0(1268, <<240, 12, 96>>)       \* BEQ +12  RTS
      @@ At0(1282, <<96>>)                \* RTS
      @@ At0(768, <<0>>)

\* I is set around a BRK and clear for one instruction.
Breaks ==
    At0(1024, <<120, 0, 255,              \* SEI  BRK (with its padding byte)
                88,                       \* CLI
                8, 40,                    \* PHP  PLP
                76, 0, 4>>)               \* JMP $0400

MCImages == {p @@ NMIHandler @@ IRQHandler @@ Vectors : p \in {Calls, Breaks}}

RunAndReset == {"RESET", "RUN"}
=============================================================================
