---------------------------- MODULE PowerOnPair ----------------------------
(***************************************************************************)
(* Two PPUs that were switched on with different contents of the members   *)
(* without an initialiser (registers, internal_registers, palette_ram) and *)
(* then clocked, read and written by the same program, in step.            *)
(*                                                                         *)
(* The program may make every access of the bus at any time, under three   *)
(* rules: its first write to PPUMASK does not turn rendering on, no other  *)
(* write to PPUSCROLL or PPUADDR comes between the halves of a pair, and a *)
(* pair left open is finished or dropped by a read of PPUSTATUS.           *)
(***************************************************************************)
EXTENDS Naturals

CONSTANTS
    NDEBUG, VRAMSize, Garbage,
    PowerOnA, PowerOnB,     \* what the two PPUs may hold at power-on
    Values, Masks,          \* what the program writes, to PPUMASK the latter
    MaxData                 \* bound: accesses to PPUDATA

VARIABLES
    registersA, internalA, toggleA, bufferA, paletteA, vramA, dataA, faultA,
    registersB, internalB, toggleB, bufferB, paletteB, vramB, dataB, faultB,
    open,      \* the register of the first half of an open pair, 0 for none
    done,      \* what the program has initialised
    moves      \* the accesses to PPUDATA

program == <<open, done, moves>>

pairVars == <<registersA, internalA, toggleA, bufferA, paletteA, vramA, dataA, faultA,
              registersB, internalB, toggleB, bufferB, paletteB, vramB, dataB, faultB,
              open, done, moves>>

A == INSTANCE PPU WITH
        PowerOn <- PowerOnA,
        registers <- registersA, internal_registers <- internalA, toggle <- toggleA,
        ppu_data_buffer <- bufferA, palette_ram <- paletteA, vram <- vramA,
        data <- dataA, ppu_fault <- faultA

B == INSTANCE PPU WITH
        PowerOn <- PowerOnB,
        registers <- registersB, internal_registers <- internalB, toggle <- toggleB,
        ppu_data_buffer <- bufferB, palette_ram <- paletteB, vram <- vramB,
        data <- dataB, ppu_fault <- faultB

\* The members that the declarations leave open have their types, and the
\* program writes bytes.
ASSUME PairAssumption ==
    /\ Values \subseteq A!Byte /\ Masks \subseteq A!Byte
    /\ MaxData \in Nat
    /\ \A p \in PowerOnA \cup PowerOnB :
          /\ p.registers \in A!Registers
          /\ p.internal_registers \in A!InternalRegisters

Init == A!PPUInit /\ B!PPUInit /\ open = 0 /\ done = {} /\ moves = 0

Step == A!PPUStep /\ B!PPUStep /\ UNCHANGED program

Read(port) == A!BusReadMappedRegister(port) /\ B!BusReadMappedRegister(port)

Write(port, value) ==
    A!BusWriteMappedRegister(port, value) /\ B!BusWriteMappedRegister(port, value)

WriteMask ==
    /\ \E value \in Masks :
          /\ "mask" \in done \/ A!RenderingFlags(value) = 0
          /\ Write(1, value)
    /\ done' = done \cup {"mask"}
    /\ UNCHANGED <<open, moves>>

WriteControl ==
    /\ \E value \in Values : Write(0, value)
    /\ done' = done \cup {"control"}
    /\ UNCHANGED <<open, moves>>

ReadStatus ==
    /\ Read(2)
    /\ open' = 0
    /\ done' = done \cup {"status"}
    /\ UNCHANGED moves

\* A half of a pair.  The pair counts if the registers it relies on are written
\* and the toggle is known, that of PPUADDR only while rendering is off.
WriteHalf(port, pair, counts) ==
    /\ open \in {0, port}
    /\ \E value \in Values : Write(port, value)
    /\ open' = IF "status" \notin done \/ open = port THEN 0 ELSE port
    /\ done' = IF open = port /\ counts THEN done \cup {pair} ELSE done
    /\ UNCHANGED moves

WriteScroll == WriteHalf(5, "scroll", "status" \in done)

WriteAddress ==
    WriteHalf(6, "address", /\ {"status", "mask", "scroll", "control"} \subseteq done
                            /\ ~A!IsRenderingEnabled)

\* Each access to PPUDATA moves the address on.
AccessData ==
    /\ moves < MaxData
    /\ moves' = moves + 1
    /\ Read(7) \/ \E value \in Values : Write(7, value)
    /\ UNCHANGED <<open, done>>

\* The OAM registers, and the registers that a debug build asserts are not read
\* or not written.
AccessOther ==
    /\ \/ \E port \in A!Port \ {2, 7} : Read(port)
       \/ \E port \in {2, 3, 4}, value \in Values : Write(port, value)
    /\ UNCHANGED program

Next ==
    \/ Step \/ WriteMask \/ WriteControl \/ ReadStatus \/ WriteScroll \/ WriteAddress
    \/ AccessData \/ AccessOther

Spec == Init /\ [][Next]_pairVars

Initialised == done = {"mask", "status", "scroll", "control", "address"}

\* Once the program has written PPUMASK and PPUCTRL, read PPUSTATUS and written
\* the pair of PPUSCROLL and then, with rendering off, that of PPUADDR, nothing in
\* the address registers, the write toggle, the fine scroll, PPUMASK or PPUCTRL
\* depends on what the PPU held at power-on, whatever is accessed from then on
\* (InternalRegisters and Registers, which qnes_ppu.hpp leaves uninitialised).
PowerOnForgotten ==
    Initialised => /\ internalA = internalB
                   /\ registersA.ppu_mask = registersB.ppu_mask
                   /\ registersA.ppu_control = registersB.ppu_control
=============================================================================
