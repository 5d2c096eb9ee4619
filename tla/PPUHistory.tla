----------------------------- MODULE PPUHistory -----------------------------
(***************************************************************************)
(* PPU with history variables: what the program wrote, and when, against   *)
(* what the PPU made of it.                                                *)
(***************************************************************************)
EXTENDS PPU, Sequences

CONSTANTS
    Ports, Values,     \* the registers a program accesses and what it writes
    MaxAccesses        \* bound on its accesses

VARIABLES
    last_mask,     \* the last value written to PPUMASK
    cancelled,     \* that write found an enabling toggle in flight
    ticks,         \* Steps since that write, up to MaxTicks
    synced,        \* PPUSTATUS has been read
    halves,        \* the writes to PPUSCROLL and PPUADDR since it was last read
    accesses       \* accesses so far

ppuHistory == <<last_mask, cancelled, ticks, synced, halves, accesses>>
ppuAllVars == <<ppuVars, ppuHistory>>

\* One Step more than the toggle takes.
MaxTicks == 6

ASSUME AccessesAssumption ==
    Ports \subseteq Port /\ Values \subseteq Byte /\ MaxAccesses \in Nat

PPUHInit ==
    /\ PPUInit
    /\ last_mask = registers.ppu_mask /\ cancelled = FALSE /\ ticks = 0
    /\ synced = FALSE /\ halves = <<>> /\ accesses = 0

Tick ==
    /\ PPUStep
    /\ ticks' = IF ticks < MaxTicks THEN ticks + 1 ELSE ticks
    /\ UNCHANGED <<last_mask, cancelled, synced, halves, accesses>>

ProgramRead(port) ==
    /\ accesses < MaxAccesses /\ accesses' = accesses + 1
    /\ BusReadMappedRegister(port)
    /\ synced' = (synced \/ port = 2)
    /\ halves' = IF port = 2 THEN <<>> ELSE halves
    /\ UNCHANGED <<last_mask, cancelled, ticks>>

ProgramWrite(port, value) ==
    /\ accesses < MaxAccesses /\ accesses' = accesses + 1
    /\ BusWriteMappedRegister(port, value)
    /\ IF port = 1
       THEN /\ last_mask' = value
            /\ cancelled' = (RenderingFlags(toggle.new_rendering_flags) # 0
                               /\ RenderingFlags(value) = 0)
            /\ ticks' = 0
       ELSE UNCHANGED <<last_mask, cancelled, ticks>>
    /\ halves' = IF port \in {5, 6}
                 THEN Append(halves, [port |-> port, value |-> value])
                 ELSE halves
    /\ UNCHANGED synced

PPUHNext ==
    \/ Tick
    \/ \E port \in Ports : ProgramRead(port)
    \/ \E port \in Ports, value \in Values : ProgramWrite(port, value)

PPUHSpec == PPUHInit /\ [][PPUHNext]_ppuAllVars

\* The owner of the PPU goes on clocking it; the program owes no access.
FairPPUHSpec == PPUHSpec /\ WF_ppuAllVars(Tick)

-----------------------------------------------------------------------------
(* Rendering.                                                              *)

\* Once no toggle is in flight, PPUMASK holds the last value written to it, flags
\* and all, however the writes overlapped: only a write that tries to cancel an
\* enabling toggle is lost (WritePPUMASK, UpdateRenderingToggle).
SettledMask == ~toggle.scheduled /\ ~cancelled => registers.ppu_mask = last_mask

\* The mask a program leaves behind comes into force and stays (the countdown of
\* UpdateRenderingToggle, under a clock that does not stop).
MaskTakesEffect == <>[](PPUAlive /\ ~cancelled => registers.ppu_mask = last_mask)

\* "no rendering toggle needed - just set the new value" (WritePPUMASK): the
\* last write decides, whatever was scheduled before it.
RenderingFollowsLastWrite == ~toggle.scheduled => registers.ppu_mask = last_mask

\* Five Steps after a write to PPUMASK nothing is in flight and the mask is in
\* force, also when a toggle of an earlier write was still counting down
\* (WritePPUMASK schedules 4, UpdateRenderingToggle acts on 0).
MaskInForce ==
    ticks >= 5 => ~toggle.scheduled /\ (~cancelled => registers.ppu_mask = last_mask)

-----------------------------------------------------------------------------
(* Addresses.                                                              *)

Halves(port) == IF port = 5 THEN registers.ppu_scroll ELSE registers.ppu_address

\* From a read of PPUSTATUS on, the writes to PPUSCROLL and PPUADDR together
\* alternate between first and second halves, and each register holds the last
\* write of each parity, whatever else is accessed in between (ReadPPUSTATUS,
\* WritePPUSCROLL, WritePPUADDR, which share one toggle).
HalvesAlternate ==
    synced =>
      /\ internal_registers.write_toggle = Len(halves) % 2
      /\ \A k \in 1 .. Len(halves) :
            (\A j \in k + 1 .. Len(halves) :
                halves[j].port = halves[k].port => j % 2 # k % 2)
              => Halves(halves[k].port)[(k + 1) % 2] = halves[k].value

\* "reading PPUDATA does not return current value of the VRAM address, but rather
\* the value of the previous read" (ReadPPUDATA): below the palettes.
BufferedRead ==
    [][ProgramRead(7) /\ VRAMAddress % 16384 < 16128
         => data' = ppu_data_buffer]_ppuAllVars

Scroll == INSTANCE ScrollSpec WITH
    rendering <- IsRenderingEnabled,
    column <- (VRAMAddress % 32) + 32 * ((VRAMAddress \div 1024) % 2),
    row <- 8 * ((VRAMAddress \div 32) % 32) + (VRAMAddress \div 4096),
    page <- (VRAMAddress \div 2048) % 2

\* While rendering is on, no register write moves the VRAM address, and a PPUDATA
\* access moves it as the picture is drawn, from every address: the wraps of
\* VRAMIncrementCoarseX and VRAMIncrementFineY, and the conditions of
\* WritePPUCONTROL and WritePPUADDR.
ImplementsScroll == Scroll!Spec
=============================================================================
