-------------------------------- MODULE PPU --------------------------------
(***************************************************************************)
(* The register file of the PPU: qnes_ppu.cpp with the PPUBus and the VRAM *)
(* behind it.  The external bus reads and writes the eight registers, one  *)
(* action per access; Step is one dot of the PPU's own clock.              *)
(*                                                                         *)
(* scanline_idx is never assigned, so it stays 0 and IsRenderingActive is  *)
(* IsRenderingEnabled; scanline_cycle and ppu_data are never used.         *)
(***************************************************************************)
EXTENDS Bytes

CONSTANTS
    NDEBUG,        \* TRUE in a release build, where ASSERT expands to nothing
    VRAMSize,      \* the bytes of the Memory behind PPUBus
    PowerOn,       \* the contents of the members without an initialiser
    Garbage        \* what a read beyond that Memory may return

VARIABLES
    registers, internal_registers,
    toggle,              \* rendering_toggle_* and new_rendering_flags
    ppu_data_buffer, palette_ram,
    vram,                \* Memory: cells outside DOMAIN are 0
    data,                \* the value the last read put on the external bus
    ppu_fault            \* the last failed ASSERT, or a write beyond the VRAM

ppuVars == <<registers, internal_registers, toggle, ppu_data_buffer,
             palette_ram, vram, data, ppu_fault>>

Port    == 0 .. 7
Address == {v \in Nat : v < 32768}    \* a bit-field of 15 bits

Registers ==
    [ppu_control : Byte, ppu_mask : Byte, ppu_status : Byte, oam_address : Byte,
     oam_data : Byte, ppu_scroll : [{0, 1} -> Byte], ppu_address : [{0, 1} -> Byte]]

InternalRegisters ==
    [current_vram_address : Address, temp_vram_address : Address,
     fine_x_scroll : 0 .. 7, write_toggle : {0, 1}]

Toggle == [scheduled : BOOLEAN, cycles_to_wait : 0 .. 4, new_rendering_flags : Byte]

NoToggle == [scheduled |-> FALSE, cycles_to_wait |-> 0, new_rendering_flags |-> 0]

ASSUME PPUConstantsAssumption ==
    /\ NDEBUG \in BOOLEAN
    /\ VRAMSize \in Nat
    /\ Garbage \subseteq Byte /\ Garbage # {}
    /\ \A p \in PowerOn :
          /\ p.registers \in Registers
          /\ p.internal_registers \in InternalRegisters
          /\ p.palette_ram \in [0 .. 31 -> Byte]

PPUInit ==
    \E p \in PowerOn :
        /\ registers = p.registers
        /\ internal_registers = p.internal_registers
        /\ palette_ram = p.palette_ram
        /\ toggle = NoToggle
        /\ ppu_data_buffer = 0
        /\ vram = [a \in {} |-> 0]
        /\ data = 0
        /\ ppu_fault = "none"

\* A failed ASSERT ends a debug build; what a write beyond the VRAM does to the
\* rest of the program is not modelled.
PPUAlive == ppu_fault = "none" \/ (NDEBUG /\ ppu_fault = "invalid_register")

-----------------------------------------------------------------------------
(* Bit fields.  A mask of adjacent bits selects a multiple of its lowest   *)
(* bit: `unit' is that bit and `size' the number of values of the field.   *)

Masked(w, unit, size) == unit * ((w \div unit) % size)

\* (w & ~mask) | (value & mask)
Replaced(w, value, unit, size) ==
    (w - Masked(w, unit, size)) + Masked(value, unit, size)

Flipped(w, bit) == Replaced(w, bit - Masked(w, bit, 2), bit, 2)

\* PPU_RENDERING_MASK: show background and show sprites.
RenderingFlags(w)            == Masked(w, 8, 4)
WithRenderingFlags(w, value) == Replaced(w, value, 8, 4)

WithCoarseX(t, value)     == Replaced(t, value, 1, 32)
WithCoarseY(t, value)     == Replaced(t, value, 32, 32)
WithFineY(t, value)       == Replaced(t, value, 4096, 8)
WithNameTable(t, value)   == Replaced(t, value, 1024, 4)
WithHighAddress(t, value) == Replaced(t, value, 256, 64)
WithLowAddress(t, value)  == Replaced(t, value, 1, 256)

IsRenderingEnabled == RenderingFlags(registers.ppu_mask) # 0
IsRenderingActive  == IsRenderingEnabled

VRAMAddress == internal_registers.current_vram_address
TempAddress == internal_registers.temp_vram_address

-----------------------------------------------------------------------------
(* Step: the rendering toggle counts down and takes effect.                *)

\* Mutants: the flags are cleared before they are used; the count is not kept.
UpdateRenderingToggleClearsFirst ==
    \/ /\ toggle.scheduled /\ toggle.cycles_to_wait = 0
       /\ toggle' = NoToggle
       /\ registers' = [registers EXCEPT
             !.ppu_mask = WithRenderingFlags(@, toggle'.new_rendering_flags)]
    \/ /\ toggle.scheduled /\ toggle.cycles_to_wait > 0
       /\ toggle' = [toggle EXCEPT !.cycles_to_wait = @ - 1]
       /\ UNCHANGED registers
    \/ ~toggle.scheduled /\ UNCHANGED <<registers, toggle>>

UpdateRenderingToggleWaits ==
    \/ /\ toggle.scheduled /\ toggle.cycles_to_wait = 0
       /\ registers' = [registers EXCEPT
             !.ppu_mask = WithRenderingFlags(@, toggle.new_rendering_flags)]
       /\ toggle' = NoToggle
    \/ ~(toggle.scheduled /\ toggle.cycles_to_wait = 0) /\ UNCHANGED <<registers, toggle>>

UpdateRenderingToggle ==
    \/ /\ toggle.scheduled /\ toggle.cycles_to_wait = 0
       /\ registers' = [registers EXCEPT
             !.ppu_mask = WithRenderingFlags(@, toggle.new_rendering_flags)]
       /\ toggle' = NoToggle
    \/ /\ toggle.scheduled /\ toggle.cycles_to_wait > 0
       /\ toggle' = [toggle EXCEPT !.cycles_to_wait = @ - 1]
       /\ UNCHANGED registers
    \/ ~toggle.scheduled /\ UNCHANGED <<registers, toggle>>

PPUStep ==
    /\ PPUAlive
    /\ UpdateRenderingToggle
    /\ UNCHANGED <<internal_registers, ppu_data_buffer, palette_ram, vram,
                   data, ppu_fault>>

-----------------------------------------------------------------------------
(* The VRAM address.                                                       *)

VRAMIncrementCoarseX(a) ==
    IF a % 32 = 31 THEN Flipped(WithCoarseX(a, 0), 1024) ELSE a + 1

\* Mutant: the attribute rows count as rows of tiles.
VRAMIncrementFineYLateWrap(a) ==
    LET y    == (a \div 32) % 32
        next == WithFineY(a, 0)
    IN  IF a \div 4096 # 7 THEN a + 4096
        ELSE IF y = 31 THEN WithCoarseY(Flipped(next, 2048), 0) ELSE next + 32

\* Row 29 is the last of a name table; rows 30 and 31 are its attributes.
VRAMIncrementFineY(a) ==
    LET y    == (a \div 32) % 32
        next == WithFineY(a, 0)
    IN  IF a \div 4096 # 7 THEN a + 4096
        ELSE CASE y = 29 -> WithCoarseY(Flipped(next, 2048), 0)
               [] y = 31 -> WithCoarseY(next, 0)
               [] OTHER  -> next + 32

\* The increment that PPUCTRL selects, modulo the width of the bit-field.
Stride == IF Masked(registers.ppu_control, 4, 2) # 0 THEN 32 ELSE 1

\* Mutant: the address has the sixteen bits of its declared type.
IncrementVRAMAddressWide ==
    internal_registers' = [internal_registers EXCEPT !.current_vram_address =
        IF IsRenderingActive THEN VRAMIncrementFineY(VRAMIncrementCoarseX(@))
        ELSE (@ + Stride) % 65536]

IncrementVRAMAddress ==
    internal_registers' = [internal_registers EXCEPT !.current_vram_address =
        IF IsRenderingActive THEN VRAMIncrementFineY(VRAMIncrementCoarseX(@))
        ELSE (@ + Stride) % 32768]

\* PPUBus::Read
VRAMRead(a) == IF a < VRAMSize THEN {Cell(vram, a)} ELSE Garbage

-----------------------------------------------------------------------------
(* Register reads.                                                         *)

\* Mutant: a read of PPUSTATUS only clears the vblank flag.
ReadPPUSTATUSKeepsToggle ==
    /\ data' = registers.ppu_status
    /\ registers' = [registers EXCEPT !.ppu_status = @ % 128]
    /\ UNCHANGED <<internal_registers, toggle, ppu_data_buffer, palette_ram, vram,
                   ppu_fault>>

ReadPPUSTATUS ==
    /\ data' = registers.ppu_status
    /\ registers' = [registers EXCEPT !.ppu_status = @ % 128]
    /\ internal_registers' = [internal_registers EXCEPT !.write_toggle = 0]
    /\ UNCHANGED <<toggle, ppu_data_buffer, palette_ram, vram, ppu_fault>>

ReadOAMDATA ==
    /\ data' = registers.oam_data
    /\ UNCHANGED <<registers, internal_registers, toggle, ppu_data_buffer,
                   palette_ram, vram, ppu_fault>>

\* Every read fills the buffer: below the boundary from 0x1000 further down,
\* on 16 bits.
ReadPPUDATA ==
    LET address  == VRAMAddress % 16384
        buffered == address > 16128           \* 0x3F00
        fetched  == IF buffered THEN address ELSE (address + 61440) % 65536
    IN  /\ data' = IF buffered THEN ppu_data_buffer ELSE palette_ram[address % 32]
        /\ ppu_data_buffer' \in VRAMRead(fetched)
        /\ IncrementVRAMAddress
        /\ UNCHANGED <<registers, toggle, palette_ram, vram, ppu_fault>>

\* The other registers: ASSERT(false, ...), or 0xFD in a release build.
ReadInvalidRegister ==
    /\ data' = 253
    /\ ppu_fault' = "invalid_register"
    /\ UNCHANGED <<registers, internal_registers, toggle, ppu_data_buffer,
                   palette_ram, vram>>

BusReadMappedRegister(port) ==
    /\ PPUAlive
    /\ \/ port = 2 /\ ReadPPUSTATUS
       \/ port = 4 /\ ReadOAMDATA
       \/ port = 7 /\ ReadPPUDATA
       \/ port \notin {2, 4, 7} /\ ReadInvalidRegister

-----------------------------------------------------------------------------
(* Register writes.                                                        *)

\* The members that no register write changes.
Unwritten == <<ppu_data_buffer, data>>

WritePPUCONTROL(value) ==
    LET temp == WithNameTable(TempAddress, value)
    IN  /\ registers' = [registers EXCEPT !.ppu_control = value]
        /\ internal_registers' = [internal_registers EXCEPT
              !.temp_vram_address = temp,
              !.current_vram_address = IF IsRenderingEnabled THEN @ ELSE temp]
        /\ UNCHANGED <<toggle, palette_ram, vram, ppu_fault>>

\* Turning rendering on or off is scheduled, and the mask stored without the
\* flags until then.
WritePPUMASK(value) ==
    LET flags == RenderingFlags(value)
    IN  /\ IF IsRenderingEnabled # (flags # 0)
           THEN /\ toggle' = [scheduled |-> TRUE, cycles_to_wait |-> 4,
                              new_rendering_flags |-> flags]
                /\ registers' = [registers EXCEPT
                      !.ppu_mask = WithRenderingFlags(value, 0)]
           ELSE /\ registers' = [registers EXCEPT !.ppu_mask = value]
                /\ UNCHANGED toggle
        /\ UNCHANGED <<internal_registers, palette_ram, vram, ppu_fault>>

WriteOAM(register, value) ==
    /\ registers' = [registers EXCEPT ![register] = value]
    /\ UNCHANGED <<internal_registers, toggle, palette_ram, vram, ppu_fault>>

\* The halves of PPUSCROLL and PPUADDR; both registers flip the same toggle.
FlipToggle(internal) == [internal EXCEPT !.write_toggle = 1 - @]

\* The masks select bits of the byte where it stands: it is not shifted.
WritePPUSCROLL(value) ==
    LET half == internal_registers.write_toggle
    IN  /\ registers' = [registers EXCEPT !.ppu_scroll[half] = value]
        /\ internal_registers' = FlipToggle(
              IF half = 1
              THEN [internal_registers EXCEPT
                      !.temp_vram_address = WithFineY(WithCoarseY(@, value), value)]
              ELSE [internal_registers EXCEPT
                      !.temp_vram_address = WithCoarseX(@, value),
                      !.fine_x_scroll = value % 8])
        /\ UNCHANGED <<toggle, palette_ram, vram, ppu_fault>>

\* Mutant: the write is ignored in the middle of a frame.
WritePPUADDRIfIdle(value) ==
    LET half == internal_registers.write_toggle
        temp == IF half = 1 THEN WithLowAddress(TempAddress, value)
                ELSE WithHighAddress(TempAddress, value)
    IN  /\ IF IsRenderingActive
           THEN UNCHANGED <<registers, internal_registers>>
           ELSE /\ registers' = [registers EXCEPT !.ppu_address[half] = value]
                /\ internal_registers' = FlipToggle([internal_registers EXCEPT
                      !.temp_vram_address = temp,
                      !.current_vram_address = IF half = 1 THEN temp ELSE @])
        /\ UNCHANGED <<toggle, palette_ram, vram, ppu_fault>>

\* As above: bits 8 to 13 of a byte are zero.
WritePPUADDR(value) ==
    LET half == internal_registers.write_toggle
        temp == IF half = 1 THEN WithLowAddress(TempAddress, value)
                ELSE WithHighAddress(TempAddress, value)
    IN  /\ registers' = [registers EXCEPT !.ppu_address[half] = value]
        /\ internal_registers' = FlipToggle([internal_registers EXCEPT
              !.temp_vram_address = temp,
              !.current_vram_address =
                  IF half = 1 /\ ~IsRenderingEnabled THEN temp ELSE @])
        /\ UNCHANGED <<toggle, palette_ram, vram, ppu_fault>>

WritePPUDATA(value) ==
    LET address == VRAMAddress % 16384
    IN  /\ \/ /\ address > 16128
              /\ palette_ram' = [palette_ram EXCEPT ![address % 32] = value]
              /\ UNCHANGED <<vram, ppu_fault>>
           \/ /\ address <= 16128 /\ address < VRAMSize
              /\ vram' = Put(vram, address, value)
              /\ UNCHANGED <<palette_ram, ppu_fault>>
           \/ /\ address <= 16128 /\ address >= VRAMSize
              /\ ppu_fault' = "out_of_bounds"
              /\ UNCHANGED <<palette_ram, vram>>
        /\ IncrementVRAMAddress
        /\ UNCHANGED <<registers, toggle>>

WriteInvalidRegister ==
    /\ ppu_fault' = "invalid_register"
    /\ UNCHANGED <<registers, internal_registers, toggle, palette_ram, vram>>

BusWriteMappedRegister(port, value) ==
    /\ PPUAlive
    /\ \/ port = 0 /\ WritePPUCONTROL(value)
       \/ port = 1 /\ WritePPUMASK(value)
       \/ port = 2 /\ WriteInvalidRegister
       \/ port = 3 /\ WriteOAM("oam_address", value)
       \/ port = 4 /\ WriteOAM("oam_data", value)
       \/ port = 5 /\ WritePPUSCROLL(value)
       \/ port = 6 /\ WritePPUADDR(value)
       \/ port = 7 /\ WritePPUDATA(value)
    /\ UNCHANGED Unwritten

-----------------------------------------------------------------------------
(* The PPU alone: any access, any value, between any two Steps.            *)

PPUNext ==
    \/ PPUStep
    \/ \E port \in Port : BusReadMappedRegister(port)
    \/ \E port \in Port, value \in Byte : BusWriteMappedRegister(port, value)

PPUSpec == PPUInit /\ [][PPUNext]_ppuVars

\* Every member of the PPU keeps its width: the halves of the address registers,
\* the 15-bit addresses through every increment, and the countdown of a toggle.
PPUTypeOK ==
    /\ registers \in Registers
    /\ internal_registers \in InternalRegisters
    /\ toggle \in Toggle
    /\ ppu_data_buffer \in Byte
    /\ palette_ram \in [0 .. 31 -> Byte]
    /\ \A a \in DOMAIN vram : a \in Nat /\ a < VRAMSize /\ vram[a] \in Byte
    /\ data \in Byte
    /\ ppu_fault \in {"none", "invalid_register", "out_of_bounds"}
=============================================================================
