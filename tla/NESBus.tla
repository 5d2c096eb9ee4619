------------------------------- MODULE NESBus -------------------------------
(***************************************************************************)
(* The external bus of the console: 2 KB of RAM, mirrored four times, the  *)
(* eight registers of the PPU, mirrored up to 0x3FFF, and nothing above.   *)
(* The value of a read is left in data.                                    *)
(***************************************************************************)
EXTENDS PPU

VARIABLES
    ram,          \* Memory: cells outside DOMAIN are 0
    bus_fault     \* "invalid_address" after an ASSERT(false, "Invalid address")

busVars == <<ppuVars, ram, bus_fault>>

BusInit == PPUInit /\ bus_fault = "none"

BusAlive == PPUAlive /\ (bus_fault = "none" \/ NDEBUG)

InRAM(a) == a < 8192
InPPU(a) == a >= 8192 /\ a < 16384
Unmapped(a) == a >= 16384

ReadRAM(a) ==
    /\ InRAM(a)
    /\ data' = Cell(ram, a % 2048)
    /\ UNCHANGED <<registers, internal_registers, toggle, ppu_data_buffer,
                   palette_ram, vram, ppu_fault, bus_fault>>

\* A release build returns 0.
ReadUnmapped(a) ==
    /\ Unmapped(a)
    /\ data' = 0
    /\ bus_fault' = "invalid_address"
    /\ UNCHANGED <<registers, internal_registers, toggle, ppu_data_buffer,
                   palette_ram, vram, ppu_fault>>

BusRead(a) ==
    /\ BusAlive
    /\ \/ ReadRAM(a)
       \/ InPPU(a) /\ BusReadMappedRegister(a % 8) /\ UNCHANGED bus_fault
       \/ ReadUnmapped(a)
    /\ UNCHANGED ram

BusWrite(a, value) ==
    /\ BusAlive
    /\ \/ InRAM(a) /\ ram' = Put(ram, a % 2048, value) /\ UNCHANGED <<ppuVars, bus_fault>>
       \/ InPPU(a) /\ BusWriteMappedRegister(a % 8, value) /\ UNCHANGED <<ram, bus_fault>>
       \/ Unmapped(a) /\ bus_fault' = "invalid_address" /\ UNCHANGED <<ppuVars, ram>>
=============================================================================
