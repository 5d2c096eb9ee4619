------------------------------- MODULE MCPPU -------------------------------
(***************************************************************************)
(* Instances of PPUHistory: the contents of the uninitialised members at   *)
(* power-on, a few values of each that matter to a run.                    *)
(***************************************************************************)
EXTENDS PPUHistory

\* Members that the run leaves alone are 0.
PowerOnWith(control, mask, vram_address, temp_address, half) ==
    [registers |->
        [ppu_control |-> control, ppu_mask |-> mask, ppu_status |-> 224,
         oam_address |-> 0, oam_data |-> 0,
         ppu_scroll |-> [h \in {0, 1} |-> 0],
         ppu_address |-> [h \in {0, 1} |-> 0]],
     internal_registers |->
        [current_vram_address |-> vram_address, temp_vram_address |-> temp_address,
         fine_x_scroll |-> 0, write_toggle |-> half],
     palette_ram |-> [a \in 0 .. 31 |-> a]]

\* Rendering on and off, with other bits of the mask set and clear.
MasksAtPowerOn == {PowerOnWith(0, mask, 0, 0, 0) : mask \in {0, 6, 24, 255}}

\* Rendering off and the VRAM address where the program will set it from 0.
QuietAtPowerOn == {PowerOnWith(0, 0, 0, 0, 0)}

\* The edges of a tile, of a row of tiles and of a name table, in every name table.
EdgeAddresses ==
    {x + 32 * y + 1024 * table + 4096 * fine :
        x \in {0, 31}, y \in {0, 29, 31}, table \in 0 .. 3, fine \in {0, 7}}

\* Rendering off and on, the first half expected in one case and not in the other.
EdgesAtPowerOn ==
    {PowerOnWith(4, 0, a, 1023, 1) : a \in EdgeAddresses}
      \cup {PowerOnWith(4, 24, a, 1023, 0) : a \in EdgeAddresses}

\* Bytes a read beyond the VRAM may return.
SomeGarbage == {0, 255}
=============================================================================
