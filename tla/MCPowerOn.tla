----------------------------- MODULE MCPowerOn -----------------------------
(***************************************************************************)
(* PowerOnPair from all zeros against all ones and a mixture, in every     *)
(* member that the address, the mask or the control can come to depend on. *)
(* The others (the stored bytes of PPUSCROLL, PPUADDR and OAM, the status  *)
(* and the palette, which the code only hands back) start at the value the *)
(* program writes, so that they do not multiply the states.                *)
(***************************************************************************)
EXTENDS PowerOnPair

Written == 37

Contents(b, address, fine, half) ==
    [registers |->
        [ppu_control |-> b, ppu_mask |-> b, ppu_status |-> Written,
         oam_address |-> Written, oam_data |-> Written,
         ppu_scroll |-> [h \in {0, 1} |-> Written],
         ppu_address |-> [h \in {0, 1} |-> Written]],
     internal_registers |->
        [current_vram_address |-> address, temp_vram_address |-> address,
         fine_x_scroll |-> fine, write_toggle |-> half],
     palette_ram |-> [a \in 0 .. 31 |-> Written]]

Zeros == {Contents(0, 0, 0, 0)}
Others == {Contents(255, 32767, 7, 1), Contents(12, 18724, 2, 0)}
=============================================================================
