------------------------------ MODULE MCSystem ------------------------------
(***************************************************************************)
(* A RAM full of instructions that reach the PPU: each register family,    *)
(* each addressing mode, mirrors, and page crossings at both edges of the  *)
(* register window.                                                        *)
(***************************************************************************)
EXTENDS System, SequencesExt

Code == <<
    <<\h8D, \h05, \h20>>,     \* STA $2005
    <<\h8D, \h0E, \h20>>,     \* STA $200E     mirror of PPUADDR
    <<\h9D, \hFE, \h1F>>,     \* STA $1FFE,X   from RAM into the registers
    <<\h9D, \hFF, \h20>>,     \* STA $20FF,X
    <<\h91, \h10, \h00>>,     \* STA ($10),Y   $3EFE
    <<\h81, \h10, \h00>>,     \* STA ($10,X)   $3EFE or $2006
    <<\h9D, \h02, \h20>>,     \* STA $2002,X   PPUSTATUS or a mirror of PPUMASK
    <<\hAD, \h02, \h20>>,     \* LDA $2002
    <<\hBD, \hFB, \h20>>,     \* LDA $20FB,X   reads $2002 twice
    <<\h8D, \h01, \h20>>,     \* STA $2001
    <<\hAD, \h07, \h20>>,     \* LDA $2007
    <<\hEE, \h07, \h20>>,     \* INC $2007
    <<\hEE, \h05, \h20>>,     \* INC $2005
    <<\hFE, \hFF, \h1F>>,     \* INC $1FFF,X   $1FFF or $2006
    <<\hBD, \hFF, \h3F>>,     \* LDA $3FFF,X   $3FFF or $4006
    <<\h9D, \h00, \h3F>>,     \* STA $3F00,X
    <<\hB5, \hFE, \h00>>,     \* LDA $FE,X
    <<\h8D, \h00, \h40>> >>   \* STA $4000

CodeCells == {<<k, n>> \in (1 .. Len(Code)) \X (1 .. 3) : TRUE}

\* The code from 0x0201 and two pointers in page zero.
MCProgram ==
    [a \in {16, 17, 23, 24} \cup {508 + 4 * c[1] + c[2] : c \in CodeCells} |->
        CASE a = 16 -> \hFE [] a = 17 -> \h3E
          [] a = 23 -> \h06 [] a = 24 -> \h20
          [] OTHER -> LET n == a - 509 IN Code[n \div 4][(n % 4) + 1]]

\* Some of it is entered through a mirror of the RAM.
MCEntries == {509 + 4 * k + (IF k % 2 = 0 THEN 2048 ELSE 0) : k \in 1 .. Len(Code)}

MCRegisters == {[a |-> 8, x |-> x, y |-> 7] : x \in {0, 7}}

MCPowerOn ==
    {[registers |->
        [ppu_control |-> 0, ppu_mask |-> 0, ppu_status |-> 128,
         oam_address |-> 0, oam_data |-> 0,
         ppu_scroll |-> [h \in {0, 1} |-> 0], ppu_address |-> [h \in {0, 1} |-> 0]],
      internal_registers |->
        [current_vram_address |-> 16128, temp_vram_address |-> 0,
         fine_x_scroll |-> 0, write_toggle |-> half],
      palette_ram |-> [a \in 0 .. 31 |-> 0]] : half \in {0, 1}}
=============================================================================
