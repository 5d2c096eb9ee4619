----------------------------- MODULE ScrollSpec -----------------------------
(***************************************************************************)
(* What the VRAM address means to a picture: a tile column on two name     *)
(* tables side by side, and a pixel row on two pages above one another.    *)
(* While rendering is enabled the position only ever advances, by a column *)
(* and a row at a time; a picture has 240 rows, and the rows beyond them,  *)
(* where the attributes lie, wrap without turning the page.  PPU           *)
(* implements this specification (PPUHistory!Scroll).                      *)
(***************************************************************************)
EXTENDS Naturals

VARIABLES rendering, column, row, page

vars == <<rendering, column, row, page>>

Position ==
    /\ column \in {c \in Nat : c < 64}
    /\ row \in {r \in Nat : r < 256}
    /\ page \in {0, 1}

Init == rendering \in BOOLEAN /\ Position

\* An access to PPUDATA in the middle of a frame.
Advance ==
    /\ rendering
    /\ column' = (column + 1) % 64
    /\ row' = IF row \in {239, 255} THEN 0 ELSE row + 1
    /\ page' = IF row = 239 THEN 1 - page ELSE page
    /\ UNCHANGED rendering

\* With rendering off the program moves the position as it likes.
Move == ~rendering /\ Position' /\ UNCHANGED rendering

Toggle == rendering' = ~rendering /\ UNCHANGED <<column, row, page>>

Next == Advance \/ Move \/ Toggle

Spec == Init /\ [][Next]_vars
=============================================================================
