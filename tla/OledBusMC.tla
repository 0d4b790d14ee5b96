------------------------------ MODULE OledBusMC ------------------------------
(***************************************************************************)
(* The bus of the display, with no loss and no transaction cut in two, run *)
(* against what the header says of the driver.                             *)
(***************************************************************************)
EXTENDS OledBus

Nothing == {}

\* inc/ssd1306.h:131: "display buffer, should be called on change".  When two
\* shows in a row have had the bus to themselves, the display shows the buffer
\* from its first line on.
PictureStraight == sent = 0 /\ calm = 2 => regs.line = 0
=============================================================================
