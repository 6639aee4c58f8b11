----------------------------- MODULE MCIdeChannel -----------------------------
(* Wirings of an IDE channel.                                                *)
EXTENDS IdeChannel

Wired(master, slave) == [d \in Drives |-> IF d = 0 THEN master ELSE slave]

\* Two disks.
TwoDisks      == {Wired("ata", "ata")}
\* One disk, alone, behind a packet drive or in front of one.
OneDisk       == {Wired("ata", "none"), Wired("atapi", "ata"), Wired("ata", "atapi")}
AllDisks      == TwoDisks \cup OneDisk
\* For experiments: a machine without an IDE controller, where every register reads
\* as 0xFF, so that ScanReturns fails.
NoController  == {Wired("nobus", "nobus")}
===============================================================================
