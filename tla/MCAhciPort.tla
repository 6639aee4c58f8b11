------------------------------ MODULE MCAhciPort ------------------------------
(* An AHCI port for TLC.                                                     *)
EXTENDS AhciPort

===============================================================================
