------------------------------ MODULE MCKeyboard ------------------------------
(* Keyboards for TLC.                                                         *)
EXTENDS Keyboard

===============================================================================
