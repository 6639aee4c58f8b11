----------------------------- MODULE ImageStore -----------------------------
(***************************************************************************)
(* What disk.c promises to the shell, the desktop and the installer: one   *)
(* filesystem image that is saved and loaded as a whole, as far as its     *)
(* checksum can tell.  While a save has not been flushed a load may find   *)
(* whatever is readable of the candidates written since the last flush, or *)
(* nothing; once flushed the image is fixed until the next save begins.    *)
(***************************************************************************)
CONSTANTS
  Payloads,     \* what the disk may hold in the place of an image
  Tables,       \* the node tables among them
  Fresh,        \* the table fs_init makes
  Nothing,      \* no image
  Readable(_)   \* what a load may return when a set of payloads was written

VARIABLES
  mem,      \* the node table in memory
  stored,   \* the image a load would return now, or Nothing
  cands,    \* what was written since the last flush, and was there before
  settled   \* the stored image was flushed and no save has begun since

vars == <<mem, stored, cands, settled>>

\* What a load makes of a payload that was written whole.
Whole(p) == IF p \in Readable({p}) THEN p ELSE Nothing

Init ==
  /\ mem = Fresh
  /\ \E p \in Payloads :
       /\ cands = {p}
       /\ \/ stored = Nothing /\ settled = FALSE
          \/ stored = Whole(p) /\ settled = TRUE

\* The table changes by a caller's hand.
Change == mem' \in Tables /\ UNCHANGED <<stored, cands, settled>>

\* A save (of the present table, or of a fresh one) begins.
Begin ==
  /\ mem' \in {mem, Fresh}
  /\ cands' = cands \cup {mem'}
  /\ settled' = FALSE
  /\ UNCHANGED stored

\* Unflushed, the disk may come to hold any candidate, or nothing readable.
Drift ==
  /\ ~settled
  /\ stored' \in Readable(cands) \cup {Nothing}
  /\ UNCHANGED <<mem, cands, settled>>

\* The flush of a finished save.
Settle ==
  /\ \E p \in cands : stored = Whole(p) /\ cands' = {p}
  /\ settled' = TRUE
  /\ UNCHANGED <<mem, stored>>

\* A load returns the stored image.
Restore ==
  /\ stored # Nothing
  /\ mem' = stored
  /\ UNCHANGED <<stored, cands, settled>>

\* Power goes: memory starts afresh, unflushed data may be lost.
PowerLoss ==
  /\ mem' = Fresh
  /\ IF settled THEN UNCHANGED stored ELSE stored' \in Readable(cands) \cup {Nothing}
  /\ UNCHANGED <<cands, settled>>

Next == Change \/ Begin \/ Drift \/ Settle \/ Restore \/ PowerLoss

Spec == Init /\ [][Next]_vars
=============================================================================
