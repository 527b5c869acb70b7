--------------------------- MODULE GenerationLog ---------------------------
(***************************************************************************)
(* What the backup store promises about one pack: its complete generations *)
(* are a log of world contents that only grows at its end. The newest      *)
(* generation is the last entry; none is ever replaced or lost.            *)
(***************************************************************************)
EXTENDS Sequences

CONSTANT Contents

VARIABLE log

Init == log = <<>>

Commit(v) == log' = Append(log, v)

Next == \E v \in Contents : Commit(v)

Spec == Init /\ [][Next]_log
=============================================================================
