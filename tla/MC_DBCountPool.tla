--------------------------- MODULE MC_DBCountPool ---------------------------
(* Four backups with two slots: the loop must wait for a slot twice, and a    *)
(* slot can be handed on while the other goroutine is still in pgBackRest.    *)
EXTENDS DBCountPool

\* Distinct counts, so a value stored under the wrong backup shows.
MCDatabaseRef == [b \in Backups |-> 10 + b]
=============================================================================
