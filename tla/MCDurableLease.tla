--------------------------- MODULE MCDurableLease ---------------------------
(* Small instances of DurableLease.                                        *)
EXTENDS DurableLease

CONSTANTS e1, e2

\* No entry is a symbolic link.
MCPlain == [e \in Entry |-> e]

\* The entry e1 is a symbolic link to the entry e2.
MCLinked == [e \in Entry |-> e2]
=============================================================================
