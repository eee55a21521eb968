--------------------------- MODULE MC_CommandQueue ---------------------------
EXTENDS CommandQueue
CONSTANTS c1, c2, sketch

\* c1 asks for a plain toggle, c2 for the named session.
MCRequest ==
  [c \in {c1, c2} |->
     [overlay_action |-> FALSE, session_file |-> IF c = c1 THEN NoSession ELSE sketch]]

=============================================================================
