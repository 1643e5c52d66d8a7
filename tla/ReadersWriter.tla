--------------------------- MODULE ReadersWriter ---------------------------
(***************************************************************************)
(* What the record locks of ipcCode/flock are for: many readers or one     *)
(* writer, never both.  Nobody waits, and holders leave when they want.    *)
(***************************************************************************)
CONSTANTS Producers, Consumers
VARIABLES writing, reading

Init == writing = {} /\ reading = {}

BeginWrite(p) ==
    /\ writing = {} /\ reading = {}
    /\ writing' = {p}
    /\ UNCHANGED reading

EndWrite(p) ==
    /\ p \in writing
    /\ writing' = writing \ {p}
    /\ UNCHANGED reading

BeginRead(c) ==
    /\ writing = {} /\ c \notin reading
    /\ reading' = reading \cup {c}
    /\ UNCHANGED writing

EndRead(c) ==
    /\ c \in reading
    /\ reading' = reading \ {c}
    /\ UNCHANGED writing

Next == \/ \E p \in Producers : BeginWrite(p) \/ EndWrite(p)
        \/ \E c \in Consumers : BeginRead(c) \/ EndRead(c)

Spec == Init /\ [][Next]_<<writing, reading>>
=============================================================================
