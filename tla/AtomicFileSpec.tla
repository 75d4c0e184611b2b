--------------------------- MODULE AtomicFileSpec ---------------------------
(***************************************************************************)
(* What the durable write primitive (helpers::AtomicFile, spec 4.1)        *)
(* promises about one target path, written by one caller at a time: a      *)
(* reader of the path sees either no file or a whole content; a new        *)
(* content is published, later made durable, and save() acknowledges it   *)
(* only once it is durable; a crash brings back the durable content.       *)
(***************************************************************************)
CONSTANTS
    Contents,  \* whole contents a caller may write
    NoFile     \* the path does not exist

VARIABLES
    target,    \* what a reader of the path sees
    durable,   \* what the path holds after a crash
    acked      \* the content of the last save() that returned Ok

Init ==
    /\ target \in Contents \cup {NoFile}
    /\ durable = target
    /\ acked = target

\* A whole new content becomes visible at the path.
Publish ==
    /\ \E c \in Contents : target' = c
    /\ UNCHANGED <<durable, acked>>

\* What is visible becomes what survives a crash.
Persist ==
    /\ durable' = target
    /\ UNCHANGED <<target, acked>>

\* save() returns Ok for the visible content, which is already durable.
Ack ==
    /\ durable = target
    /\ acked' = target
    /\ UNCHANGED <<target, durable>>

\* A crash: the path shows its durable content again.
Crash ==
    /\ target' = durable
    /\ UNCHANGED <<durable, acked>>

Spec == Init /\ [][Publish \/ Persist \/ Ack \/ Crash]_<<target, durable, acked>>
=============================================================================
