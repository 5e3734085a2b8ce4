---------------------------- MODULE ReadersWriters ----------------------------
(***************************************************************************)
(* What the locks of a File promise about its contents, whoever waits for  *)
(* whom: while a worker writes them nobody else reads or writes them, and  *)
(* an access begins only while the memory of the File is there.  Memory is *)
(* never freed under a writer; under a reader it can be.  FileLocks.tla is *)
(* shown to implement this specification.                                  *)
(***************************************************************************)
CONSTANTS Workers, Files

VARIABLES
    reading, writing,   \* the workers that read, and that write, each File
    freed               \* the Files whose memory was freed

vars == <<reading, writing, freed>>

Init ==
    /\ reading = [f \in Files |-> {}]
    /\ writing = [f \in Files |-> {}]
    /\ freed = {}

StartRead(w, f) ==
    /\ f \notin freed
    /\ writing[f] = {}
    /\ w \notin reading[f]
    /\ reading' = [reading EXCEPT ![f] = @ \cup {w}]
    /\ UNCHANGED <<writing, freed>>

EndRead(w, f) ==
    /\ f \notin freed
    /\ w \in reading[f]
    /\ reading' = [reading EXCEPT ![f] = @ \ {w}]
    /\ UNCHANGED <<writing, freed>>

StartWrite(w, f) ==
    /\ f \notin freed
    /\ reading[f] = {}
    /\ writing[f] = {}
    /\ writing' = [writing EXCEPT ![f] = {w}]
    /\ UNCHANGED <<reading, freed>>

EndWrite(w, f) ==
    /\ f \notin freed
    /\ writing[f] = {w}
    /\ writing' = [writing EXCEPT ![f] = {}]
    /\ UNCHANGED <<reading, freed>>

Free(f) ==
    /\ f \notin freed
    /\ writing[f] = {}
    /\ freed' = freed \cup {f}
    /\ UNCHANGED <<reading, writing>>

Next ==
    \/ \E w \in Workers, f \in Files :
           StartRead(w, f) \/ EndRead(w, f) \/ StartWrite(w, f) \/ EndWrite(w, f)
    \/ \E f \in Files : Free(f)

Spec == Init /\ [][Next]_vars
===============================================================================
