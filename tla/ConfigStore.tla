----------------------------- MODULE ConfigStore -----------------------------
(***************************************************************************)
(* What IConfigStore promises to the services that use it: a table in RAM  *)
(* that edits change, and one durable table that commit replaces in one    *)
(* indivisible step.  A commit that fails or is interrupted may still have *)
(* reached the medium: its table is then in "maybe", and the next restore  *)
(* decides which of the two was kept.  Nothing else can ever be restored.  *)
(***************************************************************************)
CONSTANTS Tables,   \* the tables a client can build
          Empty     \* the table without records

VARIABLES up,       \* a restore has succeeded since power was applied
          table,    \* the table in RAM
          durable,  \* the table the client was last told is stored
          maybe     \* tables of unacknowledged commits that may be stored

storeVars == <<up, table, durable, maybe>>

StoreInit == /\ up = FALSE
             /\ table = Empty
             /\ durable = Empty
             /\ maybe = {}

\* set_*, erase: only RAM changes.
Edit == /\ up
        /\ table' \in Tables
        /\ UNCHANGED <<up, durable, maybe>>

\* A commit begins, or ends with an error.
Attempt == /\ up
           /\ maybe' \in SUBSET (maybe \cup {table})
           /\ UNCHANGED <<up, table, durable>>

\* A commit that returned ok.
Acknowledge == /\ up
               /\ durable' = table
               /\ maybe' = {}
               /\ UNCHANGED <<up, table>>

Restore == /\ up' = TRUE
           /\ durable' \in {durable} \cup maybe
           /\ table' = durable'
           /\ maybe' = {}

LosePower == /\ up' = FALSE
             /\ table' = Empty
             /\ maybe' \in SUBSET maybe
             /\ UNCHANGED durable

StoreNext == Edit \/ Attempt \/ Acknowledge \/ Restore \/ LosePower

StoreSpec == StoreInit /\ [][StoreNext]_storeVars
==============================================================================
