---------------------------- MODULE SectorStore ----------------------------
(***************************************************************************)
(* What the buffer cache promises to the file system (cache.h): a map from *)
(* sectors to contents that reads and writes go to, in front of a device   *)
(* that lags behind it.  A write-back may bring any sectors of the device  *)
(* up to date at any operation; a sync brings all of them; a process that  *)
(* dies falls back to what the device holds.                               *)
(***************************************************************************)
CONSTANTS Sector, Data

VARIABLES
  store,     \* what a read of each sector returns
  durable,   \* what the device holds
  result     \* what the last read returned to its caller

vars == <<store, durable, result>>

Init ==
  /\ durable \in [Sector -> Data]
  /\ store = durable
  /\ result \in Data

\* The device only ever receives contents that a read would have returned.
WriteBack ==
  \E W \in SUBSET Sector :
    durable' = [s \in Sector |-> IF s \in W THEN store[s] ELSE durable[s]]

Read(s) ==
  /\ result' = store[s]
  /\ WriteBack
  /\ UNCHANGED store

Write(s, d) ==
  /\ store' = [store EXCEPT ![s] = d]
  /\ WriteBack
  /\ UNCHANGED result

Sync ==
  /\ durable' = store
  /\ UNCHANGED <<store, result>>

Crash ==
  /\ store' = durable
  /\ UNCHANGED <<durable, result>>

Next ==
  \/ \E s \in Sector : Read(s)
  \/ \E s \in Sector, d \in Data : Write(s, d)
  \/ Sync
  \/ Crash

Spec == Init /\ [][Next]_vars
=============================================================================
