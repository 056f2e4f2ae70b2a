---------------------------- MODULE UpxPePromise ----------------------------
(***************************************************************************)
(* What `binsight --repair-upx` promises of a PE sample, in one step: the  *)
(* result is Repaired(sample), or the sample is refused because it is not  *)
(* repairable, or memory runs out.  How the header is found is left to     *)
(* UpxPeRepair.                                                            *)
(***************************************************************************)
EXTENDS UpxPe

CONSTANTS
  Packed,      \* the files a packer may have written
  Others,      \* other PE files that binsight may be run on
  MaxTampers   \* bound: how often a sample is tampered with

VARIABLES
  genuine,   \* the file as it was first written
  tampers,   \* how often it has been tampered with
  sample,    \* the input of the current run
  status,    \* "ready", "done", "refused" or "failed"
  result     \* the output of a run that is done

promiseVars == <<genuine, tampers, sample, status, result>>

Init ==
  /\ genuine \in Packed \cup Others
  /\ tampers = 0
  /\ sample = genuine
  /\ status = "ready"
  /\ result = {}

Tamper ==
  /\ status = "ready" /\ tampers < MaxTampers
  /\ genuine \in Packed
  /\ tampers' = tampers + 1
  /\ sample' \in Tamperings(sample, TheOffset(genuine))
  /\ UNCHANGED <<genuine, status, result>>

Refuse ==
  /\ status = "ready"
  /\ \/ status' = "refused" /\ ~Repairable(sample)
     \/ status' = "failed"
  /\ UNCHANGED <<genuine, tampers, sample, result>>

Repair ==
  /\ status = "ready"
  /\ status' = "done"
  /\ Repairable(sample)
  /\ result' = {Repaired(sample)}
  /\ UNCHANGED <<genuine, tampers, sample>>

\* A run on the output of the last one.
Again ==
  /\ status = "done"
  /\ sample' \in result
  /\ status' = "ready"
  /\ result' = {}
  /\ UNCHANGED <<genuine, tampers>>

Next == Tamper \/ Refuse \/ Repair \/ Again

Spec == Init /\ [][Next]_promiseVars
=============================================================================
