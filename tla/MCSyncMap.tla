------------------------------ MODULE MCSyncMap ------------------------------
(* SyncMap with calls that never end.  A run calls the operations of one of  *)
(* the Mixes, so that several are explored apart in one run.                 *)
EXTENDS SyncMap

Mixes == {{"Swap", "LoadAndDelete", "Range"}, {"LoadOrStore", "CompareAndSwap"}}

VARIABLE mix

MCInit == Init /\ mix \in Mixes
MCNext == /\ Next /\ UNCHANGED mix
          /\ \A p \in Proc : req'[p].kind \in mix \cup {NoRequest.kind}

\* The fairness is that of FairSpec: what is filtered out is the beginning of a
\* call, which nobody has to make.
MCSpec == /\ MCInit /\ [][MCNext]_<<vars, mix>>
          /\ \A p \in Proc : WF_vars(Step(p) \/ Return(p))
=============================================================================
