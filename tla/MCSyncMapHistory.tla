-------------------------- MODULE MCSyncMapHistory --------------------------
(* Keys and goroutines play the same part in SyncMapHistory too.  A run      *)
(* calls the operations of one of the Mixes, so that both are explored apart *)
(* in one run: together they have too many states.                           *)
EXTENDS SyncMapHistory, TLC

Mixes == {{"Load", "Swap", "LoadAndDelete", "Range"},
          {"LoadOrStore", "CompareAndSwap", "CompareAndDelete"}}

VARIABLE mix

MCInit == HInit /\ mix \in Mixes
MCNext == /\ HNext /\ UNCHANGED mix
          /\ \A p \in Proc : req'[p].kind \in mix \cup {NoRequest.kind}
MCSpec == MCInit /\ [][MCNext]_<<hvars, mix>>

Symmetry == Permutations(Proc) \cup Permutations(Key)
=============================================================================
