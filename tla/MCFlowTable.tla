---------------------------- MODULE MCFlowTable ----------------------------
(* Three or four records for FlowTable, two of them of the same time.       *)
EXTENDS FlowTable

CONSTANTS f1, f2, f3, f4

Three == {f1, f2, f3}
Four  == {f1, f2, f3, f4}

\* What they hold in packet capture; one of them neither a packet nor a plaintext.
Kinds == (f1 :> "plaintext") @@ (f2 :> "wire") @@ (f3 :> "plaintext") @@ (f4 :> "bare")

KindsOfThree == (f1 :> "plaintext") @@ (f2 :> "wire") @@ (f3 :> "plaintext")

Keep == [flows |-> 2, wire |-> 1, plaintext |-> 1]

Times == (f1 :> 1) @@ (f2 :> 2) @@ (f3 :> 2) @@ (f4 :> 3)

TimesOfThree == (f1 :> 1) @@ (f2 :> 2) @@ (f3 :> 2)

\* Live regexes: one that only the oldest and the newest record match.
OldestAndNewest == { {f1, f4} }
=============================================================================
