----------------------------- MODULE PcapJournal -----------------------------
(***************************************************************************)
(* What a packet capture with plaintext correlation promises about its two *)
(* files, whatever the correlation does: packets go to the pcapng once and *)
(* in arrival order; a plaintext is exported once; it may claim a packet   *)
(* that is still unwritten and unclaimed, and that claim is final.         *)
(***************************************************************************)
EXTENDS Naturals, Sequences

VARIABLES
  claims,    \* for each packet accepted, the plaintext that claims it, or Unclaimed
  written,   \* how many of them are in the pcapng
  handed,    \* plaintexts are numbered 1..handed
  exported   \* those in the JSONL

vars == <<claims, written, handed, exported>>

Unclaimed == 0

Init == claims = <<>> /\ written = 0 /\ handed = 0 /\ exported = {}

Accept ==
  /\ claims' = Append(claims, Unclaimed)
  /\ UNCHANGED <<written, handed, exported>>

Write ==
  /\ written < Len(claims)
  /\ written' = written + 1
  /\ UNCHANGED <<claims, handed, exported>>

HandOver ==
  /\ handed' = handed + 1
  /\ UNCHANGED <<claims, written, exported>>

\* A plaintext that cannot claim a packet is exported as it is handed over.
Log ==
  /\ handed' = handed + 1
  /\ exported' = exported \cup {handed + 1}
  /\ UNCHANGED <<claims, written>>

ExportAlone(id) ==
  /\ exported' = exported \cup {id}
  /\ UNCHANGED <<claims, written, handed>>

ExportWithPacket(id, i) ==
  /\ claims[i] = Unclaimed
  /\ claims' = [claims EXCEPT ![i] = id]
  /\ exported' = exported \cup {id}
  /\ UNCHANGED <<written, handed>>

Next ==
  \/ Accept \/ Write \/ HandOver \/ Log
  \/ \E id \in (1..handed) \ exported :
       ExportAlone(id) \/ \E i \in (written + 1)..Len(claims) : ExportWithPacket(id, i)

Spec == Init /\ [][Next]_vars
=============================================================================
