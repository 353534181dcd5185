------------------------- MODULE MCWirePacketBuffer -------------------------
(* Small agents' inputs for WirePacketBuffer: a server with two clients.    *)
EXTENDS WirePacketBuffer

CONSTANTS ClientA, ClientB, Server

Everyone == {ClientA, ClientB, Server}

Wire(src, sport, dst, dport, time) ==
  [src |-> src, sport |-> sport, dst |-> dst, dport |-> dport, time |-> time,
   plen |-> 20, pod |-> "none"]

Text(src, sport, dst, dport, dir, kernel) ==
  [src |-> src, sport |-> sport, dst |-> dst, dport |-> dport, dir |-> dir,
   time |-> 10, len |-> 20, tls |-> "openssl", kernel |-> kernel]

NoFilters == [ports |-> {}, peerIPs |-> {}, peerNets |-> {}]

\* The request of each client and the reply to A; the agents' clocks agree.
TwoClients ==
  { Wire(ClientA, 1, Server, 443, 10),
    Wire(ClientB, 2, Server, 443, 10),
    Wire(Server, 443, ClientA, 1, 8) }

\* Captured in client A and verified by the kernel: its write and its read.
VerifiedTexts ==
  { Text(ClientA, 1, Server, 443, "write", TRUE),
    Text(ClientA, 1, Server, 443, "read", TRUE) }

\* Captured in the server by an older agent, which knows the local endpoint only
\* of a read, and of a write a tuple that the kernel did not verify.
PartialRead == Text(Server, 443, NoIP, NoPort, "read", FALSE)

Unverified == Text(ClientA, 1, Server, 443, "write", FALSE)

VerifiedAndNot == VerifiedTexts \cup { Unverified }

\* As the unit tests of the buffer do: a partial read handed to it directly.
PartialOnly == {PartialRead}

\* One connection: who matches whom matters less here.
RequestAndReply == { Wire(ClientA, 1, Server, 443, 10), Wire(Server, 443, ClientA, 1, 8) }
OneWrite   == { Text(ClientA, 1, Server, 443, "write", TRUE) }
=============================================================================
