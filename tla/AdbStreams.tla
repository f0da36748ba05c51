---- MODULE AdbStreams ----
(***************************************************************************)
(* What an AdbStream promises its user (AdbStream.read and AdbStream.write *)
(* of openhtf/plugs/usb/adb_protocol.py), without messages, queues or      *)
(* locks: reads return the units 1, 2, ... the device sent, in order and   *)
(* each once, and a write that returns was acknowledged by the device.     *)
(***************************************************************************)
EXTENDS Naturals, Sequences

CONSTANTS Streams, MaxData

VARIABLES
  sent,     \* sent[s]: units the device has sent on stream s
  got,      \* got[s]: what reads of s have returned so far
  acks,     \* acks[s]: writes on s the device has acknowledged
  written   \* written[s]: writes on s that have returned

vars == <<sent, got, acks, written>>

Init ==
  /\ sent = [s \in Streams |-> 0] /\ got = [s \in Streams |-> <<>>]
  /\ acks = [s \in Streams |-> 0] /\ written = [s \in Streams |-> 0]

\* The device sends the next units.
Sends(s) ==
  /\ \E n \in (sent[s] + 1)..MaxData[s] : sent' = [sent EXCEPT ![s] = n]
  /\ UNCHANGED <<got, acks, written>>

\* read(): at least one of the units not returned yet.
Read(s) ==
  /\ \E n \in (Len(got[s]) + 1)..sent[s] :
       got' = [got EXCEPT ![s] = [k \in 1..n |-> k]]
  /\ UNCHANGED <<sent, acks, written>>

\* The device acknowledges a write.
Acks(s) == acks' = [acks EXCEPT ![s] = @ + 1] /\ UNCHANGED <<sent, got, written>>

\* write() returns.
Write(s) ==
  /\ written[s] < acks[s]
  /\ written' = [written EXCEPT ![s] = @ + 1]
  /\ UNCHANGED <<sent, got, acks>>

Next == \E s \in Streams : Sends(s) \/ Read(s) \/ Acks(s) \/ Write(s)

Spec == Init /\ [][Next]_vars
====
