---------------------------- MODULE PacketQueue ----------------------------
(***************************************************************************)
(* What a transmit ring promises to the network stack, whatever the ring,  *)
(* the DMA channel and the interrupts behind it do: the packets it has     *)
(* accepted go out once each and in the order they were accepted, unless   *)
(* the device is reset and all of them are dropped together.               *)
(***************************************************************************)
EXTENDS Naturals, Sequences

CONSTANTS Packets,      \* what can be sent
          Capacity      \* most packets the ring holds at a time

VARIABLES queue,        \* accepted and not sent yet, oldest first
          resets        \* how often the device was reset

vars == <<queue, resets>>

Init == queue = <<>> /\ resets = 0

Accept(p) ==
    /\ Len(queue) < Capacity
    /\ \A i \in 1 .. Len(queue) : queue[i] # p
    /\ queue' = Append(queue, p)
    /\ UNCHANGED resets

Send == queue # <<>> /\ queue' = Tail(queue) /\ UNCHANGED resets

DropAll == queue' = <<>> /\ resets' = resets + 1

Next == (\E p \in Packets : Accept(p)) \/ Send \/ DropAll

Spec == Init /\ [][Next]_vars

=============================================================================
