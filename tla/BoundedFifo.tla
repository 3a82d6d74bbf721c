----------------------------- MODULE BoundedFifo -----------------------------
(***************************************************************************)
(* What the frame packet channel promises: packets leave in the order they *)
(* were accepted, each exactly once, at most Capacity are held, nothing is *)
(* accepted after the close and nothing accepted is lost by it.            *)
(***************************************************************************)
EXTENDS Naturals, Sequences

CONSTANTS Packets, Capacity

VARIABLES fifo, closed

vars == <<fifo, closed>>

Init == fifo = <<>> /\ closed = FALSE

Put(p) == /\ ~closed /\ Len(fifo) < Capacity
          /\ fifo' = Append(fifo, p)
          /\ UNCHANGED closed

Get == /\ fifo # <<>>
       /\ fifo' = Tail(fifo)
       /\ UNCHANGED closed

Close == closed' = TRUE /\ UNCHANGED fifo

Next == (\E p \in Packets : Put(p)) \/ Get \/ Close

Spec == Init /\ [][Next]_vars

=============================================================================
