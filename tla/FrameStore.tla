----------------------------- MODULE FrameStore -----------------------------
(***************************************************************************)
(* What the receive operator promises its consumer: a bounded FIFO of      *)
(* immutable frames.  Every completed frame gets the next number; a full   *)
(* store refuses the newest frame, the governor may shed the oldest one,   *)
(* and what is delivered is exactly what was completed, in order.          *)
(***************************************************************************)
EXTENDS Naturals, Sequences

CONSTANTS Depth,   \* frames the store holds
          Images,  \* contents a frame can have
          Shedding \* the oldest frame may be shed

VARIABLES made,    \* frames completed so far
          store,   \* frames waiting, oldest first
          last     \* the frame delivered last, <<>> before the first

storeVars == <<made, store, last>>

Init == made = 0 /\ store = <<>> /\ last = <<>>

\* A frame is completed: kept, or refused by a full store.
Complete ==
  \E img \in Images :
    LET frame == [num |-> made, image |-> img] IN
    /\ made' = made + 1
    /\ \/ /\ Len(store) < Depth
          /\ store' = Append(store, frame)
       \/ /\ Len(store) = Depth
          /\ store' = store
       \/ /\ Shedding /\ Len(store) >= 2
          /\ store' = Append(Tail(store), frame)
    /\ UNCHANGED last

Deliver ==
  /\ store # <<>>
  /\ last' = Head(store)
  /\ store' = Tail(store)
  /\ UNCHANGED made

Next == Complete \/ Deliver
Spec == Init /\ [][Next]_storeVars
=============================================================================
