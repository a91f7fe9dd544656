----------------------------- MODULE ChannelPool -----------------------------
(***************************************************************************)
(* What the DMA resource management of the data movement group promises,   *)
(* with no data structure: every cell has one owner, cells change hands    *)
(* only through a release, and a handle takes all it needs in one block.   *)
(* MovPool, the code's bookkeeping, is shown to implement this module.     *)
(***************************************************************************)
EXTENDS Integers

CONSTANTS
  Handle,    \* whoever may hold channels
  Cell,      \* the numbered resources
  Free,      \* owner of a cell that may be taken
  Outside    \* owner of a cell that was never given to the library

VARIABLE owner

Owned(h) == {c \in Cell : owner[c] = h}

FreeCells == {c \in Cell : owner[c] = Free}

Init == owner \in [Cell -> {Free, Outside}]

(* The application hands the library a set of cells, before any is taken. *)
Assign(S) ==
  /\ \A h \in Handle : Owned(h) = {}
  /\ owner' = [c \in Cell |-> IF c \in S THEN Free ELSE owner[c]]

(* A handle with nothing takes one block of consecutive free cells. *)
Take(h, first, last) ==
  /\ Owned(h) = {}
  /\ first .. last \subseteq FreeCells
  /\ owner' = [c \in Cell |-> IF c \in first .. last THEN h ELSE owner[c]]

(* A handle gives back everything it has. *)
Give(h) ==
  owner' = [c \in Cell |-> IF owner[c] = h THEN Free ELSE owner[c]]

Next ==
  \/ \E S \in SUBSET Cell : Assign(S)
  \/ \E h \in Handle, first \in FreeCells : \E last \in FreeCells : Take(h, first, last)
  \/ \E h \in Handle : Give(h)

Spec == Init /\ [][Next]_owner
=============================================================================
