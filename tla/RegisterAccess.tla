---------------------------- MODULE RegisterAccess ----------------------------
(***************************************************************************)
(* What the callers of MrfIo rely on, without commands, transactions and a *)
(* bus: a call that writes or a call that reads, one at a time.  While a   *)
(* write is under way every cell holds what it held or what it shall hold, *)
(* and a read puts its bytes into the buffer at once.                      *)
(***************************************************************************)
EXTENDS Naturals, Sequences

VARIABLES
  busy,      \* whether a call is under way
  memory,    \* the cells of the chip
  buffer,    \* the bytes the last read delivered
  wanted,    \* what memory shall be after the call
  expected   \* what the buffer shall be after the call

access == <<busy, memory, buffer, wanted, expected>>

Init == ~busy /\ wanted = memory /\ expected = buffer

Write ==
  /\ ~busy /\ busy'
  /\ DOMAIN wanted' = DOMAIN memory
  /\ UNCHANGED <<memory, buffer, expected>>

Read ==
  /\ ~busy /\ busy'
  /\ \A i \in 1 .. Len(expected') : \E cell \in DOMAIN memory : expected'[i] = memory[cell]
  /\ UNCHANGED <<memory, buffer, wanted>>

\* A part of what is written, possibly all of it.
Store ==
  /\ busy /\ busy'
  /\ DOMAIN memory' = DOMAIN memory
  /\ \A cell \in DOMAIN memory : memory'[cell] \in {memory[cell], wanted[cell]}
  /\ UNCHANGED <<buffer, wanted, expected>>

Deliver ==
  /\ busy /\ busy'
  /\ buffer' = expected
  /\ UNCHANGED <<memory, wanted, expected>>

Return ==
  /\ busy /\ ~busy'
  /\ memory = wanted
  /\ buffer = expected
  /\ UNCHANGED <<memory, buffer, wanted, expected>>

Next == Write \/ Read \/ Store \/ Deliver \/ Return

Spec == Init /\ [][Next]_access

=============================================================================
