----------------------------- MODULE ReviewLog -----------------------------
(***************************************************************************)
(* What the review store promises about the decisions people make: they    *)
(* form a log that only grows, one decision at a time, and a decision that *)
(* was acknowledged is never lost.  One that was not (the save failed or   *)
(* the machine stopped before it answered) may vanish or stay.             *)
(* (docs/design/2026-10-22-shared-review-decisions-design.md, FR-5, and    *)
(* the head of crates/mct-index/src/reviews/store.rs.)                     *)
(***************************************************************************)
EXTENDS Naturals, Sequences

CONSTANT Events

VARIABLES log, acked      \* the decisions, and how many were acknowledged

Init == log = <<>> /\ acked = 0

Decide == \E e \in Events : log' = Append(log, e) /\ UNCHANGED acked

Acknowledge == acked' = Len(log) /\ UNCHANGED log

Vanish == \E n \in acked .. Len(log) : log' = SubSeq(log, 1, n) /\ UNCHANGED acked

Next == Decide \/ Acknowledge \/ Vanish

Spec == Init /\ [][Next]_<<log, acked>>
=============================================================================
