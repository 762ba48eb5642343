---------------------------- MODULE SnapshotLedger ----------------------------
(***************************************************************************)
(* What the snapshot store promises to a reader of results/ (ADR 0005): an *)
(* append-only ledger.  A name goes from free to published once, in one    *)
(* step, with every raw file of exactly one run, and a run publishes at    *)
(* most one name.  How a name is reserved and filled is not visible here.  *)
(***************************************************************************)
EXTENDS Naturals

CONSTANTS Runs, Names, Nobody, NumFiles

VARIABLE published  \* published[n]: the run that owns n and its raw files

Free == [owner |-> Nobody, raw |-> {}]
Whole(r) == [owner |-> r, raw |-> {r} \X (1..NumFiles)]

Init == published = [n \in Names |-> Free]

Publish(n, r) ==
  /\ published[n] = Free
  /\ \A m \in Names : published[m].owner # r
  /\ published' = [published EXCEPT ![n] = Whole(r)]

Next == \E n \in Names, r \in Runs : Publish(n, r)

Spec == Init /\ [][Next]_published
=============================================================================
