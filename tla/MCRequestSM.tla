---------------------------- MODULE MCRequestSM ----------------------------
(* Small instances of RequestSM. *)
EXTENDS RequestSM, SequencesExt, TLC

\* Honest nodes are interchangeable: one order for each place of the faulty node.
FaultyPlaces ==
  {CHOOSE o \in Bijection(0 .. N - 1, Nodes) : o[i] \in Faulty : i \in 0 .. N - 1}

\* The beginning 0 is as good as none: it never fails the freshness check.
PeriodsUpToNow ==
  {<<None, None>>, <<None, 0>>, <<None, 1>>, <<1, None>>, <<1, 1>>}

\* Lists of up to two aliases in which no alias is repeated.
DistinctLists ==
  {s \in BoundedSeq(Nodes \cup {Unknown}, 2) : IsInjective(s)}
=============================================================================
