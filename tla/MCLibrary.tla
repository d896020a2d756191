----------------------------- MODULE MCLibrary -----------------------------
EXTENDS Library, TLC

Resolving(h) ==
  [hash |-> h, state |-> "searching", addedAt |-> 1, kind |-> "stream",
   private |-> FALSE, progress |-> 0, targetRatio |-> 0, targetMin |-> 0,
   elapsedMin |-> 0, clients |-> 0, down |-> 0, files |-> << >>]

\* Almost complete, in the eyes of a row: 100%.
Loading(h) ==
  [hash |-> h, state |-> "downloading", addedAt |-> 2, kind |-> "seeding",
   private |-> FALSE, progress |-> 998, targetRatio |-> 1, targetMin |-> 60,
   elapsedMin |-> 0, clients |-> 1, down |-> 7999, files |-> <<FALSE, TRUE>>]

Sharing(h) ==
  [hash |-> h, state |-> "seeding", addedAt |-> 1, kind |-> "seeding",
   private |-> TRUE, progress |-> 999, targetRatio |-> 0, targetMin |-> 60,
   elapsedMin |-> 60, clients |-> 0, down |-> 4, files |-> <<FALSE>>]

\* Shared until a ratio is reached.
Fetching(h) == [Resolving(h) EXCEPT !.state = "fetching", !.kind = "seeding",
                                    !.targetRatio = 1]

MCInfos ==
  UNION {{Resolving(h), Loading(h), Sharing(h), Fetching(h)} : h \in Hashes}

HashSymmetry == Permutations(Hashes)
=============================================================================
