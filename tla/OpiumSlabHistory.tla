-------------------------- MODULE OpiumSlabHistory --------------------------
(***************************************************************************)
(* OpiumSlab with a history variable: whether, so far, every bit of a mask *)
(* told what the client holds and everything it holds was mapped.          *)
(***************************************************************************)
EXTENDS OpiumSlab

VARIABLE pristine

HistoryInit == Init /\ pristine = TRUE
HistoryNext == Next /\ pristine' = (pristine /\ MaskShowsHeld' /\ HeldIsMapped')
HistorySpec == HistoryInit /\ [][HistoryNext]_<<vars, pristine>>

\* With chunks of several pages all that goes wrong starts with a bit that
\* stays 1 after its object was freed (the last branch but one of
\* opium_slab_free): before that, lists, counts and traversal are exact.
ExactUntilStale ==
  pristine => ListsSortByFill /\ RefcountCountsPages /\ UsedCountsHeld /\ TraverseReachesHeld

=============================================================================
