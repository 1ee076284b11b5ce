-------------------------- MODULE MCLocalBlobStore --------------------------
EXTENDS LocalBlobStore, TLC

\* One range inside every body, one past the end of short ones, one inverted.
MCRanges == {<<0, 1>>, <<1, 2>>, <<1, 0>>}

MCSymmetry == Permutations(Calls) \cup Permutations(Keys)
=============================================================================
