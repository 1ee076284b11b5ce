-------------------------- MODULE MCLocalStreaming --------------------------
EXTENDS LocalStreaming, TLC

\* A range clamped to the object, one that ends before it does, one that starts
\* at its end or beyond, one inverted.
MCRanges == {<<0, 2>>, <<0, 0>>, <<1, 2>>, <<1, 0>>}

MCSymmetry == Permutations(Uploaders)
=============================================================================
