--------------------------- MODULE MCSmbBlobStore ---------------------------
EXTENDS SmbBlobStore

\* Of a body of three bytes: an inverted range, one that ends inside the body, and
\* one that starts inside it and ends past it.
MCRanges == {<<1, 0>>, <<0, 2>>, <<1, 9>>}
=============================================================================
