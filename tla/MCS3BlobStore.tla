--------------------------- MODULE MCS3BlobStore ----------------------------
(* Two keys under the prefix "p"; others keep "q/a" and "pq/a" in the bucket. *)
EXTENDS S3BlobStore

MCKeys == {<<"a">>, <<"b">>}
MCPrefix == <<"p">>
MCForeign == {<<"q", "/", "a">>, <<"p", "q", "/", "a">>}
MCRanges == {<<1, 0>>, <<0, 0>>, <<1, 9>>}
MCSymmetry == Permutations(Calls)
=============================================================================
