-------------------------- MODULE MCStorageService --------------------------
(* File names with and without an extension, with blanks, separators, NUL,  *)
(* upper case and the suffix of temporary files.                            *)
EXTENDS StorageService

MCFileNames ==
  {<<"a", ".", "A">>, <<"a", ".", ".">>, <<"a", ".", "/">>, <<"/", ".", "BLANK", "A", "BLANK">>,
   <<".", "BLANK">>, <<".", "\\", "a">>, <<".", "a", "NUL">>, <<"a", ".", "UPLOADING">>, <<"/">>}
MCRanges == {<<1, 0>>, <<1, 1>>, <<1, 2>>, <<0, 2>>, <<1, 9>>, <<4, 5>>}
MCSymmetry == Permutations(Calls)
=============================================================================
