--------------------------- MODULE MCLocalListing ---------------------------
EXTENDS LocalListing

\* "." < "/" < "a" < "b"
Dot == 1
SlashRank == 2
A == 3
B == 4

InternalName == <<Dot>>
HiddenFiles == {<<InternalName, <<A>>>>}
TempFiles == {<<<<A, B, Dot>>>>}
Root == <<>>

\* a/a, a/b, ab, b/b: no name goes on with a character before "/" where
\* another one ends.
PlainKeys == {<<<<A>>, <<A>>>>, <<<<A>>, <<B>>>>, <<<<A, B>>>>, <<<<B>>, <<B>>>>}

\* a/a, a/b, a.b: "a.b" comes after "a/..." in the walk, before it as a string.
DottedKeys == {<<<<A>>, <<A>>>>, <<<<A>>, <<B>>>>, <<<<A, Dot, B>>>>}

ASSUME Keys = PlainKeys => OrdersAgree
=============================================================================
