------------------------------- MODULE MCContent -------------------------------
EXTENDS Content, TLC

\* The uploads are also the searches and the versions, the users also the payloads: since
\* one component runs at a time, its values need no others.
Symm == Permutations(Uploads) \cup Permutations(Users)

\* Of what an endpoint can be, all there is.
AllEndpoints ==
  [configured : BOOLEAN, external : BOOLEAN, url : BOOLEAN, addresses : SUBSET {"internal", "public"}]

\* No list, or one with too little, of substance; only fillers; both.
SomeShapes == {<<3, 0>>, <<0, 1>>, <<1, 0>>, <<2, 2>>}
SomeNotes == {<<100, 0>>, <<0, 100>>, <<50, 0>>, <<50, 50>>}
=============================================================================
