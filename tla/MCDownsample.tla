---------------------------- MODULE MCDownsample ----------------------------
(* TLC instance of Downsample: an asset with an image and its tex, and one   *)
(* whose only image comes without the tex its config names.                  *)
EXTENDS AssetLibrary, TLC
CONSTANTS a1, a2

TwoAssets == {a1, a2}
TwoRecords == a1 :> <<<<"img", 1>>, <<"tex", 1>>>> @@ a2 :> <<<<"img", 1>>, <<"tex", 1>>>>
NoTex == a1 :> {} @@ a2 :> {<<"tex", 1>>}

CommandsSpec == Commands!Spec
=============================================================================
