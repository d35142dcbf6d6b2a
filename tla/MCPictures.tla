----------------------------- MODULE MCPictures -----------------------------
EXTENDS Pictures
(* Each has a screen below what the saver clamps it to.                     *)
MCPipesSizes == {<<8, 9>>, <<10, 33>>, <<10, 51>>, <<20, 18>>}
MCTrainSizes == {<<9, 10>>, <<14, 7>>}
MCBoxSizes == {<<4, 6>>, <<3, 5>>, <<5, 8>>, <<2, 9>>, <<6, 3>>}
=============================================================================
