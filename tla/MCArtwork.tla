------------------------------ MODULE MCArtwork ------------------------------
(* Two albums and an artist: one album has art of its own and the other only *)
(* what Deezer knows of it, or they are two discs with the same picture.     *)
EXTENDS Artwork, TLC

CONSTANTS a1, a2, x1, i1, i2

OwnArt == a1 :> i1 @@ a2 :> None
SharedArt == a1 :> i1 @@ a2 :> i1
DeezerArt == a1 :> i2 @@ a2 :> i2 @@ x1 :> i1
DeezerPhoto == a1 :> None @@ a2 :> None @@ x1 :> i2
=============================================================================
