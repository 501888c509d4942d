------------------------------ MODULE MCLibrary ------------------------------
(* Two or three files in one or two folders; a guest artist who appears on  *)
(* another's album, and an album of his own.                                *)
EXTENDS Library, TLC

CONSTANTS f1, f2, f3, d1, d2, mary, guy, maryAlbum, guyAlbum

OnMarys == [artist |-> mary, albumArtist |-> None, album |-> maryAlbum]
GuestOnMarys == [artist |-> guy, albumArtist |-> mary, album |-> maryAlbum]
OnGuys == [artist |-> guy, albumArtist |-> None, album |-> guyAlbum]

GuestTags == {OnMarys, GuestOnMarys, OnGuys}
HostTags == {OnMarys, GuestOnMarys}

OneFolder == [f \in Files |-> d1]
TwoAndOne == f1 :> d1 @@ f2 :> d1 @@ f3 :> d2

FileSymmetry == Permutations(Files)
=============================================================================
