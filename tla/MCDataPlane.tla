----------------------------- MODULE MCDataPlane -----------------------------
(* Values for the constants of DataPlane.                                  *)
EXTENDS DataPlane

CONSTANTS a1, a2, a3

(* The object, and a prefix of it that somebody else may upload.           *)
ThreeBytes == <<1, 2, 3>>
TwoContents == {ThreeBytes, <<1, 2>>}

(* Two agents may be given the object, one of them something else too.     *)
SomeUploads == {<<a1, <<1, 2>>>>} \cup ({a1, a3} \X {ThreeBytes})

(* The whole object, both ends of it, an empty range and one that is out   *)
(* of bounds by a byte.                                                    *)
SomeRanges == {<<0, 3>>, <<0, 2>>, <<1, 2>>, <<3, 0>>, <<2, 2>>}

=============================================================================
