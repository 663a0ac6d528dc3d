-------------------------------- MODULE MCPfs --------------------------------
(* Pfs with two names, on either side of the list of names by crc, and *)
(* contents of one and three blocks.                                   *)
EXTENDS Pfs, TLC

CONSTANTS n1, n2, one, two

TwoNames == {n1, n2}
CrcOf == n1 :> 1 @@ n2 :> 3
TwoContents == {one, two}
Sizes == one :> 1 @@ two :> 3
Others == n1 :> one @@ n2 :> two
NoWindows == {}
Unnoticed == {"open", "second"}

==============================================================================
