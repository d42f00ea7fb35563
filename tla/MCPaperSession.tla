--------------------------- MODULE MCPaperSession ---------------------------
(* PaperSession with the two runners of the book and two prices. *)
EXTENDS PaperSession

CONSTANTS ORB, VWAP

Book == {ORB, VWAP}
BookOrder == <<ORB, VWAP>>
OrbOnly == {ORB}
OrbOrder == <<ORB>>
TwoPrices == {1, 2}
OnePrice == {1}
=============================================================================
