-------------------------------- MODULE MCRx --------------------------------
(* Rx for TLC: three datagrams of two fragments, the second without a UDP    *)
(* checksum, one that fits a frame, and one in a frame that is too long.     *)
(* The rings are small enough to wrap: frames of three and four words, each  *)
(* with its header, in sixteen words.                                        *)
EXTENDS Rx, TLC

CONSTANTS a, b, c, e, g

MCCount == a :> 2 @@ b :> 2 @@ c :> 2 @@ e :> 1 @@ g :> 1
MCSummed == {a, c, e, g}
MCShape(f) == [words |-> IF f.d = b THEN 4 ELSE 3, ragged |-> f.d = b, long |-> f.d = g]
MCNoDgram == [d |-> None, intact |-> FALSE]

(* Two datagrams at once; three for two slots; a whole one, and a long one,  *)
(* among fragments.                                                          *)
F(d, k) == [d |-> d, k |-> k]
MCLoads == {{F(a, 0), F(a, 1), F(b, 0), F(b, 1)},
            {F(a, 0), F(b, 0), F(c, 0)},
            {F(a, 0), F(a, 1), F(e, 0)},
            {F(a, 0), F(e, 0), F(g, 0)}}
=============================================================================
