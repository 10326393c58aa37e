------------------------------ MODULE MCXdelta ------------------------------
(* Instances of Xdelta for TLC: ZERO_XML and dumps that list contents in   *)
(* different orders, change, lose and add some; two end in another way.    *)
EXTENDS Xdelta

MCBlobs == {"zero", "p", "q", "r", "x", "y", "z", "end", "END"}

\* xdelta3 finds no delta from nothing, and makes a bad one of x to y.
MCDelta(old, new) ==
    IF old = "" THEN "none" ELSE IF <<old, new>> = <<"x", "y">> THEN "z" ELSE new

Dump(p, contents, e) ==
    <<[key |-> PROLOGUE, blob |-> p]>> \o contents \o <<[key |-> EPILOGUE, blob |-> e]>>
C(id, b) == [key |-> id, blob |-> b]

Zero == <<[key |-> PROLOGUE, blob |-> "zero"]>>
Old == Dump("p", <<C(1, "x"), C(2, "y"), C(3, "z")>>, "end")
Mixed == Dump("q", <<C(3, "z"), C(1, "y"), C(4, "x")>>, "end")
Few == Dump("r", <<C(2, "z"), C(1, "x")>>, "END")
Same == Dump("q", <<C(1, "y"), C(2, "x")>>, "end")

MCFiles == {Zero, Old, Mixed, Few, Same}
MCPairs == {<<Zero, Old>>, <<Old, Mixed>>, <<Mixed, Old>>, <<Few, Same>>, <<Old, Few>>}
=============================================================================
