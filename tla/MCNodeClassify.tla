--------------------------- MODULE MCNodeClassify ---------------------------
(* Pins a, b and e and wires c and d on a grid of three by three places.   *)
EXTENDS NodeClassify, TLC

CONSTANTS a, b, c, d, e

MCNodes == {a, b, c, d, e}

Pip(tile, from, to, kind) == [tile |-> tile, from |-> from, to |-> to, kind |-> kind]

(* One tile for each place but the corner.                                 *)
Place(t) == <<t % 3, t \div 3>>

At(ts) == [t \in ts |-> Place(t)]

(* A wire c in any of the tiles, joined in the first of them to a pin a    *)
(* whose site may be in any other, and to a pin b.                         *)
Shapes ==
  {[wires |-> (a :> At({first, s})) @@ (b :> At({first})) @@ (c :> At(ts))
                @@ (d :> At({first})) @@ (e :> At({first})),
    site |-> (a :> s) @@ (b :> first) @@ (c :> 0) @@ (d :> 0) @@ (e :> first),
    pips |-> {Pip(first, a, c, "plain"), Pip(first, c, b, "plain")}] :
   <<ts, first, s>> \in {k \in (SUBSET (1 .. 8)) \X (1 .. 8) \X (1 .. 8) :
                           k[2] \in k[1] /\ \A t \in k[1] : k[2] <= t}}

MCPips ==
  {Pip(4, a, c, "plain"), Pip(4, a, d, "plain"), Pip(4, c, d, "plain"), Pip(4, c, b, "plain"),
   Pip(4, a, b, "plain"), Pip(4, a, b, "pad"), Pip(4, a, c, "padout"), Pip(4, a, d, "padout"),
   Pip(8, d, c, "plain"), Pip(8, d, e, "plain"), Pip(8, c, e, "plain"), Pip(8, c, e, "pseudo")}

(* Tile 4 was split: the site of a is moved up, and c with it or not.      *)
Graphs ==
  {v \in {[wires |-> (a :> (4 :> <<1, 2>>)) @@ (b :> At({4}))
                       @@ (c :> ((4 :> k[2]) @@ At({8}))) @@ (d :> At({4, 8})) @@ (e :> At({8})),
           site |-> (a :> 4) @@ (b :> 4) @@ (c :> 0) @@ (d :> 0) @@ (e :> 8),
           pips |-> k[1]] :
          k \in {l \in (SUBSET MCPips) \X {<<1, 1>>, <<1, 2>>} : Cardinality(l[1]) \in 1 .. 5}} :
     PinsAsInDevices(v)}

MCDevices == Shapes \union Graphs
=============================================================================
