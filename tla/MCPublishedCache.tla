-------------------------- MODULE MCPublishedCache --------------------------
(* Two handlers and two readers: on one instance, or spread over two.       *)
EXTENDS PublishedCache, TLC

CONSTANTS h1, h2, r1, r2, i1, i2

MCHandlers == {h1, h2}
MCReaders == {r1, r2}
OneHome == [g \in MCHandlers \cup MCReaders |-> i1]
TwoHomes == h1 :> i1 @@ h2 :> i2 @@ r1 :> i1 @@ r2 :> i2
=============================================================================
