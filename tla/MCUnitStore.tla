---------------------------- MODULE MCUnitStore ----------------------------
(* Four units: u1, u2 and u3 have the same source, u1 and u2 share a       *)
(* location.                                                               *)
EXTENDS UnitStore

CONSTANTS u1, u2, u3, u4, File, Quit, Place1, Place2

Attr(source, id, locations) == [source |-> source, id |-> id, locations |-> locations]

DistinctIds ==
  [u \in {u1, u2, u3, u4} |->
     CASE u = u1 -> Attr(File, 1, {Place1})
       [] u = u2 -> Attr(File, 2, {Place1, Place2})
       [] u = u3 -> Attr(File, 3, {})
       [] u = u4 -> Attr(Quit, 4, {Place2})]

ASSUME IdsAreDistinct
=============================================================================
