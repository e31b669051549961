--------------------------- MODULE MCMapEntities ---------------------------
EXTENDS MapEntities

CONSTANTS o1, o2

\* The second objective follows the first, if that one did not fail.
MCNextObj == [o \in Objs |-> IF o = o1 THEN o2 ELSE None]
MCMapSets == {<<o1, "completed">>}

MCScripted == {<<1, TRUE>>}

MCAltObj == [o \in Objs |-> None]
=============================================================================
