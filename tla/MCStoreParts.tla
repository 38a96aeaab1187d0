---------------------------- MODULE MCStoreParts ----------------------------
(* StoreParts for TLC: three revisions, two adapters of one device.        *)
EXTENDS StoreParts, TLC

CONSTANTS r1, r2, r3, a1, a2, fx, dev1, dev2

MCMeta == [r \in Revision |-> [design |-> "d", conditions |-> "c", tool |-> IF r = r3 THEN "t2" ELSE "t1"]]
MCFindings ==
    LET F(path, n, slack) == [path |-> path, n |-> n, slack |-> slack] IN
       r1 :> {F("p", 1, -1), F("p", 2, 1), F("q", 1, 1)}
    @@ r2 :> {F("p", 1, -2), F("q", 1, -1), F("q", 2, -2), F("s", 1, -1), F("t", 1, 0)}
    @@ r3 :> {F("p", 1, -1)}
MCResourceOf == a1 :> dev1 @@ a2 :> dev1 @@ fx :> dev2
=============================================================================
