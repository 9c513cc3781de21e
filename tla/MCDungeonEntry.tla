--------------------------- MODULE MCDungeonEntry ---------------------------
(* Bounds for DungeonEntry: two connections, of two accounts or of one that *)
(* displaces the other, and one or two workers.                             *)
EXTENDS DungeonEntry, TLC

CONSTANTS c1, c2, ann, bob, w1, w2

TwoConns     == {c1, c2}
OneConn      == {c1}
OtherConn    == {c2}
NoConns      == {}
TwoAccounts  == {ann, bob}
OneEach      == (c1 :> ann) @@ (c2 :> bob)
BothOfAnn    == (c1 :> ann) @@ (c2 :> ann)
OneOfAnn     == (c1 :> ann)
OnceEach     == [c \in Conns |-> 1]
TwiceEach    == [c \in Conns |-> 2]
FirstTwice   == [c \in Conns |-> IF c = c1 THEN 2 ELSE 1]
TwoWorkers   == {w1, w2}
OneWorker    == {w1}
WorkerSymmetry == Permutations(TwoWorkers)
=============================================================================
