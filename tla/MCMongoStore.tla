---------------------------- MODULE MCMongoStore ----------------------------
(* Instances of MongoStore for TLC.                                        *)
EXTENDS MongoStore, TLC

CONSTANTS t1, t2, p1, p2

\* The collections the requests of an instance tell apart, in the order of
\* _persist_mongo.
GraphOrder    == <<"projects", "nodes">>
DocumentOrder == <<"projects", "nodes", "documents">>

OneProject  == {p1}
TwoProjects == {p1, p2}
ThreadSymmetry == Permutations(Threads)
=============================================================================
