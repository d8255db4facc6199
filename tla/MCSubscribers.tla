---------------------------- MODULE MCSubscribers ----------------------------
(* A small instance of Subscribers for TLC. *)
EXTENDS Subscribers

MCBuckets == {"b", "d"}
MCPopulated == {<<>>, <<Bucket("b"), Collection, Group, Record("r")>>}
MCJoining == {CHOOSE m \in Members : TRUE}
MCSettings ==
    LET default == [explicit |-> TRUE, trimMax |-> 0, threshold |-> 0, trimUsers |-> {},
                    excludedUsers |-> {}, excluded |-> {}]
    IN {default,
        [default EXCEPT !.explicit = FALSE],
        [default EXCEPT !.trimMax = 1, !.threshold = 1],
        [default EXCEPT !.trimMax = 1, !.trimUsers = {"bot"}, !.excluded = {Record("r")}]}
=============================================================================
