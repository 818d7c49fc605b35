----------------------------- MODULE MCLogParser ----------------------------
(* Instances of LogParser for TLC: a key that is a prefix of another, bytes   *)
(* that look like lengths, flags or tombstones, and metadata in all shapes.   *)
EXTENDS LogParser, TLC

MCLogKeys == {<<1>>, <<1, 0>>, <<255>>}

MCLogEntries ==
  {Tombstone}
  \cup [value : {<<>>, <<255>>, <<1, 0>>}, meta : {NoMeta}]
  \cup [value : {<<1>>},
        meta : {<<>>,
                (<<97>> :> [raw |-> <<>>, type |-> 0]),
                (<<97>> :> [raw |-> <<0, 1>>, type |-> 9]) @@ (<<>> :> [raw |-> <<255>>, type |-> 3])}]
=============================================================================
