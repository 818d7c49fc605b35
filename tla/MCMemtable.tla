----------------------------- MODULE MCMemtable -----------------------------
(* Instances of Memtable for TLC.  A key and a value are named by their    *)
(* length, so KeyLen and ValLen are identities; the records of keys 1 and  *)
(* 2 with values 1 and 3 have 15 to 18 bytes, their tombstones 10 and 11.  *)
(* A ramMaxSize of 35 is what two long values come to, and all other pairs *)
(* stay below it; one of 16 is what a value of key 2 comes to.             *)
EXTENDS Memtable

LengthOfKey == [k \in Keys |-> k]
LengthOfValue == [v \in Values |-> v]

On == [walEnabled |-> TRUE, ramMaxSize |-> 35, localDisk |-> TRUE]
OnTight == [walEnabled |-> TRUE, ramMaxSize |-> 16, localDisk |-> TRUE]
Off == [walEnabled |-> FALSE, ramMaxSize |-> 35, localDisk |-> TRUE]
Remote == [walEnabled |-> TRUE, ramMaxSize |-> 35, localDisk |-> FALSE]

JustOn == {On}
OnOrTight == {On, OnTight}
OnOrOff == {On, Off}
OnOffOrTight == {On, Off, OnTight}
OnOffOrRemote == {On, Off, Remote}
NoReload == {}
=============================================================================
