---------------------------- MODULE MCKeyGroups ----------------------------
(***************************************************************************)
(* Instances of KeyGroups for TLC.                                         *)
(***************************************************************************)
EXTENDS KeyGroups

\* Two keys of one group, and a group for each other key.  Group 1 is called "overflow".
MCGroup == [k \in Keys |-> CASE k = "a1" -> 2 [] k = "a2" -> 2 [] k = "b" -> 1 [] k = "c" -> 3]

\* Database 0 holds a1 and any of the other keys; the other one holds two keys.
MCStores ==
    {s \in [Dbs -> [Keys -> Usages \cup {0}]] :
        /\ s[0]["a1"] = 1 /\ s[0]["c"] # 2
        /\ \A d \in Dbs \ {0}, k \in Keys : s[d][k] = IF k \in {"a1", "b"} THEN 1 ELSE 0}
=============================================================================
