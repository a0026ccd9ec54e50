----------------------------- MODULE IntentStore -----------------------------
(***************************************************************************)
(* What the intent cache promises its callers: a lossy map.  It may forget *)
(* connections when another one is recorded, never while one is deleted,   *)
(* and it never answers with anything but the last destination recorded.   *)
(***************************************************************************)
CONSTANTS IKey, Dst, Miss

VARIABLE known      \* known[k]: what Get(k) answers

Init == known = [k \in IKey |-> Miss]

Record(k, d) ==
    /\ known' \in [IKey -> Dst \cup {Miss}]
    /\ known'[k] = d
    /\ \A j \in IKey \ {k} : known'[j] \in {known[j], Miss}

Forget(k) == known' = [known EXCEPT ![k] = Miss]

Next == \E k \in IKey : Forget(k) \/ \E d \in Dst : Record(k, d)

Spec == Init /\ [][Next]_known
=============================================================================
