---------------------------- MODULE Dictionary -----------------------------
(***************************************************************************)
(* What a string map promises its caller (include/htils/stringmap.h): an   *)
(* insert changes the value of its key and of no other, and says whether   *)
(* the key was there; what is reported killed was there and is gone; what  *)
(* is returned is the value last inserted.  A kill or a get may miss a key *)
(* that is there: the header promises more, and StringMap states it.       *)
(***************************************************************************)
CONSTANTS Keys, Values, Null

VARIABLES dict,     \* the value of every key, Null when it is absent
          result    \* the key of the last call, and what it returned

Init == dict = [k \in Keys |-> Null] /\ result = <<Null, Null>>

Insert(k, v) ==
    /\ dict' = [dict EXCEPT ![k] = v]
    /\ result' = <<k, IF dict[k] = Null THEN "CREATED" ELSE "UPDATED">>

Kill(k) ==
    /\ dict[k] # Null
    /\ dict' = [dict EXCEPT ![k] = Null]
    /\ result' = <<k, "KILLED">>

Miss(k, r) == dict' = dict /\ result' = <<k, r>>

Get(k) == dict' = dict /\ result' = <<k, dict[k]>>

Next ==
    \/ \E k \in Keys, v \in Values : Insert(k, v)
    \/ \E k \in Keys : Kill(k) \/ Miss(k, "NOT_FOUND") \/ Get(k) \/ Miss(k, Null)

Spec == Init /\ [][Next]_<<dict, result>>
=============================================================================
