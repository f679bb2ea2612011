----------------------------- MODULE OrderedMap ------------------------------
(***************************************************************************)
(* What a JSON object promises (c_src/json-c/json_object.h): it maps each  *)
(* of its keys to one value, and lists them in the order in which they     *)
(* were first added.  LinkHash is shown to implement it.                   *)
(***************************************************************************)
EXTENDS Naturals, SequencesExt

VARIABLE map        \* the members, as <<key, value>>

KeysOf == {map[i][1] : i \in DOMAIN map}

Init == map = <<>>

Add(k, v) ==
    map' = IF k \in KeysOf
           THEN [i \in DOMAIN map |-> IF map[i][1] = k THEN <<k, v>> ELSE map[i]]
           ELSE Append(map, <<k, v>>)

Del(k) == \E i \in DOMAIN map : map[i][1] = k /\ map' = RemoveAt(map, i)

Delete == map' = <<>>

Next(Keys, Values) ==
    \/ \E k \in Keys : Del(k) \/ \E v \in Values : Add(k, v)
    \/ Delete

=============================================================================
