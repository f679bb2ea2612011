------------------------------- MODULE MCTable -------------------------------
(***************************************************************************)
(* The table of a JSON object (LinkHash) whose keys it copies, none being  *)
(* passed as constant memory, and what it promises.                        *)
(***************************************************************************)
EXTENDS Integers, Sequences

CONSTANTS Keys, Values, FirstSize, Hashes

VARIABLES hash, t, heap, refs, badFree, deleted

tableVars == <<hash, t, heap, refs, badFree, deleted>>

Table == INSTANCE LinkHash WITH Constants <- {}

ASSUME TableAssumption == Table!LinkHashAssumption

(* However keys collide, wrap around the end and are deleted in between, a *)
(* lookup finds the entry of a key exactly if it has one, the list goes    *)
(* through all entries both ways, and each key and value the object holds  *)
(* is held once.                                                           *)
MapExact == Table!TypeOK /\ Table!LookupExact /\ Table!Linked /\ Table!Owned

(* An object is an ordered map.                                            *)
ImplementsMap == Table!Map!Init /\ [][Table!Map!Next(Keys, Values)]_(Table!Members)

=============================================================================
