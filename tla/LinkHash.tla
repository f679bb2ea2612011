------------------------------ MODULE LinkHash -------------------------------
(***************************************************************************)
(* The hash table of c_src/json-c/linkhash.c under the members of a JSON   *)
(* object (json_object_object_add, _add_ex, _del and _get_ex of            *)
(* json_object.c): open addressing with marks for deleted entries, a       *)
(* doubly linked list through the entries in the order they were added,    *)
(* and a table of twice the size when it is two thirds full.               *)
(*                                                                         *)
(* Entries are named by their index, as the pointers to them stand for.    *)
(***************************************************************************)
EXTENDS Integers, SequencesExt

CONSTANTS
    Keys, Values,
    FirstSize,      \* JSON_OBJECT_DEF_HASH_ENTRIES: 16
    Hashes,         \* the hash functions
    Constants       \* the keys passed with JSON_C_OBJECT_KEY_IS_CONSTANT

EMPTY == "empty"
FREED == "freed"
NULL == -1

LinkHashAssumption ==
    /\ FirstSize \in Nat \ {0, 1}
    /\ Hashes \subseteq [Keys -> Nat]
    /\ Constants \subseteq Keys
    /\ EMPTY \notin Keys /\ FREED \notin Keys

VARIABLES
    hash,           \* hash_fn
    t,              \* the table
    heap,           \* the keys strdup has copied
    refs,           \* the references to values given to the object and not put
    badFree,        \* a key was freed that was not allocated
    deleted         \* the object is gone

vars == <<hash, t, heap, refs, badFree, deleted>>

Unused(slot) == slot.k \in {EMPTY, FREED}
Slot(k, v, constant) ==
    [k |-> k, v |-> v, k_is_constant |-> constant, next |-> NULL, prev |-> NULL]
NoValue == "none"

NewTable(size) ==
    [size |-> size, count |-> 0, head |-> NULL, tail |-> NULL,
     table |-> [n \in 0 .. size - 1 |-> Slot(EMPTY, NoValue, FALSE)]]

Init ==
    /\ hash \in Hashes
    /\ t = NewTable(FirstSize)
    /\ heap = {} /\ badFree = FALSE
    /\ refs = [v \in Values |-> 0]
    /\ deleted = FALSE

-----------------------------------------------------------------------------
(* The entry met after j steps from where h leads, which go on from the    *)
(* last entry to the first; and the entry of S that is met first, NULL if  *)
(* there is none.                                                          *)
Probed(tab, h, j) ==
    LET n == (h % tab.size) + j IN IF n < tab.size THEN n ELSE n - tab.size

Probe(tab, h, S) ==
    LET hits == {j \in 0 .. tab.size - 1 : Probed(tab, h, j) \in S}
    IN  IF hits = {} THEN NULL
        ELSE Probed(tab, h, CHOOSE j \in hits : \A m \in hits : j <= m)

(* lh_table_lookup_entry stops at an empty entry, not at a freed one.      *)
(* Preceded by a variant that stops at both.                               *)
StopsAtUnused(slot) == Unused(slot)
StopsAt(slot) == slot.k = EMPTY

Lookup(tab, k) ==
    LET stops == {m \in DOMAIN tab.table : tab.table[m].k = k \/ StopsAt(tab.table[m])}
        n == Probe(tab, hash[k], stops)
    IN  IF n # NULL /\ tab.table[n].k = k THEN n ELSE NULL

(* lh_table_insert_w_hash without the resizing: the first unused entry,    *)
(* linked behind the tail.  Preceded by a variant without the link back.   *)
LinkForward(tab, n) == [tab EXCEPT !.tail = n, !.table[tab.tail].next = n]
LinkLast(tab, n) ==
    [tab EXCEPT !.tail = n, !.table[tab.tail].next = n, !.table[n].prev = tab.tail]

Place(tab, k, v, constant) ==
    LET n == Probe(tab, hash[k], {m \in DOMAIN tab.table : Unused(tab.table[m])})
        filled == [tab EXCEPT !.table[n] = Slot(k, v, constant), !.count = @ + 1]
    IN  IF tab.head = NULL
        THEN [filled EXCEPT !.head = n, !.tail = n]
        ELSE LinkLast(filled, n)

(* The entries in the order of the list.                                   *)
EntriesOf(tab) ==
    LET from[n \in NULL .. tab.size - 1] ==
            IF n = NULL THEN <<>> ELSE <<n>> \o from[tab.table[n].next]
    IN  from[tab.head]

(* lh_table_resize: every entry goes into a new table by lh_table_insert,  *)
(* which knows of no options.                                              *)
Resize(tab, size) ==
    LET s == EntriesOf(tab)
        moved[i \in 0 .. Len(s)] ==
            IF i = 0 THEN NewTable(size)
            ELSE LET slot == tab.table[s[i]] IN Place(moved[i - 1], slot.k, slot.v, FALSE)
    IN  moved[Len(s)]

Full(tab) == tab.count * 100 >= tab.size * 66

Insert(tab, k, v, constant) ==
    Place(IF Full(tab) THEN Resize(tab, 2 * tab.size) ELSE tab, k, v, constant)

(* lh_table_delete_entry.                                                  *)
Unlink(tab, n) ==
    LET before == tab.table[n].prev
        after == tab.table[n].next
        around(link, m) == IF link = n THEN m ELSE link
    IN  [tab EXCEPT !.count = @ - 1, !.head = around(@, after), !.tail = around(@, before),
            !.table = [m \in DOMAIN tab.table |->
                LET slot == tab.table[m] IN
                IF m = n THEN Slot(FREED, NoValue, slot.k_is_constant)
                ELSE [slot EXCEPT !.next = around(slot.next, after),
                                  !.prev = around(slot.prev, before)]]]

-----------------------------------------------------------------------------
(* json_object_lh_entry_free, of the entries in S.                         *)
Given(S, v) == Cardinality({n \in S : t.table[n].v = v})

FreeEntries(S) ==
    LET keys == {t.table[n].k : n \in {m \in S : ~t.table[m].k_is_constant}} IN
    /\ heap' = heap \ keys
    /\ badFree' = (badFree \/ ~(keys \subseteq heap))
    /\ refs' = [v \in Values |-> refs[v] - Given(S, v)]

(* json_object_object_add_ex: the value of a key that is there is put and  *)
(* replaced; the lookup is left out for a key that is said to be new.      *)
Replaced(v, old) == [w \in Values |-> refs[w] + (IF w = v THEN 1 ELSE 0)
                                             - (IF w = old THEN 1 ELSE 0)]

Add(k, v, isNew) ==
    LET n == IF isNew THEN NULL ELSE Lookup(t, k) IN
    /\ ~deleted
    /\ isNew => Lookup(t, k) = NULL
    /\ IF n = NULL
       THEN /\ t' = Insert(t, k, v, k \in Constants)
            /\ heap' = IF k \in Constants THEN heap ELSE heap \cup {k}
            /\ refs' = [refs EXCEPT ![v] = @ + 1]
       ELSE /\ t' = [t EXCEPT !.table[n].v = v]
            /\ refs' = Replaced(v, t.table[n].v)
            /\ UNCHANGED heap
    /\ UNCHANGED <<hash, badFree, deleted>>

(* json_object_object_del; nothing happens for a key that is not there.    *)
Del(k) ==
    LET n == Lookup(t, k) IN
    /\ ~deleted
    /\ n # NULL
    /\ t' = Unlink(t, n)
    /\ FreeEntries({n})
    /\ UNCHANGED <<hash, deleted>>

(* json_object_object_delete: lh_table_free.                               *)
Delete ==
    /\ ~deleted
    /\ deleted' = TRUE
    /\ FreeEntries(ToSet(EntriesOf(t)))
    /\ t' = NewTable(FirstSize)
    /\ UNCHANGED hash

Next ==
    \/ \E k \in Keys : Del(k) \/ \E v \in Values, isNew \in BOOLEAN : Add(k, v, isNew)
    \/ Delete

Spec == Init /\ [][Next]_vars

-----------------------------------------------------------------------------
Used == {n \in 0 .. t.size - 1 : ~Unused(t.table[n])}

TypeOK ==
    /\ t.size \in Nat /\ t.count \in 0 .. t.size
    /\ t.table \in [0 .. t.size - 1 ->
                      [k : Keys \cup {EMPTY, FREED}, v : Values \cup {NoValue},
                       k_is_constant : BOOLEAN,
                       next : NULL .. t.size - 1, prev : NULL .. t.size - 1]]
    /\ heap \subseteq Keys /\ badFree \in BOOLEAN
    /\ refs \in [Values -> 0 .. t.count]

(* However keys collide, wrap around the end and are deleted in between,   *)
(* a lookup finds the entry of a key exactly if it has one.                *)
LookupExact ==
    \A k \in Keys :
        LET n == Lookup(t, k) IN
        IF \E m \in Used : t.table[m].k = k
        THEN n \in Used /\ t.table[n].k = k
        ELSE n = NULL

(* The list goes through all entries, the same way back, and count tells   *)
(* how many there are.                                                     *)
Linked ==
    LET s == EntriesOf(t) IN
    /\ ToSet(s) = Used /\ Len(s) = Cardinality(Used) /\ t.count = Len(s)
    /\ t.head = (IF s = <<>> THEN NULL ELSE s[1])
    /\ t.tail = (IF s = <<>> THEN NULL ELSE s[Len(s)])
    /\ \A i \in DOMAIN s : t.table[s[i]].prev = (IF i = 1 THEN NULL ELSE s[i - 1])

(* The object holds one reference to each value in it, and one copy of     *)
(* each key it had to copy; in the end none.                               *)
Owned ==
    /\ ~badFree
    /\ \A v \in Values : refs[v] = Cardinality({n \in Used : t.table[n].v = v})
    /\ heap = {t.table[n].k : n \in Used} \ Constants

(* An object is an ordered map.                                            *)
Members == LET s == EntriesOf(t)
           IN  [i \in DOMAIN s |-> <<t.table[s[i]].k, t.table[s[i]].v>>]
Map == INSTANCE OrderedMap WITH map <- Members

(* json_object.h on JSON_C_OBJECT_KEY_IS_CONSTANT: it "flags the key as    *)
(* being constant memory", which json_object_lh_entry_free leaves alone:   *)
(* the object frees no key but those it has copied. Not so once the table  *)
(* has grown.                                                              *)
ConstantKept == ~badFree

=============================================================================
