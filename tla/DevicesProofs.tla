---------------------------- MODULE DevicesProofs ----------------------------
(***************************************************************************)
(* Proofs about Devices.  One part runs, and a theorem about it is proved  *)
(* from an invariant of that part: the table of devices by what a          *)
(* discovery knows of the entry it works on and has found so far, the      *)
(* programs on one device by TransportProofs, the threads of any number of *)
(* devices by what the read threads of each do to its queue, the walks     *)
(* over a report descriptor by the items they have passed, and the         *)
(* backends of hidapi by what they have listed of the devices passed and   *)
(* hold at each label: with hidraw the list of pointers too is a chain of  *)
(* the entries, one by one.                                                *)
(***************************************************************************)
EXTENDS Devices, FiniteSetTheorems, SequenceTheorems, WellFoundedInduction, TLAPS

(* A set of numbers has a least one.                                       *)
LEMMA Least ==
    ASSUME NEW S \in SUBSET Nat, S # {}
    PROVE  \E m \in S : \A n \in S : m <= n
<1>1. \E m \in S : \A n \in S : ~(<<n, m>> \in OpToRel(<, Nat))
  BY WFMin, NatLessThanWellFounded, Zenon
<1>2. PICK m \in S : \A n \in S : ~(<<n, m>> \in OpToRel(<, Nat))
  BY <1>1
<1>3. \A n \in S : ~(n < m)
  BY <1>2 DEF OpToRel
<1> QED
  BY <1>3

(***************************************************************************)
(* The part that runs is the only one that takes steps.                    *)
LEMMA OnlyPart ==
    ASSUME [Next]_vars
    PROVE  /\ UNCHANGED part
           /\ part = "hidraw" => HidrawNext \/ UNCHANGED vars
           /\ part = "win" => WinNext \/ UNCHANGED vars
           /\ part = "libusb" => LibusbNext \/ UNCHANGED vars
           /\ part = "devs" => DevsNext \/ UNCHANGED vars
           /\ part = "descriptor" => DescriptorNext \/ UNCHANGED vars
           /\ part = "transport" => TransportNext \/ UNCHANGED vars
           /\ part = "reader" => ReaderNext \/ UNCHANGED vars
BY DEF Next, vars, HidrawNext, WinNext, LibusbNext, DevsNext, DescriptorNext, TransportNext,
       ReaderNext

LEMMA OnlyInit ==
    ASSUME Init
    PROVE  /\ part = "hidraw" => HidrawInit
           /\ part = "win" => WinInit
           /\ part = "libusb" => LibusbInit
           /\ part = "devs" => DevsInit
           /\ part = "descriptor" => DescriptorInit
           /\ part = "transport" => TransportInit
           /\ part = "reader" => ReaderInit
BY DEF Init, HidrawInit, WinInit, LibusbInit, DevsInit, DescriptorInit, TransportInit,
       ReaderInit

-----------------------------------------------------------------------------
(* The device table.                                                       *)

(* The two Cardinality of module FiniteSets are the same.                  *)
LEMMA SameCardinality == \A S : Devs!Cardinality(S) = Cardinality(S)
  BY DEF Devs!Cardinality, Cardinality

Visiting == pc \in {"probe", "open", "init"}
InCall == Visiting \/ pc \in {"visit", "sweep"}

Owned == handles = Cardinality(Devs!Alive)
Unique == \A e, j \in Devs!Alive : table[e].path = table[j].path => e = j

(* What each step of discover knows of the entry it works on.              *)
Located ==
    /\ Visiting => path \in listed \ todo
    /\ pc = "probe" => Devs!AliveAt(path) # {}
    /\ pc = "open" => Devs!AliveAt(path) = {}
    /\ pc = "init" => Len(table) \in Devs!Alive /\ table[Len(table)].path = path
    /\ pc = "sweep" => todo = {}

(* Once a device has answered, one that was visited before is alive; until *)
(* then the live entries are those still to be visited or not listed.      *)
FoundSoFar ==
    InCall =>
        /\ res # "MEMORY_ERROR"
        /\ res = "OK" =>
              \E e \in Devs!Alive : /\ table[e].path \in listed \ todo
                                    /\ Visiting => table[e].path # path
        /\ res = "NO_U2F_DEVICE" =>
              \A e \in Devs!Alive : \/ table[e].path \in todo
                                    \/ table[e].path \notin listed
                                    \/ Visiting /\ table[e].path = path

DevsInv == Devs!TypeOK /\ Owned /\ Unique /\ Located /\ FoundSoFar /\ Devs!ResultFits

-----------------------------------------------------------------------------
LEMMA TableFacts ==
    ASSUME Devs!TypeOK
    PROVE  /\ table \in Seq(Devs!Entry) /\ Len(table) \in Nat
           /\ DOMAIN table = 1 .. Len(table)
           /\ \A e \in DOMAIN table : table[e] \in Devs!Entry
           /\ Devs!Alive \subseteq 1 .. Len(table)
           /\ IsFiniteSet(Devs!Alive) /\ Cardinality(Devs!Alive) \in Nat
<1>1. /\ table \in Seq(Devs!Entry) /\ Len(table) \in Nat /\ DOMAIN table = 1 .. Len(table)
      /\ \A e \in DOMAIN table : table[e] \in Devs!Entry
  BY DEF Devs!TypeOK
<1>2. Devs!Alive \subseteq 1 .. Len(table)
  BY <1>1 DEF Devs!Alive
<1>3. IsFiniteSet(1 .. Len(table))
  BY <1>1, FS_Interval
<1> QED
  BY <1>1, <1>2, <1>3, FS_Subset, FS_CardinalityType

LEMMA InitDevs == Devs!MaxPlugsAssumption /\ Devs!MaxCallsAssumption /\ Devs!Init => DevsInv
<1> SUFFICES ASSUME Devs!MaxPlugsAssumption, Devs!MaxCallsAssumption, Devs!Init PROVE DevsInv
  OBVIOUS
<1>1. Devs!Alive = {}
  BY DEF Devs!Init, Devs!Alive
<1>2. Owned
  BY <1>1, FS_EmptySet DEF Devs!Init, Owned
<1>3. Devs!TypeOK
  BY DEF Devs!Init, Devs!TypeOK, Devs!MaxPlugsAssumption, Devs!MaxCallsAssumption
<1> QED
  BY <1>1, <1>2, <1>3 DEF Devs!Init, DevsInv, Unique, Located, FoundSoFar, Devs!ResultFits,
                          Visiting, InCall

(* A live entry is closed, and with it its handle.                         *)
LEMMA CloseOne ==
    ASSUME Devs!TypeOK, Owned, NEW k \in Devs!Alive, table' = Devs!Closed(k), handles' = handles - 1
    PROVE  /\ table' \in Seq(Devs!Entry) /\ handles' \in Int /\ Owned'
           /\ Len(table') = Len(table)
           /\ Devs!Alive' = Devs!Alive \ {k}
           /\ \A e \in DOMAIN table : table'[e].path = table[e].path
<1> USE TableFacts
<1>1. /\ k \in 1 .. Len(table) /\ DOMAIN table' = 1 .. Len(table)
      /\ \A e \in DOMAIN table : table'[e] = IF e = k THEN [table[e] EXCEPT !.alive = FALSE]
                                                      ELSE table[e]
  BY DEF Devs!Closed
<1>2. ASSUME NEW e \in DOMAIN table
      PROVE  /\ table'[e] \in Devs!Entry /\ table'[e].path = table[e].path
             /\ table'[e].alive <=> table[e].alive /\ e # k
  BY <1>1 DEF Devs!Entry
<1>3. Devs!Alive' = Devs!Alive \ {k}
  BY <1>1, <1>2 DEF Devs!Alive
<1>4. table' \in Seq(Devs!Entry) /\ Len(table') = Len(table)
  <2>1. table' = [e \in 1 .. Len(table) |-> table'[e]]
    BY <1>1 DEF Devs!Closed
  <2> QED
    BY <1>1, <1>2, <2>1
<1>5. Cardinality(Devs!Alive') = Cardinality(Devs!Alive) - 1
  BY <1>3, FS_RemoveElement
<1> QED
  BY <1>2, <1>3, <1>4, <1>5 DEF Owned

(* Who is live and where is the same.                                      *)
LEMMA SameTable ==
    ASSUME DevsInv, UNCHANGED <<calls, pc, listed, todo, path, res, handles>>,
           Len(table') = Len(table), Devs!Alive' = Devs!Alive, Devs!TypeOK',
           \A e \in DOMAIN table : table'[e].path = table[e].path
    PROVE  DevsInv'
<1>1. \A e \in Devs!Alive : table'[e].path = table[e].path
  BY TableFacts DEF DevsInv
<1>2. \A p \in TablePaths : Devs!AliveAt(p)' = Devs!AliveAt(p)
  BY <1>1 DEF Devs!AliveAt
<1>3. Owned' /\ Unique' /\ FoundSoFar' /\ Devs!ResultFits'
  BY <1>1 DEF DevsInv, Owned, Unique, FoundSoFar, Devs!ResultFits, Visiting, InCall
<1>4. Located'
  <2>1. Visiting => path \in TablePaths
    BY DEF DevsInv, Located, Devs!TypeOK
  <2> QED
    BY <1>1, <1>2, <2>1 DEF DevsInv, Located, Visiting
<1> QED
  BY <1>3, <1>4 DEF DevsInv

-----------------------------------------------------------------------------
LEMMA DiscoverKeeps == ASSUME Devs!MaxCallsAssumption, DevsInv, Devs!Discover PROVE DevsInv'
<1> USE DEF Devs!Discover, Devs!devVars, DevsInv
<1>1. Devs!TypeOK'
  BY DEF Devs!TypeOK, Devs!MaxCallsAssumption
<1>2. Devs!Alive' = Devs!Alive
  BY DEF Devs!Alive
<1> QED
  BY <1>1, <1>2 DEF Owned, Unique, Located, FoundSoFar, Devs!ResultFits, Visiting, InCall

LEMMA VisitKeeps == ASSUME DevsInv, Devs!Visit PROVE DevsInv'
<1> USE DEF Devs!Visit, Devs!devVars, Devs!callVars, DevsInv
<1>1. Devs!Alive' = Devs!Alive /\ \A p \in TablePaths : Devs!AliveAt(p)' = Devs!AliveAt(p)
  BY DEF Devs!Alive, Devs!AliveAt
<1>2. CASE todo = {}
  <2>1. Devs!TypeOK'
    BY <1>2 DEF Devs!TypeOK
  <2> QED
    BY <1>1, <1>2, <2>1 DEF Owned, Unique, Located, FoundSoFar, Devs!ResultFits, Visiting, InCall
<1>3. ASSUME NEW p \in todo, path' = p, todo' = todo \ {p},
             pc' = IF Devs!AliveAt(p) # {} THEN "probe" ELSE "open"
      PROVE  DevsInv'
  <2>1. p \in TablePaths /\ p \in listed
    BY DEF Devs!TypeOK
  <2>2. Devs!TypeOK'
    BY <1>3, <2>1 DEF Devs!TypeOK
  <2>3. Located'
    BY <1>1, <1>3, <2>1 DEF Located, Visiting
  <2>4. FoundSoFar'
    BY <1>1, <1>3 DEF FoundSoFar, Visiting, InCall
  <2> QED
    BY <1>1, <1>3, <2>2, <2>3, <2>4 DEF Owned, Unique, Devs!ResultFits
<1> QED
  BY <1>2, <1>3

LEMMA PingKeeps == ASSUME DevsInv, Devs!Ping PROVE DevsInv'
<1> USE DEF Devs!Ping, Devs!devVars, Devs!callVars, DevsInv
<1> DEFINE k == Devs!First(Devs!AliveAt(path))
<1>1. k \in Devs!Alive /\ table[k].path = path /\ path \in TablePaths /\ path \in listed \ todo
  <2>1. PICK j \in Devs!AliveAt(path) : TRUE
    BY DEF Located
  <2>2. Devs!AliveAt(path) = {j}
    BY <2>1 DEF Devs!AliveAt, Unique
  <2>3. j \in Nat
    BY <2>1, TableFacts DEF Devs!AliveAt
  <2>4. k = j
    BY <2>2, <2>3 DEF Devs!First
  <2> QED
    BY <2>1, <2>4 DEF Devs!AliveAt, Located, Visiting, Devs!TypeOK
<1> HIDE DEF k
<1>2. CASE res' = "OK" /\ pc' = "visit" /\ UNCHANGED <<table, handles>>
  <2>1. Devs!Alive' = Devs!Alive
    BY <1>2 DEF Devs!Alive
  <2>2. Devs!TypeOK'
    BY <1>2 DEF Devs!TypeOK
  <2>3. FoundSoFar'
    BY <1>1, <1>2, <2>1 DEF FoundSoFar, Visiting, InCall
  <2> QED
    BY <1>2, <2>1, <2>2, <2>3 DEF Owned, Unique, Located, Devs!ResultFits, Visiting
<1>3. CASE table' = Devs!Closed(k) /\ handles' = Devs!HandleClosed /\ pc' = "open" /\ UNCHANGED res
  <2>1. /\ table' \in Seq(Devs!Entry) /\ handles' \in Int /\ Owned'
        /\ Devs!Alive' = Devs!Alive \ {k}
        /\ \A e \in DOMAIN table : table'[e].path = table[e].path
    BY <1>1, <1>3, CloseOne DEF Devs!HandleClosed
  <2>2. \A e \in Devs!Alive' :
          e \in Devs!Alive /\ table'[e].path = table[e].path /\ table[e].path # path
    BY <1>1, <2>1, TableFacts DEF Unique
  <2>3. Devs!TypeOK'
    BY <1>3, <2>1 DEF Devs!TypeOK
  <2>4. Unique'
    BY <2>2 DEF Unique
  <2>5. Located'
    BY <1>1, <1>3, <2>2 DEF Located, Visiting, Devs!AliveAt
  <2>6. FoundSoFar'
    <3>1. ASSUME res = "OK"
          PROVE  \E e \in Devs!Alive' : table'[e].path \in listed \ todo /\ table'[e].path # path
      BY <1>1, <2>1, <2>2, <3>1 DEF FoundSoFar, Visiting, InCall
    <3> QED
      BY <1>3, <2>2, <3>1 DEF FoundSoFar, Visiting, InCall
  <2> QED
    BY <1>3, <2>1, <2>3, <2>4, <2>5, <2>6 DEF Devs!ResultFits
<1> QED
  BY <1>2, <1>3 DEF k

(* A call that runs out of memory leaves the table as it is.               *)
LEMMA NoMemoryKeeps ==
    ASSUME DevsInv, Devs!Return("MEMORY_ERROR"),
           UNCHANGED <<Devs!devVars, Devs!callVars, maxIndex>>,
           table' \in Seq(Devs!Entry), handles' \in Int, Owned', Unique'
    PROVE  DevsInv'
<1> USE DEF Devs!Return, Devs!devVars, Devs!callVars, DevsInv
<1>1. Devs!TypeOK'
  BY DEF Devs!TypeOK
<1> QED
  BY <1>1 DEF Located, FoundSoFar, Devs!ResultFits, Visiting, InCall

LEMMA OpenKeeps == ASSUME DevsInv, Devs!Open PROVE DevsInv'
<1> USE DEF Devs!Open, Devs!devVars, Devs!callVars, DevsInv
<1>p. path \in TablePaths /\ path \in listed \ todo /\ Devs!AliveAt(path) = {}
  BY DEF Located, Visiting, Devs!TypeOK
<1>1. CASE pc' = "visit" /\ UNCHANGED <<res, todo, path, table, handles>>
  <2>1. Devs!Alive' = Devs!Alive
    BY <1>1 DEF Devs!Alive
  <2>2. Devs!TypeOK'
    BY <1>1 DEF Devs!TypeOK
  <2>3. FoundSoFar'
    BY <1>p, <1>1, <2>1 DEF FoundSoFar, Visiting, InCall, Devs!AliveAt
  <2> QED
    BY <1>1, <2>1, <2>2, <2>3 DEF Owned, Unique, Located, Devs!ResultFits, Visiting
<1>2. CASE Devs!Return("MEMORY_ERROR") /\ UNCHANGED <<table, handles>>
  <2>1. Devs!Alive' = Devs!Alive
    BY <1>2 DEF Devs!Alive
  <2>2. Owned' /\ Unique' /\ table' \in Seq(Devs!Entry) /\ handles' \in Int
    BY <1>2, <2>1 DEF Owned, Unique, Devs!TypeOK
  <2> QED
    BY <1>2, <2>2, NoMemoryKeeps
<1>3. CASE /\ table' = Append(table, Devs!NewEntry) /\ handles' = handles + 1
           /\ pc' = "init" /\ UNCHANGED <<res, todo, path>>
  <2> DEFINE n == Len(table) + 1
  <2>1. Devs!NewEntry \in Devs!Entry /\ Devs!NewEntry.alive /\ Devs!NewEntry.path = path
    BY <1>p DEF Devs!NewEntry, Devs!Entry
  <2>2. /\ table' \in Seq(Devs!Entry) /\ Len(table') = n /\ DOMAIN table' = 1 .. n
        /\ n \in Nat /\ n \notin Devs!Alive /\ table'[n] = Devs!NewEntry
        /\ \A e \in 1 .. Len(table) : table'[e] = table[e]
    <3>1. table \in Seq(Devs!Entry) /\ Len(table) \in Nat /\ Devs!Alive \subseteq 1 .. Len(table)
      BY TableFacts
    <3>2. /\ table' \in Seq(Devs!Entry) /\ Len(table') = n /\ table'[n] = Devs!NewEntry
          /\ \A e \in 1 .. Len(table) : table'[e] = table[e]
      BY <1>3, <2>1, <3>1, AppendProperties
    <3> QED
      BY <3>1, <3>2
  <2>3. Devs!Alive' = Devs!Alive \cup {n}
    BY <2>1, <2>2, TableFacts DEF Devs!Alive
  <2>4. \A e \in Devs!Alive : table'[e] = table[e] /\ table[e].path # path
    BY <1>p, <2>2, TableFacts DEF Devs!AliveAt
  <2>5. Devs!TypeOK'
    BY <1>3, <2>2 DEF Devs!TypeOK
  <2>6. Owned'
    BY <1>3, <2>2, <2>3, FS_AddElement, TableFacts DEF Owned
  <2> HIDE DEF n
  <2>7. Unique'
    BY <2>1, <2>2, <2>3, <2>4 DEF Unique
  <2>8. Located'
    BY <1>p, <1>3, <2>1, <2>2, <2>3 DEF Located, Visiting
  <2>9. FoundSoFar'
    <3>1. ASSUME res = "OK"
          PROVE  \E e \in Devs!Alive' : table'[e].path \in listed \ todo /\ table'[e].path # path
      BY <2>3, <2>4, <3>1 DEF FoundSoFar, Visiting, InCall
    <3> QED
      BY <1>3, <2>1, <2>2, <2>3, <2>4, <3>1 DEF FoundSoFar, Visiting, InCall
  <2> QED
    BY <1>3, <2>5, <2>6, <2>7, <2>8, <2>9 DEF Devs!ResultFits
<1> QED
  BY <1>1, <1>2, <1>3

LEMMA InitDeviceKeeps == ASSUME DevsInv, Devs!InitDevice PROVE DevsInv'
<1> USE DEF Devs!InitDevice, Devs!devVars, Devs!callVars, DevsInv
<1> DEFINE n == Len(table)
<1>p. /\ path \in TablePaths /\ path \in listed \ todo
      /\ n \in Devs!Alive /\ table[n].path = path /\ n \in Nat /\ n > 0
  BY TableFacts DEF Located, Visiting, Devs!TypeOK
<1> HIDE DEF n
<1>o. \A e \in Devs!Alive \ {n} : table[e].path # path
  BY <1>p DEF Unique
<1>1. CASE res' = "OK" /\ pc' = "visit" /\ UNCHANGED <<todo, path, table, handles>>
  <2>1. Devs!Alive' = Devs!Alive
    BY <1>1 DEF Devs!Alive
  <2>2. Devs!TypeOK'
    BY <1>1 DEF Devs!TypeOK
  <2>3. FoundSoFar'
    BY <1>p, <1>1, <2>1 DEF FoundSoFar, Visiting, InCall
  <2> QED
    BY <1>1, <2>1, <2>2, <2>3 DEF Owned, Unique, Located, Devs!ResultFits, Visiting
<1>2. CASE table' = Devs!WithoutFailed /\ handles' = handles - 1 /\ pc' = "visit"
           /\ UNCHANGED <<res, todo, path>>
  <2>1. /\ table' \in Seq(Devs!Entry) /\ Len(table') = n - 1 /\ DOMAIN table' = 1 .. n - 1
        /\ \A e \in 1 .. n - 1 : table'[e] = table[e]
    BY <1>p, <1>2, TableFacts DEF Devs!WithoutFailed, Devs!Front, n
  <2>2. Devs!Alive' = Devs!Alive \ {n}
    BY <1>p, <2>1, TableFacts DEF Devs!Alive, n
  <2>3. \A e \in Devs!Alive' :
          e \in Devs!Alive \ {n} /\ table'[e] = table[e] /\ table[e].path # path
    BY <1>p, <1>o, <2>1, <2>2, TableFacts DEF n
  <2>4. Devs!TypeOK'
    BY <1>2, <2>1 DEF Devs!TypeOK
  <2>5. Owned'
    BY <1>p, <1>2, <2>2, FS_RemoveElement, TableFacts DEF Owned
  <2>6. Unique'
    BY <2>3 DEF Unique
  <2>7. FoundSoFar'
    <3>1. ASSUME res = "OK"
          PROVE  \E e \in Devs!Alive' : table'[e].path \in listed \ todo
      BY <1>p, <2>2, <2>3, <3>1 DEF FoundSoFar, Visiting, InCall
    <3> QED
      BY <1>2, <2>3, <3>1 DEF FoundSoFar, Visiting, InCall
  <2> QED
    BY <1>2, <2>4, <2>5, <2>6, <2>7 DEF Located, Devs!ResultFits, Visiting
<1>3. CASE Devs!Return("MEMORY_ERROR") /\ table' = Devs!Closed(Len(table)) /\ handles' = handles - 1
  <2>1. /\ table' \in Seq(Devs!Entry) /\ handles' \in Int /\ Owned'
        /\ Devs!Alive' = Devs!Alive \ {n}
        /\ \A e \in DOMAIN table : table'[e].path = table[e].path
    BY <1>p, <1>3, CloseOne DEF n
  <2>2. Unique'
    BY <2>1, TableFacts DEF Unique
  <2> QED
    BY <1>3, <2>1, <2>2, NoMemoryKeeps
<1> QED
  BY <1>1, <1>2, <1>3

(* Closing the entries that were not listed closes as many handles.        *)
LEMMA SweepKeeps == ASSUME DevsInv, Devs!Sweep PROVE DevsInv'
<1> USE SameCardinality DEF Devs!Sweep, Devs!Return, Devs!devVars, Devs!callVars, DevsInv
<1>1. ASSUME NEW e \in DOMAIN table
      PROVE  /\ table'[e] \in Devs!Entry /\ table'[e].path = table[e].path
             /\ table'[e].alive <=> table[e].alive /\ e \notin Devs!LooksDead
  BY TableFacts DEF Devs!Entry
<1>2. Devs!Alive' = Devs!Alive \ Devs!LooksDead /\ Devs!LooksDead \subseteq Devs!Alive
  BY <1>1 DEF Devs!Alive, Devs!LooksDead
<1>3. table' \in Seq(Devs!Entry) /\ Len(table') = Len(table)
  BY <1>1, TableFacts
<1>4. /\ IsFiniteSet(Devs!LooksDead) /\ Cardinality(Devs!LooksDead) \in Nat
      /\ Cardinality(Devs!Alive') = Cardinality(Devs!Alive) - Cardinality(Devs!LooksDead)
  <2>1. /\ IsFiniteSet(Devs!LooksDead) /\ IsFiniteSet(Devs!Alive \ Devs!LooksDead)
    BY <1>2, TableFacts, FS_Subset
  <2>2. /\ (Devs!Alive \ Devs!LooksDead) \cup Devs!LooksDead = Devs!Alive
        /\ (Devs!Alive \ Devs!LooksDead) \cap Devs!LooksDead = {}
    BY <1>2
  <2>3. Cardinality(Devs!Alive) =
            Cardinality(Devs!Alive \ Devs!LooksDead) + Cardinality(Devs!LooksDead)
                - Cardinality({})
    <3>1. ASSUME NEW A, NEW B, A = (Devs!Alive \ Devs!LooksDead) \cup Devs!LooksDead,
                 B = (Devs!Alive \ Devs!LooksDead) \cap Devs!LooksDead
          PROVE  Cardinality(A) =
                     Cardinality(Devs!Alive \ Devs!LooksDead) + Cardinality(Devs!LooksDead)
                         - Cardinality(B)
      BY <2>1, <3>1, FS_Union
    <3> QED
      BY <2>2, <3>1, Zenon
  <2>4. Cardinality(Devs!LooksDead) \in Nat /\ Cardinality(Devs!Alive \ Devs!LooksDead) \in Nat
    BY <2>1, FS_CardinalityType
  <2>5. Cardinality(Devs!Alive) =
            Cardinality(Devs!Alive \ Devs!LooksDead) + Cardinality(Devs!LooksDead)
    <3>1. Cardinality({}) = 0
      BY FS_EmptySet
    <3> QED
      BY <2>3, <2>4, <3>1
  <2> QED
    BY <1>2, <2>1, <2>4, <2>5
<1>5. Devs!TypeOK'
  BY <1>3, <1>4, TableFacts DEF Devs!TypeOK
<1>6. Owned' /\ Unique'
  BY <1>1, <1>2, <1>4, TableFacts DEF Owned, Unique
<1>7. Devs!ResultFits'
  <2>1. todo = {} /\ InCall /\ ~Visiting
    BY DEF Located, InCall, Visiting
  <2>2. ASSUME res = "OK" PROVE Devs!Alive' # {}
    BY <1>2, <2>1, <2>2 DEF FoundSoFar, Devs!LooksDead
  <2>3. ASSUME res = "NO_U2F_DEVICE" PROVE Devs!Alive' = {}
    BY <1>2, <2>1, <2>3 DEF FoundSoFar, Devs!LooksDead
  <2> QED
    BY <2>2, <2>3 DEF Devs!ResultFits
<1> QED
  BY <1>5, <1>6, <1>7 DEF Located, FoundSoFar, Visiting, InCall

LEMMA DoneKeeps == ASSUME DevsInv, Devs!Done PROVE DevsInv'
<1> USE DEF Devs!Done, Devs!devVars, Devs!callVars, DevsInv
<1>1. Devs!Alive' = {}
  BY DEF Devs!Alive
<1>2. Owned'
  BY <1>1, FS_EmptySet, TableFacts, SameCardinality DEF Owned
<1>3. Devs!TypeOK'
  BY TableFacts DEF Devs!TypeOK
<1> QED
  BY <1>1, <1>2, <1>3 DEF Unique, Located, FoundSoFar, Devs!ResultFits, Visiting, InCall

LEMMA UnplugKeeps == ASSUME DevsInv, NEW p \in TablePaths, Devs!Unplug(p) PROVE DevsInv'
<1> USE DEF Devs!Unplug, Devs!callVars, DevsInv
<1>1. ASSUME NEW e \in DOMAIN table
      PROVE  table'[e] \in Devs!Entry /\ table'[e].path = table[e].path
             /\ (table'[e].alive <=> table[e].alive)
  BY TableFacts DEF Devs!Entry
<1>2. Devs!Alive' = Devs!Alive
  BY <1>1 DEF Devs!Alive
<1>3. table' \in Seq(Devs!Entry) /\ Len(table') = Len(table)
  BY <1>1, TableFacts
<1>4. Devs!TypeOK'
  BY <1>3 DEF Devs!TypeOK
<1> QED
  BY <1>1, <1>2, <1>3, <1>4, SameTable

LEMMA PlugKeeps ==
    ASSUME Devs!MaxPlugsAssumption, DevsInv, NEW p \in TablePaths, Devs!Plug(p)
    PROVE  DevsInv'
<1> USE DEF Devs!Plug, Devs!callVars, DevsInv
<1>1. Devs!Alive' = Devs!Alive
  BY DEF Devs!Alive
<1>2. Devs!TypeOK'
  BY DEF Devs!TypeOK, Devs!MaxPlugsAssumption
<1> QED
  BY <1>1, <1>2, SameTable

LEMMA DevsStep ==
    ASSUME Devs!MaxPlugsAssumption, Devs!MaxCallsAssumption, DevsInv, [Devs!Next]_Devs!vars
    PROVE  DevsInv'
<1>1. CASE UNCHANGED Devs!vars
  <2>1. Devs!Alive' = Devs!Alive /\ Devs!TypeOK'
    BY <1>1 DEF Devs!vars, Devs!Alive, Devs!TypeOK, DevsInv
  <2> QED
    BY <1>1, <2>1, SameTable DEF Devs!vars
<1> QED
  BY <1>1, DiscoverKeeps, VisitKeeps, PingKeeps, OpenKeeps, InitDeviceKeeps, SweepKeeps,
     DoneKeeps, UnplugKeeps, PlugKeeps DEF Devs!Next

LEMMA EntriesAreOwned == DevsInv => Devs!EntriesOwned
<1> SUFFICES ASSUME DevsInv, NEW p \in TablePaths PROVE Cardinality(Devs!AliveAt(p)) <= 1
  BY SameCardinality
     DEF Devs!EntriesOwned, Devs!HandlesOwned, Devs!OneEntryPerPath, DevsInv, Owned
<1>1. CASE Devs!AliveAt(p) = {}
  BY <1>1, FS_EmptySet
<1>2. CASE Devs!AliveAt(p) # {}
  <2>1. PICK e \in Devs!AliveAt(p) : TRUE
    BY <1>2
  <2>2. Devs!AliveAt(p) = {e}
    BY <2>1 DEF Devs!AliveAt, DevsInv, Unique
  <2>3. Cardinality({e}) = 1
    BY FS_Singleton
  <2> QED
    BY <2>2, <2>3
<1> QED
  BY <1>1, <1>2

TableInv == part = "devs" => DevsInv

LEMMA TableInitially == Init => TableInv
<1>1. Devs!MaxPlugsAssumption /\ Devs!MaxCallsAssumption
  BY DevicesAssumption
<1> QED
  BY <1>1, OnlyInit, InitDevs DEF TableInv, DevsInit

LEMMA TableSteps == TableInv /\ [Next]_vars => TableInv'
<1> SUFFICES ASSUME part = "devs", DevsInv, [Next]_vars PROVE DevsInv'
  BY OnlyPart DEF TableInv
<1>1. [Devs!Next]_Devs!vars
  BY OnlyPart DEF DevsNext, vars, shared, devsOwn, Devs!vars
<1>2. Devs!MaxPlugsAssumption /\ Devs!MaxCallsAssumption
  BY DevicesAssumption
<1> QED
  BY <1>1, <1>2, DevsStep

LEMMA TableHolds == Spec => []TableInv
  BY TableInitially, TableSteps, PTL DEF Spec

(* Whatever fails in a discovery and whatever is plugged meanwhile: every  *)
(* open handle has one live entry and every live entry one handle, and no  *)
(* path has two live entries.                                              *)
THEOREM EntriesOwnedAlways == Spec => []EntriesOwned
<1>1. TableInv => EntriesOwned
  BY EntriesAreOwned DEF TableInv, EntriesOwned
<1> QED
  BY <1>1, TableHolds, PTL

(* A discovery that returns OK leaves a live entry, and one that returns   *)
(* NO_U2F_DEVICE leaves none.                                              *)
THEOREM ResultFitsAlways == Spec => []ResultFits
<1>1. TableInv => ResultFits
  BY DEF TableInv, ResultFits, DevsInv
<1> QED
  BY <1>1, TableHolds, PTL

-----------------------------------------------------------------------------
(* The programs on one device.  TransportProofs has the invariant and its  *)
(* steps.                                                                  *)
Exchange == INSTANCE TransportProofs WITH QueueLimit <- InputReports

ExchangeInv == part = "transport" => Exchange!ChannelsInv

LEMMA SameWaiting == \A S : Transport!Cardinality(S) = Exchange!Cardinality(S)
BY DEF Transport!Cardinality, Exchange!Cardinality

LEMMA SameSizes == Exchange!SizesAssumption
BY DevicesAssumption
   DEF Transport!SizesAssumption, Exchange!SizesAssumption,
       Transport!IsFiniteSet, Exchange!IsFiniteSet

(* What the two instances of Transport call the same is the same.          *)
LEMMA SameExchange ==
    /\ Transport!Broadcast = Exchange!Broadcast
    /\ Transport!NoResult = Exchange!NoResult /\ Transport!NoAnswer = Exchange!NoAnswer
    /\ Transport!CanCall <=> Exchange!CanCall
    /\ \A s : Transport!Allowed(s) = Exchange!Allowed(s)
    /\ \A c : Transport!CommandLens(c) = Exchange!CommandLens(c)
    /\ \A c, r : Transport!StateAfter(c, r) = Exchange!StateAfter(c, r)
    /\ \A p : Transport!FrameTo(p) = Exchange!FrameTo(p)
    /\ \A p, f : Transport!Fits(p, f) <=> Exchange!Fits(p, f)
    /\ \A p, f : Transport!Continues(p, f) <=> Exchange!Continues(p, f)
    /\ \A p, f : Transport!Taken(p, f) = Exchange!Taken(p, f)
    /\ \A t : Transport!Doubled(t) = Exchange!Doubled(t)
    /\ \A p : Transport!LastWindow(p) <=> Exchange!LastWindow(p)
    /\ \A n : Transport!FramesFor(n) = Exchange!FramesFor(n)
    /\ Transport!Waiting = Exchange!Waiting
    /\ \A q, f, o : Transport!With(q, f, o) = Exchange!With(q, f, o)
<1>1. /\ Transport!Broadcast = Exchange!Broadcast
      /\ Transport!NoResult = Exchange!NoResult /\ Transport!NoAnswer = Exchange!NoAnswer
  BY DEF Transport!Broadcast, Exchange!Broadcast, Transport!NoResult, Exchange!NoResult,
     Transport!NoAnswer, Exchange!NoAnswer
<1>2. Transport!CanCall <=> Exchange!CanCall
  BY SameWaiting DEF Transport!CanCall, Exchange!CanCall, Transport!Calls, Exchange!Calls
<1>3. \A s : Transport!Allowed(s) = Exchange!Allowed(s)
  BY DEF Transport!Allowed, Exchange!Allowed
<1>4. \A c : Transport!CommandLens(c) = Exchange!CommandLens(c)
  BY DEF Transport!CommandLens, Exchange!CommandLens
<1>5. \A c, r : Transport!StateAfter(c, r) = Exchange!StateAfter(c, r)
  BY DEF Transport!StateAfter, Exchange!StateAfter
<1>6. \A p : Transport!FrameTo(p) = Exchange!FrameTo(p)
  BY DEF Transport!FrameTo, Exchange!FrameTo, Transport!Smaller, Exchange!Smaller
<1>7. \A p, f : Transport!Fits(p, f) <=> Exchange!Fits(p, f)
  BY DEF Transport!Fits, Exchange!Fits
<1>8. \A p, f : Transport!Continues(p, f) <=> Exchange!Continues(p, f)
  BY DEF Transport!Continues, Exchange!Continues
<1>9. \A p, f : Transport!Taken(p, f) = Exchange!Taken(p, f)
  BY DEF Transport!Taken, Exchange!Taken
<1>10. \A t : Transport!Doubled(t) = Exchange!Doubled(t)
  BY DEF Transport!Doubled, Exchange!Doubled
<1>11. \A p : Transport!LastWindow(p) <=> Exchange!LastWindow(p)
  BY <1>10 DEF Transport!LastWindow, Exchange!LastWindow
<1>12. \A n : Transport!FramesFor(n) = Exchange!FramesFor(n)
  BY DEF Transport!FramesFor, Exchange!FramesFor
<1>13. Transport!Waiting = Exchange!Waiting
  BY DEF Transport!Waiting, Exchange!Waiting
<1>14. \A q, f, o : Transport!With(q, f, o) = Exchange!With(q, f, o)
  BY DEF Transport!With, Exchange!With
<1> QED
  BY <1>1, <1>2, <1>3, <1>4, <1>5, <1>6, <1>7, <1>8, <1>9, <1>10, <1>11, <1>12, <1>13, <1>14

LEMMA SameExchanges == [Transport!Next]_Transport!vars => [Exchange!Next]_Exchange!vars
<1> USE SameExchange
      DEF Transport!progVars, Transport!locals, Transport!devVars,
          Exchange!progVars, Exchange!locals, Exchange!devVars
<1>1. UNCHANGED Transport!vars => UNCHANGED Exchange!vars
  BY DEF Transport!vars, Exchange!vars
<1>2. \A p, rc, ans : Transport!Return(p, rc, ans) => Exchange!Return(p, rc, ans)
  BY DEF Transport!Return, Exchange!Return
<1>3. \A p : Transport!Fail(p) => Exchange!Fail(p)
  BY <1>2 DEF Transport!Fail, Exchange!Fail
<1>4. \A p \in Programs : Transport!Open(p) => Exchange!Open(p)
  BY DEF Transport!Open, Exchange!Open, Transport!FirstQueue, Exchange!FirstQueue
<1>5. \A p \in Programs : Transport!Call(p) => Exchange!Call(p)
  BY DEF Transport!Call, Exchange!Call
<1>6. \A p \in Programs : Transport!Send(p) => Exchange!Send(p)
  <2>1. \A f, w : Transport!Received(f, w) => Exchange!Received(f, w)
    BY DEF Transport!Received, Exchange!Received
  <2> QED
    BY <1>3, <2>1 DEF Transport!Send, Exchange!Send
<1>7. \A p \in Programs : Transport!ReadTimeout(p) => Exchange!ReadTimeout(p)
  BY <1>3 DEF Transport!ReadTimeout, Exchange!ReadTimeout
<1>8. \A p \in Programs : Transport!ReadFails(p) => Exchange!ReadFails(p)
  BY <1>3 DEF Transport!ReadFails, Exchange!ReadFails
<1>9. \A p \in Programs : Transport!Read(p) => Exchange!Read(p)
  BY <1>2, <1>3 DEF Transport!Read, Exchange!Read
<1>10. Transport!Answer => Exchange!Answer
  BY DEF Transport!Answer, Exchange!Answer
<1>11. Transport!Emit => Exchange!Emit
  BY SameWaiting DEF Transport!Emit, Exchange!Emit
<1> QED
  BY <1>1, <1>4, <1>5, <1>6, <1>7, <1>8, <1>9, <1>10, <1>11 DEF Transport!Next, Exchange!Next

LEMMA ExchangeInitially == Init => ExchangeInv
<1> SUFFICES ASSUME TransportInit PROVE Exchange!ChannelsInv
  BY OnlyInit DEF ExchangeInv
<1>1. Exchange!Init
  BY SameExchange DEF TransportInit, Transport!Init, Exchange!Init
<1> QED
  BY <1>1, Exchange!InitChannels

LEMMA ExchangeSteps == ExchangeInv /\ [Next]_vars => ExchangeInv'
<1> SUFFICES ASSUME part = "transport", Exchange!ChannelsInv, [Next]_vars
             PROVE  Exchange!ChannelsInv'
  BY OnlyPart DEF ExchangeInv
<1>1. [Transport!Next]_Transport!vars
  BY OnlyPart
     DEF TransportNext, vars, shared, transportOwn, Transport!vars, Transport!progVars,
         Transport!locals, Transport!devVars
<1> QED
  BY <1>1, SameSizes, SameExchanges, Exchange!ChannelsKept

(* However many programs use the device, call, fail and are answered: two  *)
(* come to be on one channel only if both waited when it was given out,    *)
(* and a program on a channel nobody raced for gets the answer to its last *)
(* call.                                                                   *)
THEOREM ChannelsApartAlways == Spec => []ChannelsApart
<1>1. ExchangeInv => ChannelsApart
  <2> SUFFICES ASSUME Exchange!OwnAnswer, Exchange!SharedByRace
               PROVE  Transport!OwnAnswer /\ Transport!SharedByRace
    BY Exchange!ChannelsFit DEF ExchangeInv, ChannelsApart
  <2> QED
    BY SameExchange
       DEF Exchange!OwnAnswer, Exchange!SharedByRace, Exchange!Shared,
           Transport!OwnAnswer, Transport!SharedByRace, Transport!Shared
<1> QED
  BY <1>1, ExchangeInitially, ExchangeSteps, PTL DEF Spec

-----------------------------------------------------------------------------
(* The read threads of libusb, for any number of devices on one context.   *)
ReaderTyped ==
    /\ thread \in [Readers -> {"none", "start", "barrier", "loop", "events",
                               "cancel", "drain", "wake", "ended"}]
    /\ transfer \in [Readers -> {"none", "idle", "flight", "cancelling"}]
    /\ DOMAIN queue = Readers /\ DOMAIN arrived = Readers /\ DOMAIN taken = Readers
    /\ freed \subseteq Readers
    /\ handler \in Readers \cup {NoDevice} /\ callback \in Readers \cup {NoDevice}

ReaderCaller ==
    /\ caller \in [at: {"idle", "opening", "waiting", "woken", "cancel", "join"},
                   dev: Readers \cup {NoDevice}, mode: Reader!Modes]
    /\ caller.at = "idle" => caller = Reader!Idle
    /\ caller.at # "idle" => caller.dev \in Readers

(* The transfer of a device that was cancelled stays idle, so no thread is *)
(* in its callback, and nothing arrives any more; its own thread does not  *)
(* end before; and the thread that runs a callback, of whichever device,   *)
(* goes on to its loop.                                                    *)
Stops(x) ==
    /\ thread[x] \in {"none", "start"} => transfer[x] = "none" /\ x \notin cancelled
    /\ x \in cancelled => transfer[x] \in {"idle", "none"} /\ callback # x
    /\ thread[x] \in {"wake", "ended"} => x \in cancelled
    /\ x \in shutdown => x \in cancelled \/ (caller.at \in {"cancel", "join"} /\ caller.dev = x)
    /\ x \in freed => thread[x] = "ended"
    /\ callback = x => transfer[x] = "idle" /\ handler # NoDevice
    /\ handler = x => thread[x] \in {"events", "drain"} /\ callback # NoDevice

ReaderInv ==
    part = "reader" => ReaderTyped /\ ReaderCaller /\ \A x \in Readers : Stops(x)

LEMMA ReaderConstants == NoDevice \notin Readers
BY DevicesAssumption DEF Reader!LibusbAssumption

LEMMA ReaderInitially == Init => ReaderInv
<1> SUFFICES ASSUME ReaderInit
    PROVE  ReaderTyped /\ ReaderCaller /\ \A x \in Readers : Stops(x)
  BY OnlyInit DEF ReaderInv
<1> USE ReaderConstants DEF ReaderInit, Reader!Init
<1>1. ReaderTyped
  BY DEF ReaderTyped
<1>2. ReaderCaller
  BY DEF ReaderCaller, Reader!Idle, Reader!Modes
<1>3. \A x \in Readers : Stops(x)
  BY DEF Stops
<1> QED
  BY <1>1, <1>2, <1>3

(* What becomes of the reports of a device x.                              *)
Data(x) ==
    /\ queue[x] # <<>>
    /\ taken' = [taken EXCEPT ![x] = Head(queue[x])]
    /\ queue' = [queue EXCEPT ![x] = Tail(queue[x])]
    /\ UNCHANGED <<arrived, cancelled, failed>>

Report(x) ==
    /\ transfer[x] = "flight"
    /\ arrived' = [arrived EXCEPT ![x] = arrived[x] + 1]
    /\ queue' = [queue EXCEPT ![x] =
                    IF Len(Append(queue[x], arrived'[x])) > QueueLimit + 2
                    THEN Tail(Append(queue[x], arrived'[x]))
                    ELSE Append(queue[x], arrived'[x])]
    /\ UNCHANGED <<taken, cancelled, failed>>

Failure(x) ==
    /\ queue[x] = <<>> /\ x \in shutdown /\ caller.at \in {"idle", "woken"}
    /\ failed' = failed \cup {x}
    /\ UNCHANGED <<queue, arrived, taken, cancelled>>

Freeing(x) ==
    /\ thread[x] = "ended"
    /\ queue' = [queue EXCEPT ![x] = <<>>]
    /\ UNCHANGED <<arrived, taken, cancelled, failed>>

Stopping(x) ==
    /\ cancelled' = cancelled \cup {x}
    /\ UNCHANGED <<queue, arrived, taken, failed>>

(* The actions one by one.                                                 *)
ThreadActs(x) ==
    \/ Reader!Start(x) \/ Reader!Loop(x) \/ Reader!CancelPending(x) \/ Reader!EndDrain(x)
    \/ Reader!Broadcast(x) \/ Reader!ReturnEmpty(x) \/ Reader!Resubmit(x)

CallerActs(x) ==
    \/ Reader!MeetAtBarrier(x) \/ Reader!ReadOn(x) \/ Reader!Open(x) \/ Reader!CloseFlag(x)
    \/ \E mode_1 \in Reader!Modes : Reader!Read(x, mode_1)

ReaderActs ==
    \/ \E x \in Readers : Reader!Unplug(x) \/ ThreadActs(x) \/ CallerActs(x)
    \/ \E t, x \in Readers : Reader!Received(t, x) \/ Reader!Stopped(t, x)
    \/ Reader!ReadTimeout \/ Reader!CloseCancel \/ Reader!CloseFree

LEMMA ReaderActions == Reader!Next => ReaderActs
BY DEF Reader!Next, Reader!ThreadStep, Reader!Complete, Reader!CallerStep, Reader!Close,
       ReaderActs, ThreadActs, CallerActs

LEMMA ReaderQueues ==
    ASSUME ReaderTyped, ReaderCaller, \A x \in Readers : Stops(x), ReaderActs
    PROVE  \/ \E x \in Readers : Data(x) \/ Report(x) \/ Failure(x) \/ Freeing(x) \/ Stopping(x)
           \/ UNCHANGED <<queue, arrived, taken, cancelled, failed>>
<1> USE DEF Reader!deviceVars, Reader!history
<1>1. ASSUME NEW x \in Readers, Reader!Unplug(x) \/ CallerActs(x)
      PROVE  Data(x) \/ Failure(x) \/ UNCHANGED <<queue, arrived, taken, cancelled, failed>>
  <2>1. CASE Reader!Unplug(x) \/ Reader!MeetAtBarrier(x) \/ Reader!Open(x) \/ Reader!CloseFlag(x)
    BY <2>1 DEF Reader!Unplug, Reader!MeetAtBarrier, Reader!Open, Reader!CloseFlag
  <2>2. CASE Reader!ReadOn(x) \/ \E m \in Reader!Modes : Reader!Read(x, m)
    <3>1. /\ caller.at \in {"idle", "woken"} /\ UNCHANGED <<arrived, cancelled>>
          /\ Reader!ReturnData(x) \/ Reader!ReturnError(x) \/ UNCHANGED <<queue, taken, failed>>
      BY <2>2 DEF Reader!ReadOn, Reader!Read, Reader!Sleep, Reader!Idle
    <3>2. CASE Reader!ReturnData(x)
      BY <3>1, <3>2 DEF Reader!ReturnData, Data
    <3>3. CASE Reader!ReturnError(x)
      BY <3>1, <3>3 DEF Reader!ReturnError, Reader!ReadsOver, Failure
    <3> QED
      BY <3>1, <3>2, <3>3
  <2> QED
    BY <1>1, <2>1, <2>2 DEF CallerActs
<1>2. ASSUME NEW x \in Readers, ThreadActs(x)
      PROVE  \/ \E y \in Readers : Stopping(y)
             \/ UNCHANGED <<queue, arrived, taken, cancelled, failed>>
  <2>1. CASE Reader!Resubmit(x)
    <3>1. callback \in Readers
      BY <2>1, ReaderConstants DEF Reader!Resubmit, Stops, ReaderTyped
    <3> QED
      BY <2>1, <3>1 DEF Reader!Resubmit, Reader!FlagsSet, Stopping
  <2>2. CASE Reader!Start(x) \/ Reader!Loop(x) \/ Reader!CancelPending(x)
    BY <2>2 DEF Reader!Start, Reader!Loop, Reader!CancelPending
  <2>3. CASE Reader!EndDrain(x) \/ Reader!Broadcast(x) \/ Reader!ReturnEmpty(x)
    BY <2>3 DEF Reader!EndDrain, Reader!Broadcast, Reader!ReturnEmpty
  <2> QED
    BY <1>2, <2>1, <2>2, <2>3 DEF ThreadActs
<1>3. ASSUME NEW t \in Readers, NEW x \in Readers, Reader!Received(t, x)
      PROVE  Report(x) \/ UNCHANGED <<queue, arrived, taken, cancelled, failed>>
  <2>1. CASE UNCHANGED <<arrived, queue>>
    BY <1>3, <2>1 DEF Reader!Received
  <2>2. CASE ~UNCHANGED <<arrived, queue>>
    BY <1>3, <2>2 DEF Reader!Received, Reader!KeepNewest, Reader!Queued, Report
  <2> QED
    BY <2>1, <2>2
<1>4. ASSUME NEW t \in Readers, NEW x \in Readers, Reader!Stopped(t, x)
      PROVE  Stopping(x)
  BY <1>4 DEF Reader!Stopped, Reader!FlagsSet, Stopping
<1>5. CASE Reader!ReadTimeout \/ Reader!CloseCancel
  BY <1>5 DEF Reader!ReadTimeout, Reader!CloseCancel
<1>6. CASE Reader!CloseFree
  <2>1. caller.dev \in Readers
    BY <1>6 DEF Reader!CloseFree, ReaderCaller
  <2> QED
    BY <1>6, <2>1 DEF Reader!CloseFree, Freeing
<1> QED
  BY <1>1, <1>2, <1>3, <1>4, <1>5, <1>6 DEF ReaderActs

(* A step of the reader is, for each device, one of ReportQueue's or none. *)
LEMMA ReaderReports ==
    ASSUME ReaderTyped, ReaderCaller, \A x \in Readers : Stops(x), ReaderActs
    PROVE  Reader!ReportsStep
<1> SUFFICES ASSUME NEW y \in Readers
    PROVE  Reader!Reports(y)!Next \/ UNCHANGED Reader!Reports(y)!vars
  BY DEF Reader!ReportsStep
<1>q. DOMAIN queue = Readers /\ DOMAIN arrived = Readers /\ DOMAIN taken = Readers /\ Stops(y)
  BY DEF ReaderTyped
<1>1. ASSUME NEW x \in Readers, x # y,
             Data(x) \/ Report(x) \/ Failure(x) \/ Freeing(x) \/ Stopping(x)
      PROVE  UNCHANGED Reader!Reports(y)!vars
  <2>1. /\ queue'[y] = queue[y] /\ arrived'[y] = arrived[y] /\ taken'[y] = taken[y]
    BY <1>1, <1>q DEF Data, Report, Failure, Freeing, Stopping
  <2>2. (y \in cancelled') = (y \in cancelled) /\ (y \in failed') = (y \in failed)
    BY <1>1 DEF Data, Report, Failure, Freeing, Stopping
  <2> QED
    BY <2>1, <2>2 DEF Reader!Reports!vars
<1>2. CASE Data(y)
  BY <1>2, <1>q DEF Data, Reader!Reports!HandOut, Reader!Reports!Next
<1>3. CASE Report(y)
  <2>1. y \notin cancelled
    BY <1>3, <1>q DEF Report, Stops
  <2>2. Reader!Reports(y)!Arrive
    BY <1>3, <1>q, <2>1 DEF Report, Reader!Reports!Arrive, Reader!Reports!Newest
  <2> QED
    BY <2>2 DEF Reader!Reports!Next
<1>4. CASE Failure(y)
  <2>1. y \in cancelled
    BY <1>4, <1>q DEF Failure, Stops
  <2>2. Reader!Reports(y)!Fail
    BY <1>4, <2>1 DEF Failure, Reader!Reports!Fail
  <2> QED
    BY <2>2 DEF Reader!Reports!Next
<1>5. CASE Freeing(y)
  <2>1. y \in cancelled
    BY <1>5, <1>q DEF Freeing, Stops
  <2>2. Reader!Reports(y)!Clear
    BY <1>5, <1>q, <2>1 DEF Freeing, Reader!Reports!Clear
  <2> QED
    BY <2>2 DEF Reader!Reports!Next
<1>6. CASE Stopping(y)
  BY <1>6 DEF Stopping, Reader!Reports!Leave, Reader!Reports!Next
<1>7. CASE UNCHANGED <<queue, arrived, taken, cancelled, failed>>
  BY <1>7 DEF Reader!Reports!vars
<1> QED
  BY <1>1, <1>2, <1>3, <1>4, <1>5, <1>6, <1>7, ReaderQueues

LEMMA ReaderTypedKept ==
    ASSUME ReaderTyped, ReaderCaller, \A x \in Readers : Stops(x), ReaderActs
    PROVE  ReaderTyped'
<1> USE ReaderConstants DEF Reader!deviceVars, Reader!history
<1>1. DOMAIN queue' = Readers /\ DOMAIN arrived' = Readers /\ DOMAIN taken' = Readers
  <2>1. ASSUME NEW x \in Readers,
               Data(x) \/ Report(x) \/ Failure(x) \/ Freeing(x) \/ Stopping(x)
        PROVE  DOMAIN queue' = Readers /\ DOMAIN arrived' = Readers /\ DOMAIN taken' = Readers
    BY <2>1 DEF ReaderTyped, Data, Report, Failure, Freeing, Stopping
  <2> QED
    BY <2>1, ReaderQueues DEF ReaderTyped
<1>2. /\ handler' \in Readers \cup {NoDevice} /\ callback' \in Readers \cup {NoDevice}
      /\ \/ UNCHANGED thread
         \/ \E x \in Readers, to \in {"start", "barrier", "loop", "events", "cancel",
                                      "drain", "wake", "ended"} :
               thread' = [thread EXCEPT ![x] = to]
      /\ \/ UNCHANGED transfer
         \/ \E x \in Readers, to \in {"none", "idle", "flight", "cancelling"} :
               transfer' = [transfer EXCEPT ![x] = to]
  <2> USE DEF ReaderTyped, Reader!GoTo
  <2>1. ASSUME NEW x \in Readers, Reader!Unplug(x) \/ CallerActs(x)
        PROVE  /\ UNCHANGED <<transfer, handler, callback>>
               /\ \/ UNCHANGED thread
                  \/ \E to \in {"start", "loop"} : thread' = [thread EXCEPT ![x] = to]
    BY <2>1
       DEF CallerActs, Reader!Unplug, Reader!MeetAtBarrier, Reader!ReadOn, Reader!Open,
           Reader!CloseFlag, Reader!Read
  <2>2. ASSUME NEW x \in Readers, Reader!Start(x) \/ Reader!Loop(x) \/ Reader!EndDrain(x)
                                  \/ Reader!Broadcast(x) \/ Reader!ReturnEmpty(x)
        PROVE  /\ UNCHANGED <<handler, callback>>
               /\ \E to \in {"barrier", "loop", "events", "cancel", "wake", "ended"} :
                     thread' = [thread EXCEPT ![x] = to]
               /\ \/ UNCHANGED transfer
                  \/ transfer' = [transfer EXCEPT ![x] = "flight"]
    BY <2>2
       DEF Reader!Start, Reader!Loop, Reader!EndDrain, Reader!Broadcast, Reader!ReturnEmpty
  <2>3. ASSUME NEW x \in Readers, Reader!CancelPending(x)
        PROVE  /\ UNCHANGED <<handler, callback>>
               /\ thread' = [thread EXCEPT ![x] = "drain"]
               /\ \/ UNCHANGED transfer
                  \/ transfer' = [transfer EXCEPT ![x] = "cancelling"]
    BY <2>3 DEF Reader!CancelPending, Reader!Cancel
  <2>4. ASSUME NEW x \in Readers, Reader!Resubmit(x)
        PROVE  /\ handler' = NoDevice /\ callback' = NoDevice
               /\ \E to \in {"loop", "drain"} : thread' = [thread EXCEPT ![x] = to]
               /\ \/ UNCHANGED transfer
                  \/ callback \in Readers /\ transfer' = [transfer EXCEPT ![callback] = "flight"]
    BY <2>4 DEF Reader!Resubmit, Reader!AfterEvents, Stops
  <2>5. ASSUME NEW t \in Readers, NEW x \in Readers, Reader!Received(t, x)
        PROVE  /\ handler' = t /\ callback' = x /\ UNCHANGED thread
               /\ transfer' = [transfer EXCEPT ![x] = "idle"]
    BY <2>5 DEF Reader!Received
  <2>6. ASSUME NEW t \in Readers, NEW x \in Readers, Reader!Stopped(t, x)
        PROVE  /\ handler' = NoDevice /\ callback' = NoDevice
               /\ \E to \in {"loop", "drain"} : thread' = [thread EXCEPT ![t] = to]
               /\ transfer' = [transfer EXCEPT ![x] = "idle"]
    BY <2>6 DEF Reader!Stopped, Reader!AfterEvents
  <2>7. ASSUME Reader!ReadTimeout \/ Reader!CloseCancel \/ Reader!CloseFree
        PROVE  /\ UNCHANGED <<thread, handler, callback>>
               /\ \/ UNCHANGED transfer
                  \/ /\ caller.dev \in Readers
                     /\ \E to \in {"none", "idle", "flight", "cancelling"} :
                           transfer' = [transfer EXCEPT ![caller.dev] = to]
    <3>1. CASE Reader!ReadTimeout
      BY <3>1 DEF Reader!ReadTimeout
    <3>2. CASE Reader!CloseCancel
      BY <3>2 DEF Reader!CloseCancel, Reader!Cancel, ReaderCaller
    <3>3. CASE Reader!CloseFree
      <4>1. caller.dev \in Readers
        BY <3>3 DEF Reader!CloseFree, ReaderCaller
      <4>2. transfer[caller.dev] \in {"none", "idle", "flight", "cancelling"}
        BY <4>1
      <4> QED
        BY <3>3, <4>1, <4>2 DEF Reader!CloseFree
    <3> QED
      BY <2>7, <3>1, <3>2, <3>3
  <2>h. handler \in Readers \cup {NoDevice} /\ callback \in Readers \cup {NoDevice}
    OBVIOUS
  <2> HIDE DEF ReaderTyped, Reader!GoTo
  <2> QED
    BY <2>1, <2>2, <2>3, <2>4, <2>5, <2>6, <2>7, <2>h DEF ReaderActs, ThreadActs
<1>3. thread' \in [Readers -> {"none", "start", "barrier", "loop", "events",
                               "cancel", "drain", "wake", "ended"}]
  BY <1>2 DEF ReaderTyped
<1>4. transfer' \in [Readers -> {"none", "idle", "flight", "cancelling"}]
  BY <1>2 DEF ReaderTyped
<1>5. freed' \subseteq Readers
  <2>1. CASE Reader!CloseFree
    <3>1. caller.dev \in Readers /\ freed' = freed \cup {caller.dev}
      BY <2>1 DEF Reader!CloseFree, ReaderCaller
    <3> QED
      BY <3>1 DEF ReaderTyped
  <2>2. CASE ~Reader!CloseFree
    <3>1. freed' = freed
      BY <2>2
         DEF ReaderActs, ThreadActs, CallerActs, Reader!Unplug, Reader!MeetAtBarrier,
             Reader!ReadOn, Reader!Open, Reader!CloseFlag, Reader!Read, Reader!Start,
             Reader!Loop, Reader!CancelPending, Reader!EndDrain, Reader!Broadcast,
             Reader!ReturnEmpty, Reader!Resubmit, Reader!Received, Reader!Stopped,
             Reader!ReadTimeout, Reader!CloseCancel
    <3> QED
      BY <3>1 DEF ReaderTyped
  <2> QED
    BY <2>1, <2>2
<1> QED
  BY <1>1, <1>2, <1>3, <1>4, <1>5 DEF ReaderTyped

LEMMA ReaderCallerKept ==
    ASSUME ReaderCaller, ReaderActs
    PROVE  ReaderCaller'
<1> USE DEF ReaderCaller, Reader!Idle, Reader!Modes
<1>1. ASSUME NEW x \in Readers, Reader!Unplug(x) \/ CallerActs(x) PROVE ReaderCaller'
  <2>1. CASE Reader!Unplug(x)
    BY <2>1 DEF Reader!Unplug
  <2>2. CASE Reader!MeetAtBarrier(x) \/ Reader!Open(x) \/ Reader!CloseFlag(x)
    BY <2>2 DEF Reader!MeetAtBarrier, Reader!Open, Reader!CloseFlag
  <2>3. ASSUME NEW m \in Reader!Modes,
               Reader!ReturnData(x) \/ Reader!ReturnError(x) \/ Reader!Sleep(x, m)
        PROVE  ReaderCaller'
    BY <2>3 DEF Reader!ReturnData, Reader!ReturnError, Reader!Sleep
  <2>4. CASE Reader!ReadOn(x) \/ \E m \in Reader!Modes : Reader!Read(x, m)
    <3>1. caller.mode \in Reader!Modes
      OBVIOUS
    <3> QED
      BY <2>3, <2>4, <3>1 DEF Reader!ReadOn, Reader!Read
  <2> QED
    BY <1>1, <2>1, <2>2, <2>4 DEF CallerActs
<1>2. ASSUME NEW x \in Readers, ThreadActs(x) PROVE ReaderCaller'
  <2>1. \/ UNCHANGED caller
        \/ caller.at = "waiting" /\ caller' = [caller EXCEPT !.at = "woken"]
    BY <1>2
       DEF ThreadActs, Reader!Start, Reader!Loop, Reader!CancelPending, Reader!EndDrain,
           Reader!Broadcast, Reader!ReturnEmpty, Reader!Resubmit, Reader!Woken, Reader!WakeCaller
  <2> QED
    BY <2>1
<1>3. ASSUME NEW t \in Readers, NEW x \in Readers, Reader!Received(t, x) \/ Reader!Stopped(t, x)
      PROVE  ReaderCaller'
  <2>1. \/ UNCHANGED caller
        \/ caller.at = "waiting" /\ caller' = [caller EXCEPT !.at = "woken"]
    BY <1>3 DEF Reader!Received, Reader!Stopped, Reader!WakeCaller
  <2> QED
    BY <2>1
<1>4. CASE Reader!ReadTimeout
  BY <1>4 DEF Reader!ReadTimeout
<1>5. CASE Reader!CloseCancel
  BY <1>5 DEF Reader!CloseCancel
<1>6. CASE Reader!CloseFree
  BY <1>6 DEF Reader!CloseFree
<1> QED
  BY <1>1, <1>2, <1>3, <1>4, <1>5, <1>6 DEF ReaderActs

(* What a step does to the places of the threads and to the transfers.     *)
LEMMA StopsKept ==
    ASSUME ReaderTyped, ReaderCaller, \A x \in Readers : Stops(x), ReaderActs, NEW y \in Readers
    PROVE  Stops(y)'
<1> USE ReaderConstants DEF Reader!deviceVars, Reader!history, Reader!GoTo
<1>t. /\ DOMAIN thread = Readers /\ DOMAIN transfer = Readers
      /\ handler \in Readers \cup {NoDevice} /\ callback \in Readers \cup {NoDevice}
  BY DEF ReaderTyped
<1>y. Stops(y)
  OBVIOUS
<1>1. ASSUME NEW x \in Readers, Reader!Unplug(x) PROVE Stops(y)'
  BY <1>1, <1>y DEF Reader!Unplug, Stops
<1>2. ASSUME NEW x \in Readers, Reader!Start(x) PROVE Stops(y)'
  <2>1. /\ thread[x] = "start" /\ transfer[x] = "none" /\ x \notin cancelled /\ callback # x
        /\ handler # x
    BY <1>2 DEF Reader!Start, Stops
  <2>2. /\ thread' = [thread EXCEPT ![x] = "barrier"]
        /\ \/ UNCHANGED transfer
           \/ transfer' = [transfer EXCEPT ![x] = "flight"]
        /\ UNCHANGED <<shutdown, cancelled, handler, callback, caller, freed>>
    BY <1>2 DEF Reader!Start
  <2>3. CASE x = y
    BY <1>t, <1>y, <2>1, <2>2, <2>3 DEF Stops
  <2>4. CASE x # y
    BY <1>t, <1>y, <2>2, <2>4 DEF Stops
  <2> QED
    BY <2>3, <2>4
<1>3. ASSUME NEW x \in Readers, NEW to,
             thread' = [thread EXCEPT ![x] = to], handler # x,
             thread[x] \notin {"none", "start", "ended"}, to \notin {"none", "start"},
             to \in {"wake", "ended"} => x \in cancelled,
             UNCHANGED <<shutdown, cancelled, transfer, handler, callback, freed>>,
             caller.at \in {"cancel", "join"} => UNCHANGED caller
      PROVE  Stops(y)'
  <2>1. CASE x = y
    BY <1>3, <1>t, <1>y, <2>1 DEF Stops
  <2>2. CASE x # y
    BY <1>3, <1>t, <1>y, <2>2 DEF Stops
  <2> QED
    BY <2>1, <2>2
<1>4. ASSUME NEW x \in Readers, Reader!Loop(x) \/ Reader!ReturnEmpty(x) PROVE Stops(y)'
  <2>1. \E to \in {"cancel", "events", "loop"} : thread' = [thread EXCEPT ![x] = to]
    BY <1>4 DEF Reader!Loop, Reader!ReturnEmpty
  <2>2. /\ handler # x /\ thread[x] \in {"loop", "events"}
        /\ UNCHANGED <<shutdown, cancelled, transfer, handler, callback, freed, caller>>
    BY <1>4 DEF Reader!Loop, Reader!ReturnEmpty, Stops
  <2> QED
    BY <1>3, <2>1, <2>2
<1>5. ASSUME NEW x \in Readers, Reader!EndDrain(x) PROVE Stops(y)'
  <2>1. /\ thread[x] = "drain" /\ handler # x /\ x \in cancelled
        /\ \E to \in {"wake"} : thread' = [thread EXCEPT ![x] = to]
        /\ UNCHANGED <<shutdown, cancelled, transfer, handler, callback, freed, caller>>
    BY <1>5 DEF Reader!EndDrain, Reader!Drained
  <2> QED
    BY <1>3, <2>1
<1>6. ASSUME NEW x \in Readers, Reader!Broadcast(x) PROVE Stops(y)'
  <2>1. /\ thread[x] = "wake" /\ x \in cancelled /\ handler # x
        /\ \E to \in {"ended"} : thread' = [thread EXCEPT ![x] = to]
        /\ UNCHANGED <<shutdown, cancelled, transfer, handler, callback, freed>>
    BY <1>6 DEF Reader!Broadcast, Stops
  <2>2. caller.at \in {"cancel", "join"} => UNCHANGED caller
    BY <1>6 DEF Reader!Broadcast, Reader!Woken, Reader!WakeCaller
  <2> QED
    BY <1>3, <2>1, <2>2
<1>7. ASSUME NEW x \in Readers, Reader!CancelPending(x) PROVE Stops(y)'
  <2>1. /\ thread[x] = "cancel" /\ handler # x
        /\ thread' = [thread EXCEPT ![x] = "drain"]
        /\ \/ UNCHANGED transfer
           \/ transfer[x] = "flight" /\ transfer' = [transfer EXCEPT ![x] = "cancelling"]
        /\ UNCHANGED <<shutdown, cancelled, handler, callback, caller, freed>>
    BY <1>7 DEF Reader!CancelPending, Reader!Cancel, Stops
  <2>2. CASE x = y
    BY <1>t, <1>y, <2>1, <2>2 DEF Stops
  <2>3. CASE x # y
    BY <1>t, <1>y, <2>1, <2>3 DEF Stops
  <2> QED
    BY <2>2, <2>3
<1>8. ASSUME NEW x \in Readers, Reader!Resubmit(x) PROVE Stops(y)'
  <2>1. /\ handler = x /\ callback \in Readers /\ transfer[callback] = "idle"
        /\ callback \notin cancelled /\ thread[x] \in {"events", "drain"}
    BY <1>8, <1>t, ReaderConstants DEF Reader!Resubmit, Stops
  <2>2. /\ handler' = NoDevice /\ callback' = NoDevice
        /\ \E to \in {"loop", "drain"} : thread' = [thread EXCEPT ![x] = to]
        /\ UNCHANGED <<caller, freed>>
    BY <1>8 DEF Reader!Resubmit, Reader!AfterEvents
  <2>3. \/ /\ transfer' = [transfer EXCEPT ![callback] = "flight"]
           /\ UNCHANGED <<shutdown, cancelled>>
        \/ /\ UNCHANGED transfer
           /\ shutdown' = shutdown \cup {callback} /\ cancelled' = cancelled \cup {callback}
    BY <1>8 DEF Reader!Resubmit, Reader!FlagsSet
  <2>4. thread[callback] \notin {"none", "start"}
    BY <2>1 DEF Stops
  <2>5. /\ thread'[y] \in {"none", "start"} <=> thread[y] \in {"none", "start"}
        /\ thread'[y] \in {"wake", "ended"} <=> thread[y] \in {"wake", "ended"}
        /\ thread'[y] = "ended" <=> thread[y] = "ended"
    BY <1>t, <2>1, <2>2
  <2>6. /\ y # callback => transfer'[y] = transfer[y]
        /\ y # callback => (y \in cancelled' <=> y \in cancelled)
        /\ y # callback => (y \in shutdown' <=> y \in shutdown)
        /\ y = callback => \/ /\ transfer'[y] = "flight" /\ y \notin cancelled'
                              /\ (y \in shutdown' <=> y \in shutdown)
                           \/ transfer'[y] = "idle" /\ y \in cancelled'
    BY <1>t, <2>1, <2>3
  <2> QED
    BY <1>y, <2>1, <2>2, <2>4, <2>5, <2>6 DEF Stops
<1>9. ASSUME NEW t \in Readers, NEW x \in Readers, Reader!Received(t, x) PROVE Stops(y)'
  <2>1. /\ handler = NoDevice /\ handler' = t /\ callback' = x
        /\ thread[t] \in {"events", "drain"} /\ transfer[x] = "flight"
        /\ transfer' = [transfer EXCEPT ![x] = "idle"]
        /\ UNCHANGED <<thread, shutdown, cancelled, freed>>
    BY <1>9 DEF Reader!Received, Reader!HandlesEvents
  <2>2. caller.at \in {"cancel", "join"} => UNCHANGED caller
    BY <1>9 DEF Reader!Received, Reader!WakeCaller
  <2>3. x \notin cancelled /\ thread[x] \notin {"none", "start"}
    BY <2>1 DEF Stops
  <2>4. callback = NoDevice
    BY <1>t, <2>1, ReaderConstants DEF Stops
  <2>5. transfer'[y] = IF x = y THEN "idle" ELSE transfer[y]
    BY <1>t, <2>1
  <2> QED
    BY <1>y, <2>1, <2>2, <2>3, <2>4, <2>5 DEF Stops
<1>10. ASSUME NEW t \in Readers, NEW x \in Readers, Reader!Stopped(t, x) PROVE Stops(y)'
  <2>1. /\ handler = NoDevice /\ handler' = NoDevice /\ callback' = NoDevice
        /\ thread[t] \in {"events", "drain"} /\ transfer[x] \in {"flight", "cancelling"}
        /\ transfer' = [transfer EXCEPT ![x] = "idle"]
        /\ shutdown' = shutdown \cup {x} /\ cancelled' = cancelled \cup {x}
        /\ \E to \in {"loop", "drain"} : thread' = [thread EXCEPT ![t] = to]
        /\ UNCHANGED <<caller, freed>>
    BY <1>10 DEF Reader!Stopped, Reader!HandlesEvents, Reader!AfterEvents, Reader!FlagsSet
  <2>2. thread[x] \notin {"none", "start"}
    BY <2>1 DEF Stops
  <2>3. transfer'[y] = IF x = y THEN "idle" ELSE transfer[y]
    BY <1>t, <2>1
  <2>4. /\ thread'[y] \in {"none", "start"} <=> thread[y] \in {"none", "start"}
        /\ thread'[y] \in {"wake", "ended"} <=> thread[y] \in {"wake", "ended"}
        /\ thread'[y] = "ended" <=> thread[y] = "ended"
    BY <1>t, <2>1
  <2> QED
    BY <1>y, <2>1, <2>2, <2>3, <2>4 DEF Stops
<1>11. ASSUME NEW x \in Readers, Reader!MeetAtBarrier(x) PROVE Stops(y)'
  <2>1. /\ thread[x] = "barrier" /\ handler # x /\ caller.at = "opening"
        /\ \E to \in {"loop"} : thread' = [thread EXCEPT ![x] = to]
        /\ UNCHANGED <<shutdown, cancelled, transfer, handler, callback, freed>>
    BY <1>11 DEF Reader!MeetAtBarrier, Stops
  <2> QED
    BY <1>3, <2>1
<1>12. ASSUME NEW x \in Readers, Reader!Open(x) PROVE Stops(y)'
  <2>1. /\ thread[x] = "none" /\ thread' = [thread EXCEPT ![x] = "start"]
        /\ caller.at = "idle" /\ handler # x /\ x \notin freed
        /\ transfer[x] = "none" /\ x \notin cancelled
        /\ UNCHANGED <<shutdown, cancelled, transfer, handler, callback, freed>>
    BY <1>12 DEF Reader!Open, Reader!Idle, Stops
  <2>2. CASE x = y
    BY <1>t, <1>y, <2>1, <2>2 DEF Stops
  <2>3. CASE x # y
    BY <1>t, <1>y, <2>1, <2>3 DEF Stops
  <2> QED
    BY <2>2, <2>3
<1>13. ASSUME UNCHANGED <<thread, shutdown, cancelled, transfer, handler, callback, freed>>,
              caller.at \notin {"cancel", "join"}
       PROVE  Stops(y)'
  BY <1>13, <1>y DEF Stops
<1>14. ASSUME NEW x \in Readers, Reader!ReadOn(x) \/ \E m \in Reader!Modes : Reader!Read(x, m)
       PROVE  Stops(y)'
  BY <1>13, <1>14 DEF Reader!ReadOn, Reader!Read, Reader!Idle
<1>15. CASE Reader!ReadTimeout
  BY <1>13, <1>15 DEF Reader!ReadTimeout
<1>16. ASSUME NEW x \in Readers, Reader!CloseFlag(x) PROVE Stops(y)'
  <2>1. /\ caller.at = "idle" /\ caller' = [at |-> "cancel", dev |-> x, mode |-> "none"]
        /\ shutdown' = shutdown \cup {x}
        /\ UNCHANGED <<thread, cancelled, transfer, handler, callback, freed>>
    BY <1>16 DEF Reader!CloseFlag, Reader!Idle
  <2> QED
    BY <1>y, <2>1 DEF Stops
<1>17. CASE Reader!CloseCancel
  <2>1. /\ caller.at = "cancel" /\ caller.dev \in Readers
        /\ caller'.at = "join" /\ caller'.dev = caller.dev
        /\ \/ UNCHANGED transfer
           \/ /\ transfer[caller.dev] = "flight"
              /\ transfer' = [transfer EXCEPT ![caller.dev] = "cancelling"]
        /\ UNCHANGED <<thread, shutdown, cancelled, handler, callback, freed>>
    BY <1>17 DEF Reader!CloseCancel, Reader!Cancel, ReaderCaller
  <2>2. \/ transfer'[y] = transfer[y]
        \/ transfer[y] = "flight" /\ transfer'[y] = "cancelling"
    BY <1>t, <2>1
  <2> QED
    BY <1>y, <2>1, <2>2 DEF Stops
<1>18. CASE Reader!CloseFree
  <2>1. /\ caller.at = "join" /\ caller.dev \in Readers /\ thread[caller.dev] = "ended"
        /\ caller'.at = "idle" /\ freed' = freed \cup {caller.dev}
        /\ transfer' = [transfer EXCEPT ![caller.dev] =
                            IF Reader!Pending(caller.dev) THEN @ ELSE "none"]
        /\ UNCHANGED <<thread, shutdown, cancelled, handler, callback>>
    BY <1>18 DEF Reader!CloseFree, ReaderCaller, Reader!Idle
  <2>2. caller.dev \in cancelled
    BY <2>1 DEF Stops
  <2>3. /\ y # caller.dev => transfer'[y] = transfer[y]
        /\ y = caller.dev => transfer'[y] = transfer[y] \/ transfer'[y] = "none"
    BY <1>t, <2>1
  <2>4. y = caller.dev => callback # y /\ y \in cancelled
    BY <1>y, <2>2 DEF Stops
  <2> QED
    BY <1>y, <2>1, <2>3, <2>4 DEF Stops
<1> QED
  BY <1>1, <1>2, <1>4, <1>5, <1>6, <1>7, <1>8, <1>9, <1>10, <1>11, <1>12, <1>14, <1>15, <1>16,
     <1>17, <1>18
     DEF ReaderActs, ThreadActs, CallerActs

LEMMA ReaderSteps == ReaderInv /\ [Next]_vars => ReaderInv'
<1> SUFFICES ASSUME part = "reader", ReaderInv, [Next]_vars PROVE ReaderInv'
  BY OnlyPart DEF ReaderInv
<1>1. UNCHANGED part /\ ReaderTyped /\ ReaderCaller /\ \A x \in Readers : Stops(x)
  BY OnlyPart DEF ReaderInv
<1>2. CASE Reader!Next
  <2>1. ReaderActs
    BY <1>2, ReaderActions
  <2>2. ReaderTyped' /\ ReaderCaller'
    BY <1>1, <2>1, ReaderTypedKept, ReaderCallerKept
  <2>3. (\A x \in Readers : Stops(x))'
    BY <1>1, <2>1, StopsKept
  <2> QED
    BY <2>2, <2>3 DEF ReaderInv
<1>3. CASE UNCHANGED vars
  BY <1>1, <1>3
     DEF vars, shared, readerOwn, ReaderInv, ReaderTyped, ReaderCaller, Stops, Reader!Idle
<1> QED
  BY <1>2, <1>3, OnlyPart DEF ReaderNext

LEMMA ReaderHolds == Spec => []ReaderInv
BY ReaderInitially, ReaderSteps, PTL DEF Spec

(* Nothing of a device is used after hid_close has freed it, although      *)
(* either thread may run the callbacks of both: for any number of devices. *)
THEOREM NoUseAfterFreeAlways == Spec => []NoUseAfterFree
<1>1. ReaderInv => NoUseAfterFree
  <2> SUFFICES ASSUME ReaderInv, part = "reader", NEW x \in freed
      PROVE  thread[x] = "ended" /\ ~Reader!Pending(x) /\ callback # x
    BY DEF NoUseAfterFree, Reader!NoUseAfterFree
  <2>1. x \in Readers
    BY DEF ReaderInv, ReaderTyped
  <2> QED
    BY <2>1 DEF ReaderInv, Stops, Reader!Pending
<1> QED
  BY <1>1, ReaderHolds, PTL

(* The reports of each device are queued, dropped and handed out as        *)
(* ReportQueue has it, whichever thread runs the callback: for any number  *)
(* of devices and reports, and any limit of the queues.                    *)
THEOREM QueuesReportsAlways == Spec => QueuesReports
<1>1. Init => (part = "reader" => Reader!ReportsInit)
  BY OnlyInit DEF ReaderInit, Reader!Init, Reader!ReportsInit, Reader!Reports!Init
<1>2. ReaderInv /\ [Next]_vars => [part = "reader" => Reader!ReportsStep]_vars
  BY OnlyPart, ReaderActions, ReaderReports DEF ReaderNext, ReaderInv
<1> QED
  BY <1>1, <1>2, ReaderHolds, PTL DEF Spec, QueuesReports

-----------------------------------------------------------------------------
(* The walks over a report descriptor: what an item is.                    *)
LEMMA ByteFacts ==
    ASSUME NEW s \in Seq(Bytes), NEW k \in Nat
    PROVE  Descriptor!ByteAt(s, k) \in 0 .. 255
<1>1. Bytes \subseteq 0 .. 255
  BY DevicesAssumption DEF Descriptor!DescriptorAssumption
<1>2. k < Len(s) => s[k + 1] \in Bytes
  BY LenProperties, ElementOfSeq
<1>3. CASE k < Len(s)
  <2>1. Descriptor!ByteAt(s, k) = s[k + 1]
    BY <1>3 DEF Descriptor!ByteAt
  <2> QED
    BY <1>1, <1>2, <1>3, <2>1
<1>4. CASE ~(k < Len(s))
  <2>1. Descriptor!ByteAt(s, k) = 0
    BY <1>4 DEF Descriptor!ByteAt
  <2> QED
    BY <2>1
<1> QED
  BY <1>3, <1>4

LEMMA Quarter ==
    ASSUME NEW x \in Nat
    PROVE  x % 4 \in 0 .. 3
OBVIOUS

LEMMA SizeFacts ==
    ASSUME NEW s \in Seq(Bytes), NEW k \in Nat
    PROVE  /\ Descriptor!DataLen(s, k) \in Nat
           /\ Descriptor!ItemSize(s, k)
                 = Descriptor!DataLen(s, k) + Descriptor!KeySize(Descriptor!ByteAt(s, k))
           /\ Descriptor!ItemSize(s, k) \in Nat \ {0}
<1> DEFINE key == Descriptor!ByteAt(s, k)
<1>1. key \in 0 .. 255 /\ Descriptor!ByteAt(s, k + 1) \in 0 .. 255
  BY ByteFacts
<1>2. key % 4 \in 0 .. 3
  <2> HIDE DEF key
  <2> QED
    BY <1>1, Quarter
<1>3. <<0, 1, 2, 4>>[1 + (key % 4)] = IF key % 4 = 3 THEN 4 ELSE key % 4
  BY <1>2
<1>4. CASE Descriptor!IsLong(key)
  <2> DEFINE n == IF k + 1 < Len(s) THEN Descriptor!ByteAt(s, k + 1) ELSE 0
  <2>1. /\ Descriptor!ItemSize(s, k) = 3 + n
        /\ Descriptor!DataLen(s, k) = n
        /\ Descriptor!KeySize(key) = 3
    BY <1>4 DEF Descriptor!DataLen, Descriptor!KeySize, Descriptor!ItemSize
  <2>2. n \in Nat
    <3>1. Descriptor!ByteAt(s, k + 1) \in Nat
      <4>1. k + 1 \in Nat /\ \A x \in 0 .. 255 : x \in Nat
        OBVIOUS
      <4>2. Descriptor!ByteAt(s, k + 1) \in 0 .. 255
        BY <4>1, ByteFacts
      <4> QED
        BY <4>1, <4>2, Zenon
    <3>2. CASE k + 1 < Len(s)
      BY <3>1, <3>2
    <3>3. CASE ~(k + 1 < Len(s))
      BY <3>3
    <3> QED
      BY <3>2, <3>3
  <2> HIDE DEF n, key
  <2>3. 3 + n = n + 3 /\ 3 + n \in Nat \ {0}
    BY <2>2
  <2> QED
    BY <2>1, <2>2, <2>3 DEF key
<1>5. CASE ~Descriptor!IsLong(key)
  <2> HIDE DEF key
  <2>1. /\ Descriptor!ItemSize(s, k) = 1 + (IF key % 4 = 3 THEN 4 ELSE key % 4)
        /\ Descriptor!DataLen(s, k) = IF key % 4 = 3 THEN 4 ELSE key % 4
        /\ Descriptor!KeySize(key) = 1
    BY <1>3, <1>5 DEF key, Descriptor!DataLen, Descriptor!KeySize, Descriptor!ItemSize,
       Descriptor!SizeCode
  <2> QED
    BY <1>2, <2>1 DEF key
<1> QED
  BY <1>4, <1>5

(* The items that a walk has passed when it is at n.                       *)
Walked(s, n) ==
    /\ n \in Nat
    /\ n \in Descriptor!Items(s) \/ n >= Len(s)
    /\ \A k \in Descriptor!Items(s) : k < n => k + Descriptor!ItemSize(s, k) <= n

LEMMA FirstItem ==
    ASSUME NEW s \in Seq(Bytes)
    PROVE  Walked(s, 0)
<1>1. Len(s) \in Nat
  BY LenProperties
<1>2. Len(s) > 0 => 0 \in Descriptor!Items(s)
  BY <1>1 DEF Descriptor!Items, Descriptor!Offsets
<1>3. \A k \in Descriptor!Items(s) : ~(k < 0)
  BY <1>1 DEF Descriptor!Items, Descriptor!Offsets
<1> QED
  BY <1>1, <1>2, <1>3 DEF Walked

(* Behind an item is the next, and none is between them.                   *)
LEMMA NextItem ==
    ASSUME NEW s \in Seq(Bytes), NEW n, Walked(s, n), n < Len(s),
           NEW m, m = n + Descriptor!ItemSize(s, n)
    PROVE  /\ Walked(s, m) /\ n < m
           /\ \A k \in Descriptor!Items(s) : k < m <=> k < n \/ k = n
<1> DEFINE I == Descriptor!Items(s)
           size(k) == Descriptor!ItemSize(s, k)
           O == Descriptor!Offsets(s)
<1>1. /\ Len(s) \in Nat /\ n \in Nat /\ n \in I
      /\ \A k \in I : k < n => k + size(k) <= n
  BY LenProperties DEF Walked
<1>2. \A k \in Nat : size(k) \in Nat \ {0}
  BY SizeFacts
<1>3. O = {k \in 0 .. Len(s) : k < Len(s)} /\ I \subseteq O /\ O \subseteq Nat
  BY DEF Descriptor!Offsets, Descriptor!Items
<1>4. ASSUME NEW k \in I, k + size(k) \in O PROVE k + size(k) \in I
  <2>1. SUFFICES ASSUME NEW S \in SUBSET O, 0 \in S, Descriptor!Behind(s, S) \subseteq S
                 PROVE  k + size(k) \in S
    BY <1>4 DEF Descriptor!Items
  <2>2. k \in S
    BY <2>1 DEF Descriptor!Items
  <2>3. k + size(k) \in Descriptor!Behind(s, S)
    BY <1>4, <2>2 DEF Descriptor!Behind
  <2> QED
    BY <2>1, <2>3
<1>5. 0 \in I
  <2>1. 0 \in O
    BY <1>1, <1>3
  <2> QED
    BY <2>1 DEF Descriptor!Items
<1>6. m \in Nat /\ n < m
  <2>1. size(n) \in Nat \ {0} /\ m = n + size(n)
    BY <1>1, <1>2
  <2> HIDE DEF size
  <2> QED
    BY <1>1, <2>1
<1> DEFINE S == {k \in I : k <= n} \cup {k \in O : k >= m}
<1>7. I \subseteq S
  <2>1. S \subseteq O /\ 0 \in S
    BY <1>1, <1>3, <1>5
  <2>2. ASSUME NEW k \in S, k + size(k) \in O PROVE k + size(k) \in S
    <3>1. k \in Nat /\ size(k) \in Nat \ {0}
      BY <1>2, <1>3
    <3>2. CASE k >= m
      BY <1>6, <2>2, <3>1, <3>2
    <3>3. CASE k \in I /\ k = n
      BY <1>6, <2>2, <3>3
    <3>4. CASE k \in I /\ k < n
      BY <1>1, <1>4, <2>2, <3>4
    <3> QED
      BY <1>1, <3>1, <3>2, <3>3, <3>4
  <2>3. Descriptor!Behind(s, S) \subseteq S
    BY <2>2 DEF Descriptor!Behind
  <2> HIDE DEF S
  <2> QED
    BY <2>1, <2>3 DEF Descriptor!Items
<1>8. \A k \in I : k < m <=> k < n \/ k = n
  BY <1>1, <1>3, <1>6, <1>7
<1>9. \A k \in I : k < m => k + size(k) <= m
  <2> SUFFICES ASSUME NEW k \in I, k < m PROVE k + size(k) <= m
    OBVIOUS
  <2>1. k \in Nat /\ size(k) \in Nat
    BY <1>2, <1>3
  <2>2. k < n => k + size(k) <= n
    BY <1>1
  <2> HIDE DEF size
  <2>3. k = n => k + size(k) = m
    BY DEF size
  <2> QED
    BY <1>1, <1>6, <1>8, <2>1, <2>2, <2>3
<1>10. m \in I \/ m >= Len(s)
  <2>1. CASE m < Len(s)
    <3>1. m \in O
      BY <1>1, <1>3, <1>6, <2>1
    <3> QED
      BY <1>1, <1>4, <3>1
  <2> QED
    BY <1>1, <1>6, <2>1
<1> QED
  BY <1>6, <1>8, <1>9, <1>10 DEF Walked

(* The first and the last of a set of offsets.                             *)
LEMMA FirstIs ==
    ASSUME NEW S \in SUBSET Nat, S # {}
    PROVE  /\ Descriptor!First(S) \in S
           /\ \A m \in S : Descriptor!First(S) <= m
<1>1. \E k \in S : \A m \in S : k <= m
  BY Least
<1> QED
  BY <1>1 DEF Descriptor!First

LEMMA LastIs ==
    ASSUME NEW S \in SUBSET Nat, NEW n \in S, \A m \in S : m <= n
    PROVE  Descriptor!Last(S) = n
<1>1. Descriptor!Last(S) \in S /\ \A m \in S : m <= Descriptor!Last(S)
  BY DEF Descriptor!Last
<1>2. Descriptor!Last(S) \in Nat /\ n \in Nat
  BY <1>1
<1>3. Descriptor!Last(S) <= n /\ n <= Descriptor!Last(S)
  BY <1>1
<1> QED
  BY <1>2, <1>3

Before(S, n) == {k \in S : k < n}
Upto(S, n) == {k \in S : k <= n}

(* Two sets, of which one has nothing before n: what is first in both is   *)
(* not before n, and it is n if neither is empty up to n.                  *)
LEMMA LaterFirst ==
    ASSUME NEW S \in SUBSET Nat, NEW T \in SUBSET Nat, NEW n \in Nat, S # {}, T # {},
           Before(S, n) = {} \/ Before(T, n) = {},
           NEW x, x = Descriptor!Last({Descriptor!First(S), Descriptor!First(T)})
    PROVE  /\ x \in Nat /\ x >= n
           /\ Upto(S, n) # {} /\ Upto(T, n) # {} => x = n
<1> DEFINE p == Descriptor!First(S)
           q == Descriptor!First(T)
<1>1. /\ p \in S /\ p \in Nat /\ \A m \in S : p <= m
      /\ q \in T /\ q \in Nat /\ \A m \in T : q <= m
  BY FirstIs
<1> HIDE DEF p, q
<1>2. x = Descriptor!Last({p, q})
  BY DEF p, q
<1>3. CASE p <= q
  <2>1. x = q
    BY <1>1, <1>2, <1>3, LastIs
  <2>2. q >= n
    BY <1>1, <1>3 DEF Before
  <2>3. ASSUME Upto(T, n) # {} PROVE q <= n
    <3>1. PICK m \in T : m <= n
      BY <2>3 DEF Upto
    <3> QED
      BY <1>1, <3>1
  <2> QED
    BY <1>1, <2>1, <2>2, <2>3
<1>4. CASE q <= p
  <2>1. x = p
    BY <1>1, <1>2, <1>4, LastIs
  <2>2. p >= n
    BY <1>1, <1>4 DEF Before
  <2>3. ASSUME Upto(S, n) # {} PROVE p <= n
    <3>1. PICK m \in S : m <= n
      BY <2>3 DEF Upto
    <3> QED
      BY <1>1, <3>1
  <2> QED
    BY <1>1, <2>1, <2>2, <2>3
<1> QED
  BY <1>1, <1>3, <1>4

(* A usage or a page has a value that the walkers read, and None is none.  *)
Walks == walker \in {"u2f", "libusb"} /\ descriptor \in Seq(Bytes)

LEMMA ValueRead ==
    ASSUME Walks, NEW n \in Nat,
           Descriptor!Command(Descriptor!ByteAt(descriptor, n)) \in {4, 8}
    PROVE  /\ Descriptor!GetBytes(walker, descriptor, n, Descriptor!DataLen(descriptor, n))
                 = Descriptor!ValueOf(n)
           /\ Descriptor!ValueOf(n) # Descriptor!None
<1> DEFINE key == Descriptor!ByteAt(descriptor, n)
           low == Descriptor!ByteAt(descriptor, n + 1)
           high == Descriptor!ByteAt(descriptor, n + 2)
           len == Descriptor!DataLen(descriptor, n)
<1>1. key \in 0 .. 255 /\ low \in 0 .. 255 /\ high \in 0 .. 255
  <2>1. n + 1 \in Nat /\ n + 2 \in Nat
    OBVIOUS
  <2> QED
    BY <2>1, ByteFacts DEF Walks
<1>2. key % 4 \in 0 .. 3 /\ (key - (key % 4) = 4 \/ key - (key % 4) = 8)
  <2>1. key - (key % 4) \in {4, 8}
    BY DEF Descriptor!Command
  <2> HIDE DEF key
  <2> QED
    BY <1>1, <2>1, Quarter
<1>3. ~(key >= 240)
  <2> HIDE DEF key
  <2> QED
    BY <1>1, <1>2
<1>4. len = (IF key % 4 = 3 THEN 4 ELSE key % 4)
  BY <1>3 DEF Descriptor!DataLen, Descriptor!IsLong, Descriptor!SizeCode
<1>5. len \in {0, 1, 2, 4}
  <2> HIDE DEF key, len
  <2> QED
    BY <1>2, <1>4
<1>6. Len(descriptor) \in Nat
  BY LenProperties DEF Walks
<1> DEFINE none == len = 0 \/ n + len >= Len(descriptor) \/ (len = 4 /\ walker = "u2f")
<1>7. Descriptor!ValueOf(n) = IF none THEN 0 ELSE low + (IF len > 1 THEN 256 * high ELSE 0)
  BY DEF Descriptor!ValueOf
<1>8. Descriptor!DataOffsets(walker, descriptor, n, len)
        = IF n + len < Len(descriptor) /\ (len = 4 => walker = "libusb") /\ len \in {1, 2, 4}
          THEN n + 1 .. n + len ELSE {}
  BY DEF Descriptor!DataOffsets, Descriptor!Fits
<1>9. Descriptor!GetBytes(walker, descriptor, n, len)
        = IF Descriptor!DataOffsets(walker, descriptor, n, len) = {} THEN 0
          ELSE IF len = 1 THEN low ELSE high * 256 + low
  BY DEF Descriptor!GetBytes
<1> HIDE DEF key, low, high, len
<1>10. Descriptor!DataOffsets(walker, descriptor, n, len) = {} <=> none
  BY <1>5, <1>6, <1>8 DEF Walks
<1> HIDE DEF none
<1>11. CASE none
  BY <1>7, <1>9, <1>10, <1>11 DEF len, Descriptor!None
<1>12. CASE ~none
  <2>1. len = 1 \/ (len > 1 /\ len # 1)
    <3>1. len # 0
      BY <1>12 DEF none
    <3>2. len = 1 \/ len = 2 \/ len = 4
      BY <1>5, <3>1
    <3>3. \A x \in {2, 4} : x > 1 /\ x # 1
      OBVIOUS
    <3>4. len \in {2, 4} => len > 1 /\ len # 1
      BY <3>3
    <3> QED
      BY <3>2, <3>4
  <2>2. CASE len = 1
    <3>1. Descriptor!ValueOf(n) = low
      BY <1>1, <1>7, <1>12, <2>2
    <3> QED
      BY <1>1, <1>9, <1>10, <1>12, <2>2, <3>1 DEF len, Descriptor!None
  <2>3. CASE len > 1 /\ len # 1
    <3>1. Descriptor!ValueOf(n) = low + 256 * high
      BY <1>7, <1>12, <2>3
    <3>2. low + 256 * high = high * 256 + low /\ low + 256 * high # 65536
      BY <1>1
    <3> QED
      BY <1>9, <1>10, <1>12, <2>3, <3>1, <3>2 DEF len, Descriptor!None
  <2> QED
    BY <2>1, <2>2, <2>3
<1> QED
  BY <1>11, <1>12

-----------------------------------------------------------------------------
(* The walks: what is known of the items passed is the last value of each  *)
(* kind, not both are known, and nothing passed was to stop the walk.      *)
Pages == Descriptor!ItemsOf(4)
Usages == Descriptor!ItemsOf(8)
Known(S, value) ==
    /\ S = {} <=> value = Descriptor!None
    /\ S # {} => Descriptor!Last(S) \in S /\ value = Descriptor!ValueOf(Descriptor!Last(S))

Walking ==
    /\ walker \in {"u2f", "libusb"} =>
          /\ Known(Before(Pages, i), page) /\ Known(Before(Usages, i), usage)
          /\ Before(Pages, i) = {} \/ Before(Usages, i) = {}
    /\ walker = "u2f" => Before(Descriptor!LongItems, i) = {}
    /\ walker = "numbered" =>
          \A k \in Descriptor!Items(descriptor) :
              k < i => Descriptor!ByteAt(descriptor, k) # 133

DescriptorTyped ==
    /\ walker \in {"u2f", "libusb", "numbered"}
    /\ descriptor \in Seq(Bytes) /\ Len(descriptor) <= MaxSize
    /\ result \in {"none", "found", "failed"}

DescriptorInv ==
    part = "descriptor" =>
        /\ DescriptorTyped
        /\ Walked(descriptor, i)
        /\ result = "none" => Walking
        /\ Descriptor!UsageExact /\ Descriptor!NumberedExact /\ Descriptor!InBounds

LEMMA DescriptorInitially == Init => DescriptorInv
<1> SUFFICES ASSUME DescriptorInit, part = "descriptor"
             PROVE  /\ DescriptorTyped /\ Walked(descriptor, i) /\ Walking
                    /\ result = "none" /\ touched = {}
  BY OnlyInit DEF DescriptorInv, Descriptor!UsageExact, Descriptor!NumberedExact,
     Descriptor!InBounds
<1>1. /\ walker \in Walkers /\ i = 0 /\ page = Descriptor!None /\ usage = Descriptor!None
      /\ touched = {} /\ result = "none"
      /\ descriptor \in UNION {[1 .. n -> Bytes] : n \in 0 .. MaxSize}
  BY DEF DescriptorInit, Descriptor!Init
<1>2. Walkers \subseteq {"u2f", "libusb", "numbered"} /\ MaxSize \in Nat
  BY DevicesAssumption DEF Descriptor!DescriptorAssumption
<1>3. PICK n \in 0 .. MaxSize : descriptor \in [1 .. n -> Bytes]
  BY <1>1
<1>4. descriptor \in Seq(Bytes) /\ Len(descriptor) = n
  BY <1>2, <1>3
<1>5. Walked(descriptor, 0)
  BY <1>4, FirstItem
<1>6. Descriptor!Items(descriptor) \subseteq Nat
  BY <1>4 DEF Descriptor!Items, Descriptor!Offsets
<1>7. ASSUME NEW S \in SUBSET Nat PROVE Before(S, 0) = {}
  <2>1. \A k \in S : ~(k < 0)
    OBVIOUS
  <2> QED
    BY <2>1 DEF Before
<1>8. Before(Pages, 0) = {} /\ Before(Usages, 0) = {} /\ Before(Descriptor!LongItems, 0) = {}
  BY <1>6, <1>7 DEF Pages, Usages, Descriptor!ItemsOf, Descriptor!LongItems
<1>9. Walking
  BY <1>1, <1>6, <1>8 DEF Walking, Known
<1> QED
  BY <1>1, <1>2, <1>3, <1>4, <1>5, <1>9 DEF DescriptorTyped

(* What the items are does not change as they are walked over.             *)
LEMMA SameItems ==
    ASSUME UNCHANGED <<walker, descriptor>>
    PROVE  /\ Pages' = Pages /\ Usages' = Usages
           /\ Descriptor!LongItems' = Descriptor!LongItems
           /\ Descriptor!Both' = Descriptor!Both
           /\ \A k : Descriptor!ValueOf(k)' = Descriptor!ValueOf(k)
<1>1. Descriptor!ItemsOf(4)' = Descriptor!ItemsOf(4) /\ Descriptor!ItemsOf(8)' = Descriptor!ItemsOf(8)
  BY DEF Descriptor!ItemsOf
<1>2. Descriptor!LongItems' = Descriptor!LongItems
  BY DEF Descriptor!LongItems
<1>3. \A k : Descriptor!ValueOf(k)' = Descriptor!ValueOf(k)
  BY DEF Descriptor!ValueOf
<1> QED
  BY <1>1, <1>2, <1>3 DEF Pages, Usages, Descriptor!Both

LEMMA ItemFacts ==
    ASSUME descriptor \in Seq(Bytes)
    PROVE  /\ Len(descriptor) \in Nat
           /\ Descriptor!Items(descriptor) \subseteq {k \in Nat : k < Len(descriptor)}
           /\ Pages \subseteq Descriptor!Items(descriptor)
           /\ Usages \subseteq Descriptor!Items(descriptor)
           /\ Descriptor!LongItems \subseteq Descriptor!Items(descriptor)
           /\ Pages \in SUBSET Nat /\ Usages \in SUBSET Nat
           /\ Pages \cap Usages = {}
<1>1. Len(descriptor) \in Nat
  BY LenProperties
<1>2. Descriptor!Items(descriptor) \subseteq {k \in Nat : k < Len(descriptor)}
  BY <1>1 DEF Descriptor!Items, Descriptor!Offsets
<1>3. /\ Pages \subseteq Descriptor!Items(descriptor)
      /\ Usages \subseteq Descriptor!Items(descriptor)
      /\ Descriptor!LongItems \subseteq Descriptor!Items(descriptor)
  BY DEF Pages, Usages, Descriptor!ItemsOf, Descriptor!LongItems
<1>4. Pages \cap Usages = {}
  BY DEF Pages, Usages, Descriptor!ItemsOf
<1> QED
  BY <1>1, <1>2, <1>3, <1>4

(* Where page and usage are first both known.                              *)
LEMMA BothFacts ==
    ASSUME descriptor \in Seq(Bytes), Len(descriptor) <= MaxSize, NEW n \in Nat,
           Before(Pages, n) = {} \/ Before(Usages, n) = {}
    PROVE  /\ Descriptor!Both \in Nat
           /\ Descriptor!Both < MaxSize => Descriptor!Both >= n /\ n < Len(descriptor)
           /\ Upto(Pages, n) # {} /\ Upto(Usages, n) # {} /\ n < Len(descriptor) =>
                 Descriptor!Both = n /\ Descriptor!Both < MaxSize
<1>1. MaxSize \in Nat
  BY DevicesAssumption DEF Descriptor!DescriptorAssumption
<1>2. /\ Len(descriptor) \in Nat
      /\ Pages \in SUBSET Nat /\ Usages \in SUBSET Nat
      /\ \A k \in Pages : k < Len(descriptor)
      /\ \A k \in Usages : k < Len(descriptor)
  BY ItemFacts
<1>3. CASE Pages = {} \/ Usages = {}
  <2>1. Descriptor!Both = MaxSize
    BY <1>3 DEF Descriptor!Both, Pages, Usages
  <2>2. Upto(Pages, n) = {} \/ Upto(Usages, n) = {}
    BY <1>3 DEF Upto
  <2> QED
    BY <1>1, <2>1, <2>2
<1>4. CASE Pages # {} /\ Usages # {}
  <2>1. Descriptor!Both = Descriptor!Last({Descriptor!First(Pages), Descriptor!First(Usages)})
    BY <1>4 DEF Descriptor!Both, Pages, Usages
  <2>2. /\ Descriptor!Both \in Nat /\ Descriptor!Both >= n
        /\ Upto(Pages, n) # {} /\ Upto(Usages, n) # {} => Descriptor!Both = n
    BY <1>2, <1>4, <2>1, LaterFirst
  <2>3. n < Len(descriptor)
    <3>1. CASE Before(Pages, n) = {}
      <4>1. PICK k \in Pages : TRUE
        BY <1>4
      <4> QED
        BY <1>2, <3>1, <4>1 DEF Before
    <3>2. CASE Before(Usages, n) = {}
      <4>1. PICK k \in Usages : TRUE
        BY <1>4
      <4> QED
        BY <1>2, <3>2, <4>1 DEF Before
    <3> QED
      BY <3>1, <3>2
  <2> QED
    BY <1>1, <1>2, <2>2, <2>3
<1> QED
  BY <1>3, <1>4

LEMMA ItemByItem ==
    ASSUME Walked(descriptor, i), i < Len(descriptor), descriptor \in Seq(Bytes),
           Descriptor!Skip
    PROVE  /\ Walked(descriptor, i')
           /\ \A k \in Descriptor!Items(descriptor) : k < i' <=> k < i \/ k = i
           /\ \A S \in SUBSET Descriptor!Items(descriptor) : Before(S, i') = Upto(S, i)
<1>1. i \in Nat /\ Descriptor!Items(descriptor) \subseteq Nat
  BY ItemFacts DEF Walked
<1>2. i' = i + Descriptor!ItemSize(descriptor, i)
  <2> DEFINE len == Descriptor!DataLen(descriptor, i)
             head == Descriptor!KeySize(Descriptor!ByteAt(descriptor, i))
  <2>1. /\ len \in Nat /\ Descriptor!ItemSize(descriptor, i) = len + head
        /\ head \in {1, 3}
    BY <1>1, SizeFacts DEF Descriptor!KeySize
  <2>2. i' = i + len + head
    BY DEF Descriptor!Skip
  <2> HIDE DEF len, head
  <2> QED
    BY <1>1, <2>1, <2>2
<1>3. /\ Walked(descriptor, i')
      /\ \A k \in Descriptor!Items(descriptor) : k < i' <=> k < i \/ k = i
  BY <1>2, NextItem
<1>4. ASSUME NEW S \in SUBSET Descriptor!Items(descriptor) PROVE Before(S, i') = Upto(S, i)
  <2>1. \A k \in S : k < i' <=> k <= i
    BY <1>1, <1>3
  <2> QED
    BY <2>1 DEF Before, Upto
<1> QED
  BY <1>3, <1>4

(* The value that is the last one up to an item.                           *)
LEMMA KnownUpto ==
    ASSUME Walks, NEW S \in SUBSET Nat, NEW n \in Nat, NEW old, NEW new,
           Known(Before(S, n), old),
           n \in S => Descriptor!Command(Descriptor!ByteAt(descriptor, n)) \in {4, 8},
           new = IF n \in S
                 THEN Descriptor!GetBytes(walker, descriptor, n,
                                          Descriptor!DataLen(descriptor, n))
                 ELSE old
    PROVE  Known(Upto(S, n), new)
<1>1. CASE n \in S
  <2>1. Descriptor!Last(Upto(S, n)) = n /\ n \in Upto(S, n)
    BY <1>1, LastIs DEF Upto
  <2>2. new = Descriptor!ValueOf(n) /\ new # Descriptor!None
    BY <1>1, ValueRead
  <2> QED
    BY <2>1, <2>2 DEF Known
<1>2. CASE n \notin S
  <2>1. \A k \in S : k < n <=> k <= n
    BY <1>2
  <2>2. Before(S, n) = Upto(S, n)
    BY <2>1 DEF Before, Upto
  <2> QED
    BY <1>2, <2>2
<1> QED
  BY <1>1, <1>2

(* One turn of uses_numbered_reports.                                      *)
LEMMA NumberedWalks ==
    ASSUME part = "descriptor", DescriptorInv, result = "none", i < Len(descriptor),
           Descriptor!NumberedTurn, UNCHANGED <<walker, descriptor>>
    PROVE  /\ Walked(descriptor, i') /\ result' \in {"none", "found"}
           /\ result' = "none" => Walking'
           /\ Descriptor!NumberedExact'
<1>1. /\ walker = "numbered" /\ walker' = "numbered" /\ descriptor' = descriptor
      /\ descriptor \in Seq(Bytes) /\ Walked(descriptor, i)
      /\ \A k \in Descriptor!Items(descriptor) :
            k < i => Descriptor!ByteAt(descriptor, k) # 133
  BY DEF DescriptorInv, DescriptorTyped, Walking, Descriptor!NumberedTurn
<1>2. i \in Descriptor!Items(descriptor)
  BY <1>1, ItemFacts DEF Walked
<1>3. CASE Descriptor!ByteAt(descriptor, i) = 133
  <2>1. result' = "found" /\ i' = i
    BY <1>3 DEF Descriptor!NumberedTurn
  <2> QED
    BY <1>1, <1>2, <1>3, <2>1 DEF Descriptor!NumberedExact
<1>4. CASE Descriptor!ByteAt(descriptor, i) # 133
  <2>1. result' = "none" /\ Descriptor!Skip
    BY <1>4 DEF Descriptor!NumberedTurn
  <2>2. /\ Walked(descriptor, i')
        /\ \A k \in Descriptor!Items(descriptor) : k < i' <=> k < i \/ k = i
    BY <1>1, <2>1, ItemByItem
  <2>3. \A k \in Descriptor!Items(descriptor) :
            k < i' => Descriptor!ByteAt(descriptor, k) # 133
    BY <1>1, <1>4, <2>2
  <2> QED
    BY <1>1, <2>1, <2>2, <2>3 DEF Descriptor!NumberedExact, Walking
<1> QED
  BY <1>3, <1>4

(* One turn of the two get_usage.                                          *)
LEMMA UsageWalks ==
    ASSUME part = "descriptor", DescriptorInv, result = "none", i < Len(descriptor),
           Descriptor!UsageTurn, UNCHANGED <<walker, descriptor>>
    PROVE  /\ Walked(descriptor, i') /\ result' \in {"none", "found", "failed"}
           /\ result' = "none" => Walking'
           /\ Descriptor!UsageExact'
<1> DEFINE key == Descriptor!ByteAt(descriptor, i)
           value == Descriptor!GetBytes(walker, descriptor, i,
                                        Descriptor!DataLen(descriptor, i))
<1>1. /\ walker \in {"u2f", "libusb"} /\ walker' = walker /\ descriptor' = descriptor
      /\ descriptor \in Seq(Bytes) /\ Len(descriptor) <= MaxSize /\ Walked(descriptor, i)
      /\ Known(Before(Pages, i), page) /\ Known(Before(Usages, i), usage)
      /\ Before(Pages, i) = {} \/ Before(Usages, i) = {}
      /\ walker = "u2f" => Before(Descriptor!LongItems, i) = {}
  BY DEF DescriptorInv, DescriptorTyped, Walking, Descriptor!UsageTurn
<1>2. /\ Walks /\ i \in Nat /\ i \in Descriptor!Items(descriptor)
      /\ Len(descriptor) \in Nat
      /\ Pages \in SUBSET Nat /\ Usages \in SUBSET Nat
      /\ Pages \subseteq Descriptor!Items(descriptor)
      /\ Usages \subseteq Descriptor!Items(descriptor)
      /\ Descriptor!LongItems \subseteq Descriptor!Items(descriptor)
      /\ Descriptor!Items(descriptor) \subseteq Nat
  BY <1>1, ItemFacts DEF Walks, Walked
<1>3. /\ i \in Pages <=> Descriptor!Command(key) = 4
      /\ i \in Usages <=> Descriptor!Command(key) = 8
      /\ i \in Descriptor!LongItems <=> Descriptor!IsLong(key)
  BY <1>2 DEF Pages, Usages, Descriptor!ItemsOf, Descriptor!LongItems
<1>4. /\ Pages' = Pages /\ Usages' = Usages
      /\ Descriptor!LongItems' = Descriptor!LongItems
      /\ Descriptor!Both' = Descriptor!Both
      /\ \A k : Descriptor!ValueOf(k)' = Descriptor!ValueOf(k)
  BY SameItems
<1>5. /\ Descriptor!Both \in Nat
      /\ Descriptor!Both < MaxSize => Descriptor!Both >= i
      /\ Upto(Pages, i) # {} /\ Upto(Usages, i) # {} =>
            Descriptor!Both = i /\ Descriptor!Both < MaxSize
  BY <1>1, <1>2, BothFacts
<1> DEFINE IsExact ==
             /\ result' = "found" <=>
                   /\ Descriptor!Both < MaxSize
                   /\ (walker = "u2f" =>
                          Descriptor!LongItems \cap Descriptor!Until(Descriptor!Both) = {})
             /\ result' = "found" =>
                   /\ \E k \in Pages \cap Descriptor!Until(Descriptor!Both) :
                          page' = Descriptor!ValueOf(k)
                   /\ \E k \in Usages \cap Descriptor!Until(Descriptor!Both) :
                          usage' = Descriptor!ValueOf(k)
             /\ result' = "found" /\ walker = "u2f" =>
                   /\ page' = Descriptor!ValueOf(Descriptor!Last(
                                Pages \cap Descriptor!Until(Descriptor!Both)))
                   /\ usage' = Descriptor!ValueOf(Descriptor!Last(
                                Usages \cap Descriptor!Until(Descriptor!Both)))
<1>6. ASSUME result' # "none" => IsExact PROVE Descriptor!UsageExact'
  BY <1>1, <1>4, <1>6 DEF Descriptor!UsageExact, Pages, Usages, Descriptor!Until
<1>7. CASE walker = "u2f" /\ Descriptor!IsLong(key)
  <2>1. result' = "failed" /\ i' = i
    BY <1>7 DEF Descriptor!UsageTurn
  <2>2. ASSUME Descriptor!Both < MaxSize
        PROVE  i \in Descriptor!LongItems \cap Descriptor!Until(Descriptor!Both)
    BY <1>2, <1>3, <1>5, <1>7, <2>2 DEF Descriptor!Until
  <2>3. IsExact
    BY <1>7, <2>1, <2>2
  <2> QED
    BY <1>1, <1>6, <2>1, <2>3
<1>8. CASE ~(walker = "u2f" /\ Descriptor!IsLong(key))
  <2>1. /\ page' = IF i \in Pages THEN value ELSE page
        /\ usage' = IF i \in Usages THEN value ELSE usage
        /\ IF page' # Descriptor!None /\ usage' # Descriptor!None
           THEN result' = "found" /\ UNCHANGED i
           ELSE Descriptor!Skip /\ UNCHANGED result
    BY <1>3, <1>8 DEF Descriptor!UsageTurn, Descriptor!IsPage, Descriptor!IsUsage
  <2> HIDE DEF IsExact
  <2>2. Known(Upto(Pages, i), page') /\ Known(Upto(Usages, i), usage')
    BY <1>1, <1>2, <1>3, <2>1, KnownUpto
  <2>3. walker = "u2f" => Upto(Descriptor!LongItems, i) = {}
    <3> SUFFICES ASSUME walker = "u2f", NEW k \in Descriptor!LongItems, k <= i
                 PROVE  FALSE
      BY DEF Upto
    <3>1. k # i /\ k \in Nat
      BY <1>2, <1>3, <1>8
    <3>2. k < i
      BY <1>2, <3>1
    <3> QED
      BY <1>1, <3>2 DEF Before
  <2>4. CASE page' # Descriptor!None /\ usage' # Descriptor!None
    <3>1. result' = "found" /\ i' = i
      BY <2>1, <2>4
    <3>2. Upto(Pages, i) # {} /\ Upto(Usages, i) # {}
      BY <2>2, <2>4 DEF Known
    <3>3. Descriptor!Both = i /\ Descriptor!Both < MaxSize
      BY <1>5, <3>2
    <3>4. ASSUME NEW S \in SUBSET Nat PROVE S \cap Descriptor!Until(i) = Upto(S, i)
      <4>1. \A k \in S : k \in 0 .. i <=> k <= i
        BY <1>2
      <4> QED
        BY <4>1 DEF Descriptor!Until, Upto
    <3>5. Descriptor!LongItems \in SUBSET Nat
      BY <1>2
    <3>6. IsExact
      <4>1. /\ Pages \cap Descriptor!Until(i) = Upto(Pages, i)
            /\ Usages \cap Descriptor!Until(i) = Upto(Usages, i)
            /\ Descriptor!LongItems \cap Descriptor!Until(i) = Upto(Descriptor!LongItems, i)
        BY <1>2, <3>4, <3>5
      <4> QED
        BY <2>2, <2>3, <3>1, <3>2, <3>3, <4>1 DEF IsExact, Known
    <3> QED
      BY <1>1, <1>6, <3>1, <3>6
  <2>5. CASE ~(page' # Descriptor!None /\ usage' # Descriptor!None)
    <3>1. Descriptor!Skip /\ result' = "none"
      BY <2>1, <2>5
    <3>2. /\ Walked(descriptor, i')
          /\ \A S \in SUBSET Descriptor!Items(descriptor) : Before(S, i') = Upto(S, i)
      BY <1>1, <3>1, ItemByItem
    <3>3. Upto(Pages, i) = {} \/ Upto(Usages, i) = {}
      BY <2>2, <2>5 DEF Known
    <3>4. Walking'
      <4>1. /\ Before(Pages, i') = Upto(Pages, i)
            /\ Before(Usages, i') = Upto(Usages, i)
            /\ Before(Descriptor!LongItems, i') = Upto(Descriptor!LongItems, i)
        BY <1>2, <3>2
      <4>2. /\ Before(Pages, i)' = Before(Pages, i')
            /\ Before(Usages, i)' = Before(Usages, i')
            /\ Before(Descriptor!LongItems, i)' = Before(Descriptor!LongItems, i')
        BY <1>4 DEF Before
      <4>3. \A S, v : Known(S, v)' <=> Known(S, v)
        BY <1>4 DEF Known
      <4>4. Known(Before(Pages, i), page)' /\ Known(Before(Usages, i), usage)'
        BY <1>4, <2>2, <4>1, <4>2 DEF Known
      <4> QED
        BY <1>1, <2>3, <3>3, <4>1, <4>2, <4>4 DEF Walking
    <3> QED
      BY <1>6, <3>1, <3>2, <3>4
  <2> QED
    BY <2>4, <2>5
<1> QED
  BY <1>7, <1>8

LEMMA DescriptorEnds ==
    ASSUME part = "descriptor", DescriptorInv, Descriptor!End
    PROVE  Descriptor!UsageExact' /\ Descriptor!NumberedExact'
<1>1. /\ result = "none" /\ i >= Len(descriptor) /\ result' = "failed"
      /\ walker' = walker /\ descriptor' = descriptor
  BY DEF Descriptor!End
<1>2. /\ descriptor \in Seq(Bytes) /\ Len(descriptor) <= MaxSize /\ Walked(descriptor, i)
      /\ Walking
  BY <1>1 DEF DescriptorInv, DescriptorTyped
<1>3. i \in Nat /\ \A k \in Descriptor!Items(descriptor) : k \in Nat /\ k < i
  BY <1>1, <1>2, ItemFacts DEF Walked
<1>4. ASSUME walker \in {"u2f", "libusb"} PROVE ~(Descriptor!Both < MaxSize)
  <2>1. Before(Pages, i) = {} \/ Before(Usages, i) = {}
    BY <1>2, <1>4 DEF Walking
  <2>2. Len(descriptor) \in Nat
    BY <1>2, LenProperties
  <2> QED
    BY <1>1, <1>2, <1>3, <2>1, <2>2, BothFacts
<1>5. Descriptor!Both' = Descriptor!Both
  BY <1>1, SameItems
<1>6. Descriptor!UsageExact'
  BY <1>1, <1>4, <1>5 DEF Descriptor!UsageExact
<1>7. Descriptor!NumberedExact'
  BY <1>1, <1>2, <1>3 DEF Descriptor!NumberedExact, Walking
<1> QED
  BY <1>6, <1>7

(* Only offsets within the descriptor are read.                            *)
LEMMA ReadsWithin ==
    ASSUME part = "descriptor", DescriptorInv, Descriptor!Turn
    PROVE  Descriptor!InBounds'
<1>1. /\ i \in Nat /\ i < Len(descriptor) /\ Len(descriptor) \in Nat /\ descriptor' = descriptor
      /\ \A k \in touched : k < Len(descriptor)
  BY ItemFacts DEF DescriptorInv, DescriptorTyped, Walked, Descriptor!InBounds, Descriptor!Turn
<1> DEFINE len == Descriptor!DataLen(descriptor, i)
           data == Descriptor!DataOffsets(walker, descriptor, i, len)
<1>2. \A k \in Descriptor!ReadsLength : k < Len(descriptor)
  BY DEF Descriptor!ReadsLength
<1>3. \A k \in data : k < Len(descriptor)
  <2>1. len \in Nat
    <3>1. descriptor \in Seq(Bytes)
      BY DEF DescriptorInv, DescriptorTyped
    <3> QED
      BY <1>1, <3>1, SizeFacts
  <2> HIDE DEF len
  <2>2. data = {} \/ (i + len < Len(descriptor) /\ data = i + 1 .. i + len)
    BY DEF Descriptor!DataOffsets, Descriptor!Fits
  <2> HIDE DEF data
  <2> QED
    BY <1>1, <2>1, <2>2
<1>4. touched' \subseteq touched \cup {i} \cup Descriptor!ReadsLength \cup data
  <2> HIDE DEF data
  <2>1. CASE Descriptor!NumberedTurn
    BY <2>1 DEF Descriptor!NumberedTurn
  <2>2. CASE Descriptor!UsageTurn
    BY <2>2 DEF Descriptor!UsageTurn, data
  <2> QED
    BY <2>1, <2>2 DEF Descriptor!Turn
<1> HIDE DEF data
<1> QED
  BY <1>1, <1>2, <1>3, <1>4 DEF Descriptor!InBounds

LEMMA DescriptorSteps == DescriptorInv /\ [Next]_vars => DescriptorInv'
<1> SUFFICES ASSUME DescriptorInv, [Next]_vars, part = "descriptor"
             PROVE  DescriptorInv'
  BY OnlyPart DEF DescriptorInv
<1>1. CASE UNCHANGED vars
  <2>1. UNCHANGED <<part, walker, descriptor, i, page, usage, touched, result>>
    BY <1>1 DEF vars, shared, descriptorOwn
  <2>2. /\ Descriptor!UsageExact' /\ Descriptor!NumberedExact' /\ Descriptor!InBounds'
    <3>1. Descriptor!Both' = Descriptor!Both /\ Pages' = Pages /\ Usages' = Usages
      BY <2>1, SameItems
    <3>2. Descriptor!LongItems' = Descriptor!LongItems
      BY <2>1, SameItems
    <3>3. \A k : Descriptor!ValueOf(k)' = Descriptor!ValueOf(k)
      BY <2>1, SameItems
    <3>4. Descriptor!UsageExact'
      BY <2>1, <3>1, <3>2, <3>3 DEF DescriptorInv, Descriptor!UsageExact, Pages, Usages,
         Descriptor!Until
    <3>5. Descriptor!NumberedExact' /\ Descriptor!InBounds'
      BY <2>1 DEF DescriptorInv, Descriptor!NumberedExact, Descriptor!InBounds
    <3> QED
      BY <3>4, <3>5
  <2>3. DescriptorTyped' /\ Walked(descriptor, i)'
    BY <2>1 DEF DescriptorInv, DescriptorTyped, Walked
  <2>4. result' = "none" => Walking'
    <3>1. Pages' = Pages /\ Usages' = Usages /\ Descriptor!LongItems' = Descriptor!LongItems
      BY <2>1, SameItems
    <3>2. \A k : Descriptor!ValueOf(k)' = Descriptor!ValueOf(k)
      BY <2>1, SameItems
    <3> QED
      BY <2>1, <3>1, <3>2 DEF DescriptorInv, Walking, Known, Before
  <2> QED
    BY <2>1, <2>2, <2>3, <2>4 DEF DescriptorInv
<1>2. CASE Descriptor!Turn
  <2>1. /\ result = "none" /\ i < Len(descriptor) /\ UNCHANGED <<walker, descriptor>>
        /\ DescriptorTyped
    BY <1>2 DEF Descriptor!Turn, DescriptorInv
  <2>2. Descriptor!InBounds'
    BY <1>2, ReadsWithin
  <2>3. CASE Descriptor!NumberedTurn
    <3>1. walker' = "numbered"
      BY <2>1, <2>3 DEF Descriptor!NumberedTurn
    <3>2. /\ Walked(descriptor, i') /\ result' \in {"none", "found"}
          /\ result' = "none" => Walking'
          /\ Descriptor!NumberedExact'
      BY <2>1, <2>3, NumberedWalks
    <3>3. DescriptorTyped' /\ Walked(descriptor, i)'
      BY <2>1, <3>2 DEF DescriptorTyped, Walked
    <3>4. Descriptor!UsageExact'
      BY <3>1 DEF Descriptor!UsageExact
    <3> QED
      BY <2>2, <3>2, <3>3, <3>4 DEF DescriptorInv
  <2>4. CASE Descriptor!UsageTurn
    <3>1. walker' \in {"u2f", "libusb"}
      BY <2>1, <2>4 DEF Descriptor!UsageTurn
    <3>2. /\ Walked(descriptor, i') /\ result' \in {"none", "found", "failed"}
          /\ result' = "none" => Walking'
          /\ Descriptor!UsageExact'
      BY <2>1, <2>4, UsageWalks
    <3>3. DescriptorTyped' /\ Walked(descriptor, i)'
      BY <2>1, <3>2 DEF DescriptorTyped, Walked
    <3>4. Descriptor!NumberedExact'
      BY <3>1 DEF Descriptor!NumberedExact
    <3> QED
      BY <2>2, <3>2, <3>3, <3>4 DEF DescriptorInv
  <2> QED
    BY <1>2, <2>3, <2>4 DEF Descriptor!Turn
<1>3. CASE Descriptor!End
  <2>1. UNCHANGED <<walker, descriptor, i, touched>> /\ result' = "failed"
    BY <1>3 DEF Descriptor!End
  <2>2. Descriptor!UsageExact' /\ Descriptor!NumberedExact'
    BY <1>3, DescriptorEnds
  <2>3. DescriptorTyped' /\ Walked(descriptor, i)' /\ Descriptor!InBounds'
    BY <2>1 DEF DescriptorInv, DescriptorTyped, Walked, Descriptor!InBounds
  <2> QED
    BY <2>1, <2>2, <2>3 DEF DescriptorInv
<1> QED
  <2>1. DescriptorNext \/ UNCHANGED vars
    BY OnlyPart
  <2> QED
    BY <1>1, <1>2, <1>3, <2>1 DEF DescriptorNext, Descriptor!Next

(* The walks over a report descriptor, of any size and bytes, find a page  *)
(* and a usage, or the numbered reports, exactly when its items have them, *)
(* with the values of items passed, in devs.c of the last of each; and     *)
(* they read nothing outside it however its last item is cut off.          *)
THEOREM DescriptorExactAlways == Spec => []DescriptorExact
<1>1. DescriptorInv => DescriptorExact
  BY DEF DescriptorInv, DescriptorExact
<1> QED
  BY <1>1, DescriptorInitially, DescriptorSteps, PTL DEF Spec

(* The variables of the walks have their types.                            *)
DescriptorWell ==
    part = "descriptor" =>
        /\ walker \in Walkers
        /\ page \in 0 .. Descriptor!None /\ usage \in 0 .. Descriptor!None
        /\ touched \subseteq Nat

LEMMA TwoBytes ==
    ASSUME NEW x \in 0 .. 255, NEW y \in 0 .. 255
    PROVE  /\ x \in Nat /\ x <= 65536
           /\ y * 256 + x \in Nat /\ y * 256 + x <= 65536
<1>1. x \in Nat /\ x <= 255 /\ y \in Nat /\ y <= 255
  OBVIOUS
<1>2. y * 256 \in Nat /\ y * 256 <= 65280
  BY <1>1
<1> DEFINE high == y * 256
<1>3. high + x \in Nat /\ high + x <= 65536
  <2> HIDE DEF high
  <2>1. high \in Nat /\ high <= 65280
    BY <1>2 DEF high
  <2> QED
    BY <1>1, <2>1
<1> QED
  BY <1>1, <1>3

LEMMA ValueFacts ==
    ASSUME NEW w, NEW s \in Seq(Bytes), NEW k \in Nat, NEW n \in Nat
    PROVE  /\ Descriptor!GetBytes(w, s, k, n) \in 0 .. Descriptor!None
           /\ Descriptor!DataOffsets(w, s, k, n) \subseteq Nat
<1> DEFINE lo == Descriptor!ByteAt(s, k + 1)
           hi == Descriptor!ByteAt(s, k + 2)
           value == Descriptor!GetBytes(w, s, k, n)
<1>1. lo \in 0 .. 255 /\ hi \in 0 .. 255
  <2>1. k + 1 \in Nat /\ k + 2 \in Nat
    OBVIOUS
  <2> QED
    BY <2>1, ByteFacts
<1>2. value = 0 \/ value = lo \/ value = hi * 256 + lo
  BY DEF Descriptor!GetBytes
<1>3. value \in 0 .. Descriptor!None
  <2> HIDE DEF lo, hi, value
  <2>1. /\ lo \in Nat /\ lo <= 65536
        /\ hi * 256 + lo \in Nat /\ hi * 256 + lo <= 65536
    BY <1>1, TwoBytes
  <2>2. value \in Nat /\ value <= 65536
    BY <1>2, <2>1
  <2>3. Descriptor!None \in Nat /\ value <= Descriptor!None
    BY <2>2 DEF Descriptor!None
  <2> QED
    BY <2>2, <2>3
<1>4. Descriptor!DataOffsets(w, s, k, n) \subseteq Nat
  BY DEF Descriptor!DataOffsets
<1> QED
  BY <1>3, <1>4

LEMMA WellInitially == Init => DescriptorWell
<1>1. Descriptor!None \in Nat
  BY DEF Descriptor!None
<1>2. part = "descriptor" /\ Init =>
        /\ walker \in Walkers /\ page = Descriptor!None /\ usage = Descriptor!None
        /\ touched = {}
  BY OnlyInit DEF DescriptorInit, Descriptor!Init
<1>3. Descriptor!None \in 0 .. Descriptor!None
  BY <1>1
<1> QED
  BY <1>2, <1>3 DEF DescriptorWell

LEMMA WellSteps == DescriptorInv /\ DescriptorWell /\ [Next]_vars => DescriptorWell'
<1> SUFFICES ASSUME DescriptorInv, DescriptorWell, [Next]_vars, part = "descriptor"
             PROVE  DescriptorWell'
  BY OnlyPart DEF DescriptorWell
<1>1. CASE UNCHANGED vars
  BY <1>1 DEF DescriptorWell, vars, descriptorOwn
<1>2. CASE Descriptor!End
  BY <1>2 DEF DescriptorWell, Descriptor!End
<1>3. CASE Descriptor!Turn
  <2>1. descriptor \in Seq(Bytes) /\ i \in Nat
    BY DEF DescriptorInv, DescriptorTyped, Walked
  <2> DEFINE n == Descriptor!DataLen(descriptor, i)
             value == Descriptor!GetBytes(walker, descriptor, i, n)
             data == Descriptor!DataOffsets(walker, descriptor, i, n)
  <2>2. n \in Nat
    BY <2>1, SizeFacts
  <2>3. value \in 0 .. Descriptor!None /\ data \subseteq Nat
    <3> HIDE DEF n
    <3> QED
      BY <2>1, <2>2, ValueFacts
  <2>4. Descriptor!ReadsLength \subseteq Nat
    BY <2>1 DEF Descriptor!ReadsLength
  <2>5. /\ walker' = walker
        /\ page' \in {page, value} /\ usage' \in {usage, value}
        /\ touched' \subseteq touched \cup {i} \cup Descriptor!ReadsLength \cup data
    <3>1. walker' = walker
      BY <1>3 DEF Descriptor!Turn
    <3>2. CASE Descriptor!NumberedTurn
      <4> HIDE DEF value, data
      <4> QED
        BY <3>1, <3>2 DEF Descriptor!NumberedTurn
    <3>3. CASE Descriptor!UsageTurn
      BY <3>1, <3>3 DEF Descriptor!UsageTurn
    <3> QED
      BY <1>3, <3>2, <3>3 DEF Descriptor!Turn
  <2> HIDE DEF value, data
  <2> QED
    BY <2>1, <2>3, <2>4, <2>5 DEF DescriptorWell
<1> QED
  <2>1. DescriptorNext \/ UNCHANGED vars
    BY OnlyPart
  <2> QED
    BY <1>1, <1>2, <1>3, <2>1 DEF DescriptorNext, Descriptor!Next

LEMMA WellFine ==
    ASSUME DescriptorInv, DescriptorWell, part = "descriptor"
    PROVE  Descriptor!TypeOK
BY DEF DescriptorInv, DescriptorWell, DescriptorTyped, Walked, Descriptor!TypeOK

-----------------------------------------------------------------------------
(* hidapi on Windows.  Where it is; what it holds there; what is in the    *)
(* list; and what is known of the device to open.                          *)
WinEntry == [dev : Win!Devices, vendor : Win!Vendors, serial : Nat]

WinPcs == {"detail", "driver", "query", "attributes", "fill", "cont_close",
           "cont", "listed", "choose", "new", "create", "buffers", "preparsed",
           "caps", "err_pp_data", "err", "free", "open", "done", "crashed"}
WinTurn == {"driver", "query", "attributes", "fill", "cont_close", "cont"}
WinOpening == {"new", "create", "buffers", "preparsed", "caps", "err_pp_data", "err"}

WinTyped ==
    /\ kind \in [Win!Devices -> WinKinds] /\ caller \in WinCallers
    /\ plugged \subseteq Win!Devices
    /\ pc \in WinPcs
    /\ i \in 1 .. WinCount + 1
    /\ path \in 0 .. WinCount /\ handle \in 0 .. WinCount

WinAt ==
    /\ pc \in WinTurn => i \in Win!Devices
    /\ pc \in {"listed", "choose"} => i = WinCount + 1
    /\ pc \in WinOpening \cup {"choose", "free", "open"} => caller.call = "open"
    /\ pc \in WinOpening => path \in Win!Devices /\ handle = 0
    /\ pc \in WinTurn \cup {"detail", "listed", "choose"} => handle = 0
    /\ handle # 0 => pc \in {"free", "open"} /\ handle = path
    /\ pc = "open" => handle # 0

(* What was chosen fits, as long as the device stays.                      *)
WinPath ==
    path \in plugged =>
        /\ caller.call = "open"
        /\ kind[path].vendor = caller.vendor
        /\ caller.serial \in {0, kind[path].serial}

WinEntries == {<<list[k].dev, "entry">> : k \in 1 .. Len(list)}
OfTurn == {<<i, "detail">>}
OfQuery == {<<i, "query">>}
OfPath(S) == {path} \X S

(* What is held besides the entries of the list.                           *)
WinHeld ==
    /\ pc \in {"detail", "listed", "choose", "new", "crashed"} => held = WinEntries
    /\ pc \in {"driver", "query", "cont"} => held = WinEntries \cup OfTurn
    /\ pc \in {"attributes", "fill"} => held = WinEntries \cup OfTurn \cup OfQuery
    /\ pc = "cont_close" => held \in {WinEntries \cup OfTurn,
                                      WinEntries \cup OfTurn \cup OfQuery}
    /\ pc = "create" => held = WinEntries \cup OfPath({"dev"})
    /\ pc \in {"buffers", "preparsed"} => held = WinEntries \cup OfPath({"dev", "device"})
    /\ pc \in {"caps", "err_pp_data"} =>
          held = WinEntries \cup OfPath({"dev", "device", "preparsed"})
    /\ pc = "err" => held \in {WinEntries \cup OfPath({"dev"}),
                               WinEntries \cup OfPath({"dev", "device"})}
    /\ pc = "free" => held = WinEntries \cup (IF handle = 0 THEN {}
                                              ELSE OfPath({"dev", "device", "buffer"}))
    /\ pc = "open" => held = OfPath({"dev", "device", "buffer"}) /\ list = <<>>
    /\ pc = "done" => held = {} /\ list = <<>>

(* The devices that are behind the one hidapi is at, and that one when its *)
(* turn is over, have their entry if they could be opened and are wanted.  *)
WinCan(e) ==
    /\ Win!SetHasDriver /\ kind[e].openable
    /\ caller.vendor \in {0, kind[e].vendor}
WinPassed(e) == e < i \/ (e = i /\ pc \in {"fill", "cont_close", "cont"})

WinMade ==
    /\ list \in Seq(WinEntry)
    /\ \A k \in 1 .. Len(list), m \in 1 .. Len(list) : k < m => list[k].dev < list[m].dev
    /\ pc \in WinTurn \cup {"detail"} =>
          \A k \in 1 .. Len(list) : WinPassed(list[k].dev)
    /\ pc = "fill" => Len(list) > 0 /\ list[Len(list)].dev = i
    /\ \A k \in 1 .. Len(list) : list[k].dev \in plugged =>
          /\ WinCan(list[k].dev)
          /\ list[k].vendor = kind[list[k].dev].vendor
          /\ list[k].serial = kind[list[k].dev].serial \/ (pc = "fill" /\ k = Len(list))
    /\ pc \in WinTurn \cup {"detail", "listed", "choose"} =>
          \A e \in plugged : WinPassed(e) /\ WinCan(e) =>
              \E k \in 1 .. Len(list) : list[k].dev = e
    /\ pc \in {"query", "attributes"} => Win!SetHasDriver
    /\ pc = "attributes" => kind[i].openable
    /\ \A k \in 1 .. Len(list) :
          kind[list[k].dev].openable /\ caller.vendor \in {0, list[k].vendor}
    /\ Len(list) > 0 => Win!SetHasDriver

WinInv == part = "win" => WinTyped /\ WinAt /\ WinPath /\ WinHeld /\ WinMade

LEMMA WinConstants ==
    /\ WinCount \in Nat
    /\ \A w \in WinKinds : w.vendor \in Nat \ {0} /\ w.serial \in Nat
    /\ \A w \in WinCallers : w.vendor \in Nat /\ w.serial \in Nat
BY DevicesAssumption DEF Win!KindAssumption, Win!CallerAssumption

LEMMA WinListFacts ==
    ASSUME WinMade
    PROVE  /\ Len(list) \in Nat /\ DOMAIN list = 1 .. Len(list)
           /\ \A k \in 1 .. Len(list) : list[k] \in WinEntry
           /\ \A k \in 1 .. Len(list) : list[k].dev \in Win!Devices /\ list[k].vendor \in Win!Vendors
                                    /\ list[k].serial \in Nat
<1>1. list \in Seq(WinEntry)
  BY DEF WinMade
<1>2. Len(list) \in Nat /\ DOMAIN list = 1 .. Len(list)
  BY <1>1, LenProperties
<1>3. \A k \in 1 .. Len(list) : list[k] \in WinEntry
  BY <1>1, ElementOfSeq
<1> QED
  BY <1>2, <1>3 DEF WinEntry

LEMMA WinInitially == Init => WinInv
<1> SUFFICES ASSUME WinInit, part = "win"
             PROVE  WinTyped /\ WinAt /\ WinPath /\ WinHeld /\ WinMade
  BY OnlyInit DEF WinInv
<1>1. /\ kind \in [Win!Devices -> WinKinds] /\ caller \in WinCallers /\ plugged = Win!Devices
      /\ pc = "detail" /\ i = 1 /\ list = <<>> /\ held = {} /\ path = 0 /\ handle = 0
  BY DEF WinInit, Win!Init
<1>2. WinTyped /\ WinAt
  BY <1>1, WinConstants DEF WinTyped, WinAt, WinPcs, WinTurn, WinOpening, Win!Devices
<1>3. WinPath
  BY <1>1, WinConstants DEF WinPath, Win!Devices
<1>4. list \in Seq(WinEntry) /\ Len(list) = 0
  BY <1>1, EmptySeq
<1>5. WinHeld
  BY <1>1, <1>4 DEF WinHeld, WinEntries
<1>6. WinMade
  <2>1. \A e \in plugged : ~(WinPassed(e))
    BY <1>1, WinConstants DEF WinPassed, Win!Devices
  <2> QED
    BY <1>1, <1>4, <2>1 DEF WinMade
<1> QED
  BY <1>2, <1>3, <1>5, <1>6

(* hid_open takes the first entry that fits.                                *)
LEMMA WinChooses ==
    ASSUME WinMade, Win!Choose
    PROVE  /\ pc = "choose" /\ UNCHANGED <<kind, caller, plugged, i, list, held, handle>>
           /\ \/ pc' \in {"free", "crashed"} /\ path' = path
              \/ /\ pc' = "new"
                 /\ \E k \in 1 .. Len(list) :
                       /\ path' = list[k].dev
                       /\ list[k].vendor = caller.vendor
                       /\ caller.serial \in {0, list[k].serial}
<1>1. pc = "choose" /\ UNCHANGED <<kind, caller, plugged, i, list, held, handle>>
  BY DEF Win!Choose, Win!Go, Win!given
<1>2. CASE Win!Stops = {}
  BY <1>1, <1>2 DEF Win!Choose, Win!Go
<1>3. CASE Win!Stops # {}
  <2>1. Win!Stops \in SUBSET Nat /\ Win!Stops \subseteq 1 .. Len(list)
    BY WinListFacts DEF Win!Stops
  <2>2. \E k \in Win!Stops : \A m \in Win!Stops : k <= m
    BY <1>3, <2>1, Least
  <2>3. PICK k : k = CHOOSE n \in Win!Stops : \A m \in Win!Stops : n <= m
    OBVIOUS
  <2>4. k \in Win!Stops
    BY <2>2, <2>3
  <2>5. k \in 1 .. Len(list) /\ Win!Matches(list[k])
    BY <2>1, <2>4 DEF Win!Stops
  <2>6. IF caller.serial # 0 /\ list[k].serial = 0
        THEN pc' = "crashed" /\ path' = path
        ELSE pc' = "new" /\ path' = list[k].dev
    BY <1>3, <2>3 DEF Win!Choose, Win!Go
  <2> QED
    BY <1>1, <2>5, <2>6 DEF Win!Matches
<1> QED
  BY <1>2, <1>3

LEMMA WinTypedKept ==
    ASSUME WinTyped, WinAt, WinMade, Win!Next
    PROVE  WinTyped'
<1>1. CASE Win!Detail
  BY <1>1, WinConstants DEF WinTyped, WinAt, WinPcs, WinTurn, WinOpening, Win!Devices, Win!Detail,
     Win!More, Win!Take, Win!given
<1>2. CASE Win!Driver
  BY <1>2, WinConstants DEF WinTyped, WinAt, WinPcs, WinTurn, WinOpening, Win!Devices, Win!Driver,
     Win!Go, Win!given
<1>3. CASE Win!OpenQuery
  BY <1>3, WinConstants DEF WinTyped, WinAt, WinPcs, WinTurn, WinOpening, Win!Devices,
     Win!OpenQuery, Win!Go, Win!Take, Win!given
<1>4. CASE Win!Attributes
  BY <1>4, WinConstants DEF WinTyped, WinAt, WinPcs, WinTurn, WinOpening, Win!Devices,
     Win!Attributes, Win!Go, Win!Take, Win!given
<1>5. CASE Win!Fill
  BY <1>5, WinConstants DEF WinTyped, WinAt, WinPcs, WinTurn, WinOpening, Win!Devices, Win!Fill,
     Win!Go, Win!given
<1>6. CASE Win!ContClose
  BY <1>6, WinConstants DEF WinTyped, WinAt, WinPcs, WinTurn, WinOpening, Win!Devices,
     Win!ContClose, Win!Go, Win!GiveBack, Win!Query, Win!given
<1>7. CASE Win!Cont
  BY <1>7, WinConstants DEF WinTyped, WinAt, WinPcs, WinTurn, WinOpening, Win!Devices, Win!Cont,
     Win!Go, Win!GiveBack, Win!given
<1>8. CASE Win!EndEnumerate
  BY <1>8, WinConstants DEF WinTyped, WinAt, WinPcs, WinTurn, WinOpening, Win!Devices,
     Win!EndEnumerate, Win!Go, Win!More, Win!given
<1>9. CASE Win!Choose
  <2>1. UNCHANGED <<kind, caller, plugged, i, handle>> /\ pc' \in {"free", "crashed", "new"}
    BY <1>9, WinChooses
  <2>2. path' \in 0 .. WinCount
    <3>1. path' = path \/ path' \in Win!Devices
      BY <1>9, WinChooses, WinListFacts
    <3> QED
      BY <3>1, WinConstants DEF WinTyped, Win!Devices
  <2> QED
    BY <2>1, <2>2 DEF WinTyped, WinPcs
<1>10. CASE Win!NewDevice
  BY <1>10, WinConstants DEF WinTyped, WinAt, WinPcs, WinTurn, WinOpening, Win!Devices,
     Win!NewDevice, Win!Go, Win!Take, Win!given
<1>11. CASE Win!CreateFile
  BY <1>11, WinConstants DEF WinTyped, WinAt, WinPcs, WinTurn, WinOpening, Win!Devices,
     Win!CreateFile, Win!Go, Win!Call, Win!Take, Win!given
<1>12. CASE Win!SetNumInputBuffers
  BY <1>12, WinConstants DEF WinTyped, WinAt, WinPcs, WinTurn, WinOpening, Win!Devices,
     Win!SetNumInputBuffers, Win!Go, Win!Call, Win!Take, Win!given
<1>13. CASE Win!GetPreparsedData
  BY <1>13, WinConstants DEF WinTyped, WinAt, WinPcs, WinTurn, WinOpening, Win!Devices,
     Win!GetPreparsedData, Win!Go, Win!Call, Win!Take, Win!given
<1>14. CASE Win!GetCaps
  BY <1>14, WinConstants DEF WinTyped, WinAt, WinPcs, WinTurn, WinOpening, Win!Devices,
     Win!GetCaps, Win!Go, Win!FailCaps, Win!given
<1>15. CASE Win!ErrPpData
  BY <1>15, WinConstants DEF WinTyped, WinAt, WinPcs, WinTurn, WinOpening, Win!Devices,
     Win!ErrPpData, Win!Go, Win!GiveBack, Win!given
<1>16. CASE Win!Err
  BY <1>16, WinConstants DEF WinTyped, WinAt, WinPcs, WinTurn, WinOpening, Win!Devices, Win!Err,
     Win!Go, Win!GiveBack, Win!OfDevice, Win!given
<1>17. CASE Win!FreeEnumeration
  BY <1>17, WinConstants DEF WinTyped, WinAt, WinPcs, WinTurn, WinOpening, Win!Devices,
     Win!FreeEnumeration, Win!given
<1>18. CASE Win!Close
  BY <1>18, WinConstants DEF WinTyped, WinAt, WinPcs, WinTurn, WinOpening, Win!Devices, Win!Close,
     Win!Go, Win!GiveBack, Win!OfDevice, Win!given
<1>19. ASSUME NEW e \in Win!Devices, Win!Unplug(e) PROVE WinTyped'
  BY <1>19, WinConstants DEF WinTyped, WinAt, WinPcs, WinTurn, WinOpening, Win!Devices, Win!Unplug
<1> QED
  BY <1>1, <1>2, <1>3, <1>4, <1>5, <1>6, <1>7, <1>8, <1>9, <1>10, <1>11, <1>12, <1>13, <1>14,
     <1>15, <1>16, <1>17, <1>18, <1>19 DEF Win!Next

LEMMA WinAtKept ==
    ASSUME WinTyped, WinAt, WinMade, Win!Next
    PROVE  WinAt'
<1>1. CASE Win!Detail
  BY <1>1, WinConstants DEF WinTyped, WinAt, WinPcs, WinTurn, WinOpening, Win!Devices, Win!Detail,
     Win!More, Win!Take, Win!given
<1>2. CASE Win!Driver
  BY <1>2, WinConstants DEF WinTyped, WinAt, WinPcs, WinTurn, WinOpening, Win!Devices, Win!Driver,
     Win!Go, Win!given
<1>3. CASE Win!OpenQuery
  BY <1>3, WinConstants DEF WinTyped, WinAt, WinPcs, WinTurn, WinOpening, Win!Devices,
     Win!OpenQuery, Win!Go, Win!Take, Win!given
<1>4. CASE Win!Attributes
  BY <1>4, WinConstants DEF WinTyped, WinAt, WinPcs, WinTurn, WinOpening, Win!Devices,
     Win!Attributes, Win!Go, Win!Take, Win!given
<1>5. CASE Win!Fill
  BY <1>5, WinConstants DEF WinTyped, WinAt, WinPcs, WinTurn, WinOpening, Win!Devices, Win!Fill,
     Win!Go, Win!given
<1>6. CASE Win!ContClose
  BY <1>6, WinConstants DEF WinTyped, WinAt, WinPcs, WinTurn, WinOpening, Win!Devices,
     Win!ContClose, Win!Go, Win!GiveBack, Win!Query, Win!given
<1>7. CASE Win!Cont
  BY <1>7, WinConstants DEF WinTyped, WinAt, WinPcs, WinTurn, WinOpening, Win!Devices, Win!Cont,
     Win!Go, Win!GiveBack, Win!given
<1>8. CASE Win!EndEnumerate
  BY <1>8, WinConstants DEF WinTyped, WinAt, WinPcs, WinTurn, WinOpening, Win!Devices,
     Win!EndEnumerate, Win!Go, Win!More, Win!given
<1>9. CASE Win!Choose
  BY <1>9, WinChooses, WinListFacts, WinConstants DEF WinTyped, WinAt, WinTurn, WinOpening,
     Win!Devices
<1>10. CASE Win!NewDevice
  BY <1>10, WinConstants DEF WinTyped, WinAt, WinPcs, WinTurn, WinOpening, Win!Devices,
     Win!NewDevice, Win!Go, Win!Take, Win!given
<1>11. CASE Win!CreateFile
  BY <1>11, WinConstants DEF WinTyped, WinAt, WinPcs, WinTurn, WinOpening, Win!Devices,
     Win!CreateFile, Win!Go, Win!Call, Win!Take, Win!given
<1>12. CASE Win!SetNumInputBuffers
  BY <1>12, WinConstants DEF WinTyped, WinAt, WinPcs, WinTurn, WinOpening, Win!Devices,
     Win!SetNumInputBuffers, Win!Go, Win!Call, Win!Take, Win!given
<1>13. CASE Win!GetPreparsedData
  BY <1>13, WinConstants DEF WinTyped, WinAt, WinPcs, WinTurn, WinOpening, Win!Devices,
     Win!GetPreparsedData, Win!Go, Win!Call, Win!Take, Win!given
<1>14. CASE Win!GetCaps
  BY <1>14, WinConstants DEF WinTyped, WinAt, WinPcs, WinTurn, WinOpening, Win!Devices,
     Win!GetCaps, Win!Go, Win!FailCaps, Win!given
<1>15. CASE Win!ErrPpData
  BY <1>15, WinConstants DEF WinTyped, WinAt, WinPcs, WinTurn, WinOpening, Win!Devices,
     Win!ErrPpData, Win!Go, Win!GiveBack, Win!given
<1>16. CASE Win!Err
  BY <1>16, WinConstants DEF WinTyped, WinAt, WinPcs, WinTurn, WinOpening, Win!Devices, Win!Err,
     Win!Go, Win!GiveBack, Win!OfDevice, Win!given
<1>17. CASE Win!FreeEnumeration
  BY <1>17, WinConstants DEF WinTyped, WinAt, WinPcs, WinTurn, WinOpening, Win!Devices,
     Win!FreeEnumeration, Win!given
<1>18. CASE Win!Close
  BY <1>18, WinConstants DEF WinTyped, WinAt, WinPcs, WinTurn, WinOpening, Win!Devices, Win!Close,
     Win!Go, Win!GiveBack, Win!OfDevice, Win!given
<1>19. ASSUME NEW e \in Win!Devices, Win!Unplug(e) PROVE WinAt'
  BY <1>19, WinConstants DEF WinTyped, WinAt, WinPcs, WinTurn, WinOpening, Win!Devices, Win!Unplug
<1> QED
  BY <1>1, <1>2, <1>3, <1>4, <1>5, <1>6, <1>7, <1>8, <1>9, <1>10, <1>11, <1>12, <1>13, <1>14,
     <1>15, <1>16, <1>17, <1>18, <1>19 DEF Win!Next

LEMMA WinPathKept ==
    ASSUME WinTyped, WinAt, WinPath, WinMade, Win!Next
    PROVE  WinPath'
<1>1. CASE Win!Detail
  BY <1>1, WinConstants DEF WinTyped, WinAt, WinPath, WinTurn, WinOpening, Win!Devices, Win!Detail,
     Win!More, Win!Take, Win!given
<1>2. CASE Win!Driver
  BY <1>2, WinConstants DEF WinTyped, WinAt, WinPath, WinTurn, WinOpening, Win!Devices, Win!Driver,
     Win!Go, Win!given
<1>3. CASE Win!OpenQuery
  BY <1>3, WinConstants DEF WinTyped, WinAt, WinPath, WinTurn, WinOpening, Win!Devices,
     Win!OpenQuery, Win!Go, Win!Take, Win!given
<1>4. CASE Win!Attributes
  BY <1>4, WinConstants DEF WinTyped, WinAt, WinPath, WinTurn, WinOpening, Win!Devices,
     Win!Attributes, Win!Go, Win!Take, Win!given
<1>5. CASE Win!Fill
  BY <1>5, WinConstants DEF WinTyped, WinAt, WinPath, WinTurn, WinOpening, Win!Devices, Win!Fill,
     Win!Go, Win!given
<1>6. CASE Win!ContClose
  BY <1>6, WinConstants DEF WinTyped, WinAt, WinPath, WinTurn, WinOpening, Win!Devices,
     Win!ContClose, Win!Go, Win!GiveBack, Win!Query, Win!given
<1>7. CASE Win!Cont
  BY <1>7, WinConstants DEF WinTyped, WinAt, WinPath, WinTurn, WinOpening, Win!Devices, Win!Cont,
     Win!Go, Win!GiveBack, Win!given
<1>8. CASE Win!EndEnumerate
  BY <1>8, WinConstants DEF WinTyped, WinAt, WinPath, WinTurn, WinOpening, Win!Devices,
     Win!EndEnumerate, Win!Go, Win!More, Win!given
<1>9. CASE Win!Choose
  <2>1. CASE path' = path
    BY <1>9, <2>1, WinChooses DEF WinPath
  <2>2. ASSUME NEW k \in 1 .. Len(list), path' = list[k].dev, pc' = "new",
               list[k].vendor = caller.vendor, caller.serial \in {0, list[k].serial}
        PROVE  WinPath'
    <3>1. UNCHANGED <<kind, caller, plugged>> /\ caller.call = "open"
      BY <1>9, WinChooses DEF WinAt
    <3>2. pc # "fill"
      BY <1>9, WinChooses
    <3> QED
      BY <2>2, <3>1, <3>2 DEF WinPath, WinMade
  <2> QED
    BY <1>9, <2>1, <2>2, WinChooses
<1>10. CASE Win!NewDevice
  BY <1>10, WinConstants DEF WinTyped, WinAt, WinPath, WinTurn, WinOpening, Win!Devices,
     Win!NewDevice, Win!Go, Win!Take, Win!given
<1>11. CASE Win!CreateFile
  BY <1>11, WinConstants DEF WinTyped, WinAt, WinPath, WinTurn, WinOpening, Win!Devices,
     Win!CreateFile, Win!Go, Win!Call, Win!Take, Win!given
<1>12. CASE Win!SetNumInputBuffers
  BY <1>12, WinConstants DEF WinTyped, WinAt, WinPath, WinTurn, WinOpening, Win!Devices,
     Win!SetNumInputBuffers, Win!Go, Win!Call, Win!Take, Win!given
<1>13. CASE Win!GetPreparsedData
  BY <1>13, WinConstants DEF WinTyped, WinAt, WinPath, WinTurn, WinOpening, Win!Devices,
     Win!GetPreparsedData, Win!Go, Win!Call, Win!Take, Win!given
<1>14. CASE Win!GetCaps
  BY <1>14, WinConstants DEF WinTyped, WinAt, WinPath, WinTurn, WinOpening, Win!Devices,
     Win!GetCaps, Win!Go, Win!FailCaps, Win!given
<1>15. CASE Win!ErrPpData
  BY <1>15, WinConstants DEF WinTyped, WinAt, WinPath, WinTurn, WinOpening, Win!Devices,
     Win!ErrPpData, Win!Go, Win!GiveBack, Win!given
<1>16. CASE Win!Err
  BY <1>16, WinConstants DEF WinTyped, WinAt, WinPath, WinTurn, WinOpening, Win!Devices, Win!Err,
     Win!Go, Win!GiveBack, Win!OfDevice, Win!given
<1>17. CASE Win!FreeEnumeration
  BY <1>17, WinConstants DEF WinTyped, WinAt, WinPath, WinTurn, WinOpening, Win!Devices,
     Win!FreeEnumeration, Win!given
<1>18. CASE Win!Close
  BY <1>18, WinConstants DEF WinTyped, WinAt, WinPath, WinTurn, WinOpening, Win!Devices, Win!Close,
     Win!Go, Win!GiveBack, Win!OfDevice, Win!given
<1>19. ASSUME NEW e \in Win!Devices, Win!Unplug(e) PROVE WinPath'
  BY <1>19, WinConstants DEF WinTyped, WinAt, WinPath, WinTurn, WinOpening, Win!Devices, Win!Unplug
<1> QED
  BY <1>1, <1>2, <1>3, <1>4, <1>5, <1>6, <1>7, <1>8, <1>9, <1>10, <1>11, <1>12, <1>13, <1>14,
     <1>15, <1>16, <1>17, <1>18, <1>19 DEF Win!Next

(* Entries as they are made, completed and given back.                      *)
LEMMA WinAppends ==
    ASSUME WinMade, NEW x \in WinEntry, list' = Append(list, x)
    PROVE  /\ list' \in Seq(WinEntry) /\ Len(list') = Len(list) + 1
           /\ \A k \in 1 .. Len(list) : list'[k] = list[k]
           /\ list'[Len(list) + 1] = x
           /\ WinEntries' = WinEntries \cup {<<x.dev, "entry">>}
<1>1. list \in Seq(WinEntry) /\ Len(list) \in Nat
  BY WinListFacts DEF WinMade
<1>2. /\ list' \in Seq(WinEntry) /\ Len(list') = Len(list) + 1
      /\ \A k \in 1 .. Len(list) : list'[k] = list[k]
      /\ list'[Len(list) + 1] = x
  BY <1>1, AppendProperties
<1>3. ASSUME NEW z \in WinEntries' PROVE z \in WinEntries \cup {<<x.dev, "entry">>}
  <2>1. PICK k \in 1 .. Len(list) + 1 : z = <<list'[k].dev, "entry">>
    BY <1>2 DEF WinEntries
  <2>2. k \in 1 .. Len(list) \/ k = Len(list) + 1
    BY <1>1
  <2> QED
    BY <1>2, <2>1, <2>2 DEF WinEntries
<1>4. ASSUME NEW z \in WinEntries PROVE z \in WinEntries'
  <2>1. PICK k \in 1 .. Len(list) : z = <<list[k].dev, "entry">>
    BY DEF WinEntries
  <2>2. k \in 1 .. Len(list')
    BY <1>1, <1>2
  <2> QED
    BY <1>2, <2>1, <2>2 DEF WinEntries
<1>5. <<x.dev, "entry">> \in WinEntries'
  <2>1. Len(list) + 1 \in 1 .. Len(list')
    BY <1>1, <1>2
  <2> QED
    BY <1>2, <2>1 DEF WinEntries
<1> QED
  BY <1>2, <1>3, <1>4, <1>5

LEMMA WinCompletes ==
    ASSUME WinMade, Len(list) > 0, NEW v \in Nat,
           list' = [list EXCEPT ![Len(list)].serial = v]
    PROVE  /\ list' \in Seq(WinEntry) /\ Len(list') = Len(list)
           /\ \A k \in 1 .. Len(list) :
                 /\ list'[k].dev = list[k].dev /\ list'[k].vendor = list[k].vendor
                 /\ list'[k].serial = IF k = Len(list) THEN v ELSE list[k].serial
           /\ WinEntries' = WinEntries
<1>1. list \in Seq(WinEntry) /\ Len(list) \in Nat /\ Len(list) \in 1 .. Len(list)
  BY WinListFacts DEF WinMade
<1>2. list[Len(list)] \in WinEntry
  BY <1>1, WinListFacts
<1>3. PICK x : x = [list[Len(list)] EXCEPT !.serial = v]
  OBVIOUS
<1>4. /\ x \in WinEntry /\ x.dev = list[Len(list)].dev /\ x.vendor = list[Len(list)].vendor
      /\ x.serial = v
  BY <1>2, <1>3 DEF WinEntry
<1>5. list' = [list EXCEPT ![Len(list)] = x]
  BY <1>3
<1>6. /\ list' \in Seq(WinEntry) /\ Len(list') = Len(list)
      /\ \A k \in 1 .. Len(list) : list'[k] = IF k = Len(list) THEN x ELSE list[k]
  BY <1>1, <1>4, <1>5, ExceptSeq
<1>7. \A k \in 1 .. Len(list) :
         /\ list'[k].dev = list[k].dev /\ list'[k].vendor = list[k].vendor
         /\ list'[k].serial = IF k = Len(list) THEN v ELSE list[k].serial
  BY <1>4, <1>6
<1>8. WinEntries' = WinEntries
  BY <1>6, <1>7 DEF WinEntries
<1> QED
  BY <1>6, <1>7, <1>8

(* Entries are only held as entries.                                        *)
LEMMA WinEntriesOnly ==
    \A e : /\ <<e, "detail">> \notin WinEntries /\ <<e, "query">> \notin WinEntries
          /\ <<e, "dev">> \notin WinEntries /\ <<e, "device">> \notin WinEntries
          /\ <<e, "preparsed">> \notin WinEntries /\ <<e, "buffer">> \notin WinEntries
BY DEF WinEntries

LEMMA WinHeldKept ==
    ASSUME WinTyped, WinAt, WinHeld, WinMade, Win!Next
    PROVE  WinHeld'
<1>1. CASE Win!Detail
  BY <1>1, WinEntriesOnly DEF WinTyped, WinAt, WinHeld, WinEntries, OfTurn, OfQuery, OfPath,
     WinTurn, WinOpening, WinPcs, Win!Detail, Win!More, Win!Take, Win!given
<1>2. CASE Win!Driver
  BY <1>2, WinEntriesOnly DEF WinTyped, WinAt, WinHeld, WinEntries, OfTurn, OfQuery, OfPath,
     WinTurn, WinOpening, WinPcs, Win!Driver, Win!Go, Win!given
<1>3. CASE Win!OpenQuery
  BY <1>3, WinEntriesOnly DEF WinTyped, WinAt, WinHeld, WinEntries, OfTurn, OfQuery, OfPath,
     WinTurn, WinOpening, WinPcs, Win!OpenQuery, Win!Go, Win!Take, Win!given
<1>4. CASE Win!Attributes
  <2>1. pc = "attributes" /\ UNCHANGED <<i, path, handle>>
    BY <1>4 DEF Win!Attributes, Win!Go
  <2>2. held = WinEntries \cup OfTurn \cup OfQuery /\ i \in Win!Devices
    BY <2>1 DEF WinHeld, WinAt, WinTurn
  <2>3. CASE pc' = "cont_close" /\ UNCHANGED <<list, held>>
    BY <2>1, <2>2, <2>3 DEF WinHeld, WinEntries, OfTurn, OfQuery
  <2>4. ASSUME NEW vendor \in Win!Vendors, pc' = "fill", Win!Take(i, {"entry"}),
               list' = Append(list, [dev |-> i, vendor |-> vendor, serial |-> 0])
        PROVE  WinHeld'
    <3>1. PICK x : x = [dev |-> i, vendor |-> vendor, serial |-> 0]
      OBVIOUS
    <3>2. x \in WinEntry /\ x.dev = i
      BY <2>2, <3>1 DEF WinEntry
    <3>3. WinEntries' = WinEntries \cup {<<i, "entry">>}
      BY <2>4, <3>1, <3>2, WinAppends
    <3>4. held' = held \cup {<<i, "entry">>}
      BY <2>4 DEF Win!Take
    <3>5. held' = WinEntries' \cup OfTurn' \cup OfQuery'
      BY <2>1, <2>2, <3>3, <3>4 DEF OfTurn, OfQuery
    <3> QED
      BY <2>4, <3>5 DEF WinHeld
  <2> QED
    <3>1. \A vendor \in IF i \in plugged THEN {kind[i].vendor} ELSE Win!Vendors :
             vendor \in Win!Vendors
      BY <2>2 DEF WinTyped, Win!Vendors
    <3> QED
      BY <1>4, <2>3, <2>4, <3>1 DEF Win!Attributes, Win!Go
<1>5. CASE Win!Fill
  BY <1>5, WinEntriesOnly DEF WinTyped, WinAt, WinHeld, WinEntries, OfTurn, OfQuery, OfPath,
     WinTurn, WinOpening, WinPcs, Win!Fill, Win!Go, Win!given
<1>6. CASE Win!ContClose
  BY <1>6, WinEntriesOnly DEF WinTyped, WinAt, WinHeld, WinEntries, OfTurn, OfQuery, OfPath,
     WinTurn, WinOpening, WinPcs, Win!ContClose, Win!Go, Win!GiveBack, Win!Query, Win!given
<1>7. CASE Win!Cont
  BY <1>7, WinEntriesOnly DEF WinTyped, WinAt, WinHeld, WinEntries, OfTurn, OfQuery, OfPath,
     WinTurn, WinOpening, WinPcs, Win!Cont, Win!Go, Win!GiveBack, Win!given
<1>8. CASE Win!EndEnumerate
  BY <1>8, WinEntriesOnly DEF WinTyped, WinAt, WinHeld, WinEntries, OfTurn, OfQuery, OfPath,
     WinTurn, WinOpening, WinPcs, Win!EndEnumerate, Win!Go, Win!More, Win!given
<1>9. CASE Win!Choose
  BY <1>9, WinEntriesOnly DEF WinTyped, WinAt, WinHeld, WinEntries, OfTurn, OfQuery, OfPath,
     WinTurn, WinOpening, WinPcs, Win!Choose, Win!Go, Win!given
<1>10. CASE Win!NewDevice
  BY <1>10, WinEntriesOnly DEF WinTyped, WinAt, WinHeld, WinEntries, OfTurn, OfQuery, OfPath,
     WinTurn, WinOpening, WinPcs, Win!NewDevice, Win!Go, Win!Take, Win!given
<1>11. CASE Win!CreateFile
  BY <1>11, WinEntriesOnly DEF WinTyped, WinAt, WinHeld, WinEntries, OfTurn, OfQuery, OfPath,
     WinTurn, WinOpening, WinPcs, Win!CreateFile, Win!Go, Win!Call, Win!Take, Win!given
<1>12. CASE Win!SetNumInputBuffers
  BY <1>12, WinEntriesOnly DEF WinTyped, WinAt, WinHeld, WinEntries, OfTurn, OfQuery, OfPath,
     WinTurn, WinOpening, WinPcs, Win!SetNumInputBuffers, Win!Go, Win!Call, Win!Take, Win!given
<1>13. CASE Win!GetPreparsedData
  BY <1>13, WinEntriesOnly DEF WinTyped, WinAt, WinHeld, WinEntries, OfTurn, OfQuery, OfPath,
     WinTurn, WinOpening, WinPcs, Win!GetPreparsedData, Win!Go, Win!Call, Win!Take, Win!given
<1>14. CASE Win!GetCaps
  BY <1>14, WinEntriesOnly DEF WinTyped, WinAt, WinHeld, WinEntries, OfTurn, OfQuery, OfPath,
     WinTurn, WinOpening, WinPcs, Win!GetCaps, Win!Go, Win!FailCaps, Win!given
<1>15. CASE Win!ErrPpData
  BY <1>15, WinEntriesOnly DEF WinTyped, WinAt, WinHeld, WinEntries, OfTurn, OfQuery, OfPath,
     WinTurn, WinOpening, WinPcs, Win!ErrPpData, Win!Go, Win!GiveBack, Win!given
<1>16. CASE Win!Err
  BY <1>16, WinEntriesOnly DEF WinTyped, WinAt, WinHeld, WinEntries, OfTurn, OfQuery, OfPath,
     WinTurn, WinOpening, WinPcs, Win!Err, Win!Go, Win!GiveBack, Win!OfDevice, Win!given
<1>17. CASE Win!FreeEnumeration
  BY <1>17, WinEntriesOnly DEF WinTyped, WinAt, WinHeld, WinEntries, OfTurn, OfQuery, OfPath,
     WinTurn, WinOpening, WinPcs, Win!FreeEnumeration, Win!given
<1>18. CASE Win!Close
  BY <1>18, WinEntriesOnly DEF WinTyped, WinAt, WinHeld, WinEntries, OfTurn, OfQuery, OfPath,
     WinTurn, WinOpening, WinPcs, Win!Close, Win!Go, Win!GiveBack, Win!OfDevice, Win!given
<1>19. ASSUME NEW e \in Win!Devices, Win!Unplug(e) PROVE WinHeld'
  BY <1>19, WinEntriesOnly DEF WinTyped, WinAt, WinHeld, WinEntries, OfTurn, OfQuery, OfPath,
     WinTurn, WinOpening, WinPcs, Win!Unplug
<1> QED
  BY <1>1, <1>2, <1>3, <1>4, <1>5, <1>6, <1>7, <1>8, <1>9, <1>10, <1>11, <1>12, <1>13, <1>14,
     <1>15, <1>16, <1>17, <1>18, <1>19 DEF Win!Next

LEMMA WinCanFacts ==
    \A e : WinCan(e) <=> /\ Win!SetHasDriver /\ kind[e].openable
                         /\ caller.vendor \in {0, kind[e].vendor}
BY DEF WinCan

LEMMA WinSame ==
    ASSUME UNCHANGED <<kind, caller>>
    PROVE  /\ Win!SetHasDriver' = Win!SetHasDriver
           /\ \A e : WinCan(e)' = WinCan(e)
<1>1. Win!SetHasDriver' = Win!SetHasDriver
  BY DEF Win!SetHasDriver, Win!DriverBound
<1> QED
  BY <1>1 DEF WinCan

LEMMA WinMadeKept ==
    ASSUME WinTyped, WinAt, WinMade, Win!Next
    PROVE  WinMade'
<1>1. CASE Win!Detail
  <2>1. /\ UNCHANGED <<kind, caller, plugged, list, i>> /\ pc = "detail" /\ pc' \in {"driver", "cont"}
        /\ pc' = "cont" => i \notin plugged
    BY <1>1 DEF Win!Detail, Win!given
  <2>2. \A e \in plugged : WinPassed(e)' => WinPassed(e)
    BY <2>1 DEF WinPassed
  <2>3. \A e \in Win!Devices : WinPassed(e) => WinPassed(e)'
    BY <2>1 DEF WinPassed
  <2> QED
    BY <2>1, <2>2, <2>3, WinSame, WinListFacts DEF WinMade, WinTurn
<1>2. CASE Win!Driver
  <2>1. /\ UNCHANGED <<kind, caller, plugged, list, i>> /\ pc = "driver" /\ pc' \in {"query", "cont"}
        /\ pc' = "query" => Win!SetHasDriver
        /\ pc' = "cont" => ~Win!SetHasDriver
    BY <1>2 DEF Win!Driver, Win!Go, Win!given
  <2>2. \A e \in plugged : WinPassed(e)' /\ WinCan(e) => WinPassed(e)
    BY <2>1 DEF WinPassed, WinCan
  <2>3. \A e \in Win!Devices : WinPassed(e) => WinPassed(e)'
    BY <2>1 DEF WinPassed
  <2> QED
    BY <2>1, <2>2, <2>3, WinSame, WinListFacts DEF WinMade, WinTurn
<1>3. CASE Win!OpenQuery
  <2>1. /\ UNCHANGED <<kind, caller, plugged, list, i>> /\ pc = "query" /\ i \in Win!Devices
        /\ IF i \in plugged /\ kind[i].openable THEN pc' = "attributes" ELSE pc' = "cont_close"
    BY <1>3 DEF Win!OpenQuery, Win!Go, Win!given, WinAt, WinTurn
  <2>2. pc' = "cont_close" => ~(i \in plugged /\ WinCan(i))
    BY <2>1, WinCanFacts
  <2> QED
    BY <2>1, <2>2, WinSame, WinListFacts DEF WinMade, WinPassed, WinTurn
<1>4. CASE Win!Attributes
  <2>1. PICK vendor \in IF i \in plugged THEN {kind[i].vendor} ELSE Win!Vendors :
           IF Win!Fits(vendor)
           THEN /\ Win!Go("attributes", "fill")
                /\ list' = Append(list, [dev |-> i, vendor |-> vendor, serial |-> 0])
           ELSE Win!Go("attributes", "cont_close") /\ UNCHANGED list
    BY <1>4 DEF Win!Attributes
  <2>2. UNCHANGED <<kind, caller, plugged, i>> /\ pc = "attributes" /\ i \in Win!Devices
    BY <1>4, <2>1 DEF Win!Attributes, Win!Go, Win!given, WinAt, WinTurn
  <2>3. vendor \in Win!Vendors
    BY <2>1, <2>2 DEF WinTyped, Win!Vendors
  <2>4. CASE ~Win!Fits(vendor)
    <3>1. pc' = "cont_close" /\ UNCHANGED list
      BY <2>1, <2>4 DEF Win!Go
    <3>2. i \in plugged => ~WinCan(i)
      BY <2>1, <2>4, WinCanFacts DEF Win!Fits
    <3> QED
      BY <2>2, <3>1, <3>2, WinSame, WinConstants, WinListFacts DEF WinTyped, WinAt, WinMade,
         WinPassed, WinTurn, Win!Devices
  <2>5. CASE Win!Fits(vendor)
    <3>1. PICK x : x = [dev |-> i, vendor |-> vendor, serial |-> 0]
      OBVIOUS
    <3>2. pc' = "fill" /\ list' = Append(list, x)
      BY <2>1, <2>5, <3>1 DEF Win!Go
    <3>3. x \in WinEntry /\ x.dev = i /\ x.vendor = vendor
      BY <2>2, <2>3, <3>1 DEF WinEntry
    <3>4. i \in plugged => WinCan(i) /\ x.vendor = kind[i].vendor
      BY <2>1, <2>2, <2>5, <3>3, WinCanFacts DEF Win!Fits, WinMade
    <3>5. /\ list' \in Seq(WinEntry) /\ Len(list') = Len(list) + 1
          /\ \A k \in 1 .. Len(list) : list'[k] = list[k]
          /\ list'[Len(list) + 1] = x
      BY <3>2, <3>3, WinAppends
    <3>6. \A k \in 1 .. Len(list) : list[k].dev \in Win!Devices /\ list[k].dev < i
      BY <2>2, WinListFacts DEF WinMade, WinPassed, WinTurn
    <3>7. Len(list) \in Nat /\ \A k \in 1 .. Len(list) + 1 : k \in 1 .. Len(list) \/ k = Len(list) + 1
      BY WinListFacts
    <3>8. \A k \in 1 .. Len(list'), m \in 1 .. Len(list') : k < m => list'[k].dev < list'[m].dev
      BY <3>3, <3>5, <3>6, <3>7 DEF WinMade
    <3>9. \A k \in 1 .. Len(list') : list'[k].dev < i \/ list'[k].dev = i
      BY <3>3, <3>5, <3>6, <3>7
    <3>10. \A k \in 1 .. Len(list') : list'[k].dev \in plugged =>
              /\ WinCan(list'[k].dev)
              /\ list'[k].vendor = kind[list'[k].dev].vendor
              /\ list'[k].serial = kind[list'[k].dev].serial \/ k = Len(list')
      BY <2>2, <3>3, <3>4, <3>5, <3>7 DEF WinMade
    <3>11. \A e \in plugged : (e < i \/ e = i) /\ WinCan(e) =>
              \E k \in 1 .. Len(list') : list'[k].dev = e
      <4>1. \A e \in plugged : e < i /\ WinCan(e) => \E k \in 1 .. Len(list) : list[k].dev = e
        BY <2>2 DEF WinMade, WinPassed, WinTurn
      <4>2. list'[Len(list) + 1].dev = i /\ Len(list) + 1 \in 1 .. Len(list')
        BY <3>3, <3>5, <3>7
      <4>3. \A k \in 1 .. Len(list) : k \in 1 .. Len(list')
        BY <3>5, <3>7
      <4> QED
        BY <3>5, <4>1, <4>2, <4>3
    <3>12. Len(list') > 0 /\ list'[Len(list')].dev = i
      BY <3>3, <3>5, <3>7
    <3>13. Win!SetHasDriver /\ kind[i].openable /\ caller.vendor \in {0, vendor}
      BY <2>2, <2>5 DEF WinMade, Win!Fits
    <3>14. \A k \in 1 .. Len(list') :
              kind[list'[k].dev].openable /\ caller.vendor \in {0, list'[k].vendor}
      BY <3>3, <3>5, <3>7, <3>13 DEF WinMade
    <3> QED
      BY <2>2, <3>2, <3>5, <3>8, <3>9, <3>10, <3>11, <3>12, <3>13, <3>14, WinSame
      DEF WinMade, WinPassed
  <2> QED
    BY <2>4, <2>5
<1>5. CASE Win!Fill
  <2>1. PICK v : v = IF i \in plugged THEN kind[i].serial ELSE 0
    OBVIOUS
  <2>2. /\ UNCHANGED <<kind, caller, plugged, i>> /\ pc = "fill" /\ pc' = "cont_close"
        /\ list' = [list EXCEPT ![Len(list)].serial = v] /\ i \in Win!Devices
        /\ Len(list) > 0 /\ list[Len(list)].dev = i
    BY <1>5, <2>1 DEF Win!Fill, Win!Go, Win!given, WinMade, WinAt, WinTurn
  <2>3. v \in Nat /\ (i \in plugged => v = kind[i].serial)
    BY <2>1, <2>2, WinConstants DEF WinTyped
  <2>4. /\ list' \in Seq(WinEntry) /\ Len(list') = Len(list)
        /\ \A k \in 1 .. Len(list) :
              /\ list'[k].dev = list[k].dev /\ list'[k].vendor = list[k].vendor
              /\ list'[k].serial = IF k = Len(list) THEN v ELSE list[k].serial
    BY <2>2, <2>3, WinCompletes
  <2> QED
    BY <2>2, <2>3, <2>4, WinSame DEF WinMade, WinPassed, WinTurn
<1>6. CASE Win!ContClose
  BY <1>6, WinSame, WinCanFacts, WinConstants, WinListFacts DEF WinTyped, WinAt, WinMade,
     WinPassed, WinTurn, Win!Devices, Win!ContClose, Win!Go, Win!GiveBack, Win!Query, Win!given
<1>7. CASE Win!Cont
  <2>1. /\ UNCHANGED <<kind, caller, plugged, list>> /\ pc = "cont" /\ pc' = "detail"
        /\ i' = i + 1 /\ i \in Win!Devices
    BY <1>7 DEF Win!Cont, Win!Go, Win!given, WinAt, WinTurn
  <2>2. \A e \in Win!Devices : e < i + 1 <=> e < i \/ e = i
    BY <2>1, WinConstants DEF Win!Devices
  <2> QED
    BY <2>1, <2>2, WinSame, WinListFacts DEF WinTyped, WinMade, WinPassed, WinTurn
<1>8. CASE Win!EndEnumerate
  BY <1>8, WinSame, WinCanFacts, WinConstants, WinListFacts DEF WinTyped, WinAt, WinMade,
     WinPassed, WinTurn, Win!Devices, Win!EndEnumerate, Win!Go, Win!More, Win!given
<1>9. CASE Win!Choose
  BY <1>9, WinSame, WinCanFacts, WinConstants, WinListFacts DEF WinTyped, WinAt, WinMade,
     WinPassed, WinTurn, Win!Devices, Win!Choose, Win!Go, Win!given
<1>10. CASE Win!NewDevice
  BY <1>10, WinSame, WinCanFacts, WinConstants, WinListFacts DEF WinTyped, WinAt, WinMade,
     WinPassed, WinTurn, Win!Devices, Win!NewDevice, Win!Go, Win!Take, Win!given
<1>11. CASE Win!CreateFile
  BY <1>11, WinSame, WinCanFacts, WinConstants, WinListFacts DEF WinTyped, WinAt, WinMade,
     WinPassed, WinTurn, Win!Devices, Win!CreateFile, Win!Go, Win!Call, Win!Take, Win!given
<1>12. CASE Win!SetNumInputBuffers
  BY <1>12, WinSame, WinCanFacts, WinConstants, WinListFacts DEF WinTyped, WinAt, WinMade,
     WinPassed, WinTurn, Win!Devices, Win!SetNumInputBuffers, Win!Go, Win!Call, Win!Take, Win!given
<1>13. CASE Win!GetPreparsedData
  BY <1>13, WinSame, WinCanFacts, WinConstants, WinListFacts DEF WinTyped, WinAt, WinMade,
     WinPassed, WinTurn, Win!Devices, Win!GetPreparsedData, Win!Go, Win!Call, Win!Take, Win!given
<1>14. CASE Win!GetCaps
  BY <1>14, WinSame, WinCanFacts, WinConstants, WinListFacts DEF WinTyped, WinAt, WinMade,
     WinPassed, WinTurn, Win!Devices, Win!GetCaps, Win!Go, Win!FailCaps, Win!given
<1>15. CASE Win!ErrPpData
  BY <1>15, WinSame, WinCanFacts, WinConstants, WinListFacts DEF WinTyped, WinAt, WinMade,
     WinPassed, WinTurn, Win!Devices, Win!ErrPpData, Win!Go, Win!GiveBack, Win!given
<1>16. CASE Win!Err
  BY <1>16, WinSame, WinCanFacts, WinConstants, WinListFacts DEF WinTyped, WinAt, WinMade,
     WinPassed, WinTurn, Win!Devices, Win!Err, Win!Go, Win!GiveBack, Win!OfDevice, Win!given
<1>17. CASE Win!FreeEnumeration
  BY <1>17, WinSame, WinCanFacts, WinConstants, WinListFacts DEF WinTyped, WinAt, WinMade,
     WinPassed, WinTurn, Win!Devices, Win!FreeEnumeration, Win!given
<1>18. CASE Win!Close
  BY <1>18, WinSame, WinCanFacts, WinConstants, WinListFacts DEF WinTyped, WinAt, WinMade,
     WinPassed, WinTurn, Win!Devices, Win!Close, Win!Go, Win!GiveBack, Win!OfDevice, Win!given
<1>19. ASSUME NEW e \in Win!Devices, Win!Unplug(e) PROVE WinMade'
  BY <1>19, WinSame, WinCanFacts, WinConstants, WinListFacts DEF WinTyped, WinAt, WinMade,
     WinPassed, WinTurn, Win!Devices, Win!Unplug
<1> QED
  BY <1>1, <1>2, <1>3, <1>4, <1>5, <1>6, <1>7, <1>8, <1>9, <1>10, <1>11, <1>12, <1>13, <1>14,
     <1>15, <1>16, <1>17, <1>18, <1>19 DEF Win!Next

LEMMA WinSteps == WinInv /\ [Next]_vars => WinInv'
<1> SUFFICES ASSUME WinInv, [Next]_vars, part = "win"
             PROVE  WinInv'
  BY OnlyPart DEF WinInv
<1>1. /\ WinNext \/ UNCHANGED vars
      /\ WinTyped /\ WinAt /\ WinPath /\ WinHeld /\ WinMade
  BY OnlyPart DEF WinInv
<1>2. CASE WinNext
  <2>1. Win!Next
    BY <1>2 DEF WinNext
  <2> QED
    BY <1>1, <2>1, WinTypedKept, WinAtKept, WinPathKept, WinHeldKept, WinMadeKept DEF WinInv
<1>3. CASE UNCHANGED vars
  <2>1. UNCHANGED <<kind, caller, plugged, pc, i, path, handle, list, held>>
    BY <1>3 DEF vars, shared, winOwn
  <2>2. WinTyped' /\ WinAt' /\ WinPath' /\ WinHeld'
    BY <1>1, <2>1 DEF WinTyped, WinAt, WinPath, WinHeld, WinEntries, OfTurn, OfQuery, OfPath
  <2>3. WinMade'
    BY <1>1, <2>1, WinSame DEF WinMade, WinPassed
  <2> QED
    BY <2>2, <2>3 DEF WinInv
<1> QED
  BY <1>1, <1>2, <1>3

LEMMA WinFine ==
    ASSUME WinInv, part = "win"
    PROVE  Win!TypeOK /\ Win!ListExact /\ Win!OneHandle /\ Win!NothingLeft /\ Win!OpensWanted
<1>1. WinTyped /\ WinAt /\ WinPath /\ WinHeld /\ WinMade
  BY DEF WinInv
<1>2. held \subseteq Win!Devices \X Win!Things
  <2>1. WinEntries \subseteq Win!Devices \X {"entry"}
    BY <1>1, WinListFacts DEF WinEntries
  <2>2. pc \in WinTurn => OfTurn \subseteq Win!Devices \X {"detail"} /\ OfQuery \subseteq Win!Devices \X {"query"}
    BY <1>1 DEF WinAt, OfTurn, OfQuery
  <2>3. path # 0 => path \in Win!Devices
    BY <1>1, WinConstants DEF WinTyped, Win!Devices
  <2>4. pc \in WinOpening \cup {"open"} \/ (pc = "free" /\ handle # 0) => path \in Win!Devices
    BY <1>1, <2>3 DEF WinAt
  <2>5. pc \in WinOpening \cup {"open"} \/ (pc = "free" /\ handle # 0) =>
           \A S \in SUBSET {"dev", "device", "preparsed", "buffer"} :
               OfPath(S) \subseteq Win!Devices \X {"dev", "device", "preparsed", "buffer"}
    BY <2>4 DEF OfPath
  <2>6. \A T : T \subseteq Win!Things => Win!Devices \X T \subseteq Win!Devices \X Win!Things
    OBVIOUS
  <2>7. /\ WinEntries \subseteq Win!Devices \X Win!Things
        /\ pc \in WinTurn => OfTurn \subseteq Win!Devices \X Win!Things
                             /\ OfQuery \subseteq Win!Devices \X Win!Things
        /\ pc \in WinOpening \cup {"open"} \/ (pc = "free" /\ handle # 0) =>
             \A S \in SUBSET {"dev", "device", "preparsed", "buffer"} :
               OfPath(S) \subseteq Win!Devices \X Win!Things
    BY <2>1, <2>2, <2>5, <2>6 DEF Win!Things
  <2> QED
    BY <1>1, <2>7 DEF WinHeld, WinTurn, WinOpening, WinTyped, WinPcs
<1>3. list \in Seq([dev : Win!Devices, vendor : Win!Vendors, serial : Nat])
  BY <1>1 DEF WinMade, WinEntry
<1>4. Win!TypeOK
  BY <1>1, <1>2, <1>3 DEF Win!TypeOK, WinTyped, WinPcs
<1>5. Win!ListExact
  <2> SUFFICES ASSUME pc \in {"listed", "choose"} PROVE Win!ListExact
    BY DEF Win!ListExact
  <2>1. /\ i = WinCount + 1 /\ plugged \subseteq 1 .. WinCount /\ WinCount \in Nat
    BY <1>1, WinConstants DEF WinTyped, WinAt, Win!Devices
  <2>2. \A e \in plugged : WinPassed(e)
    BY <2>1 DEF WinPassed
  <2>3. \A e \in plugged : WinCan(e) => \E k \in 1 .. Len(list) : list[k].dev = e
    BY <1>1, <2>2 DEF WinMade
  <2>4. \A k \in 1 .. Len(list) : list[k].dev \in plugged =>
          /\ WinCan(list[k].dev)
          /\ list[k].vendor = kind[list[k].dev].vendor
          /\ list[k].serial = kind[list[k].dev].serial
    BY <1>1 DEF WinMade
  <2>5. DOMAIN list = 1 .. Len(list) /\ Len(list) \in Nat
    BY <1>1, WinListFacts
  <2>6. \A k \in 2 .. Len(list) : list[k - 1].dev < list[k].dev
    <3>1. \A k \in 2 .. Len(list) : k - 1 \in 1 .. Len(list) /\ k \in 1 .. Len(list) /\ k - 1 < k
      BY <2>5
    <3> QED
      BY <1>1, <3>1 DEF WinMade
  <2>7. \A k \in DOMAIN list : kind[list[k].dev].openable /\ Win!Fits(list[k].vendor)
    BY <1>1, <2>5 DEF WinMade, Win!Fits
  <2>8. (\A e \in Win!Devices : ~Win!DriverBound(e)) => list = <<>>
    <3>1. ASSUME \A e \in Win!Devices : ~Win!DriverBound(e) PROVE list = <<>>
      <4>1. ~Win!SetHasDriver
        BY <3>1 DEF Win!SetHasDriver
      <4>2. ~(Len(list) > 0) /\ list \in Seq(WinEntry)
        BY <1>1, <4>1 DEF WinMade
      <4> QED
        BY <2>5, <4>2, EmptySeq
    <3> QED
      BY <3>1
  <2>9. ASSUME \A e \in Win!Devices : kind[e].class # "none",
               NEW e \in plugged, Win!DriverBound(e), Win!Wanted(e)
        PROVE  \E k \in DOMAIN list : list[k].dev = e
    <3>1. e \in Win!Devices /\ \A f \in 1 .. e - 1 : f \in Win!Devices
      BY <2>1 DEF Win!Devices
    <3>2. Win!SetHasDriver
      BY <2>9, <3>1 DEF Win!SetHasDriver
    <3>3. WinCan(e)
      BY <2>9, <3>2 DEF WinCan, Win!Wanted, Win!Fits
    <3> QED
      BY <2>3, <2>5, <3>3
  <2> QED
    BY <2>4, <2>5, <2>6, <2>7, <2>8, <2>9 DEF Win!ListExact
<1>6. Win!OneHandle
  BY <1>1, WinEntriesOnly DEF WinHeld, OfTurn, OfQuery, OfPath, Win!OneHandle, WinTyped, WinPcs
<1>7. Win!NothingLeft
  BY <1>1 DEF WinHeld, WinAt, OfPath, Win!NothingLeft
<1>8. Win!OpensWanted
  BY <1>1, WinConstants DEF WinAt, WinPath, WinTyped, Win!Devices, Win!OpensWanted
<1> QED
  BY <1>4, <1>5, <1>6, <1>7, <1>8


-----------------------------------------------------------------------------
(* hidapi with libusb.  Where it is, and what it has listed and opened.    *)
UsbPcs == {"enum", "query", "strings", "choose", "find", "detach", "claim",
           "thread", "free", "open", "failed", "closed"}
UsbListing == {"enum", "query", "strings"}
UsbOpening == {"detach", "claim", "thread"}
UsbAlts == Libusb!Alts(d)
UsbEntry == [path : Libusb!Paths, vendor : Nat, serial : Nat]

UsbTyped ==
    /\ kind \in [Libusb!Devices -> LibusbKinds] /\ wanted \in [vendor : Nat, serial : Nat]
    /\ plugged \subseteq Libusb!Devices /\ driver \subseteq Libusb!Paths
    /\ pc \in UsbPcs
    /\ d \in 1 .. LibusbCount + 1
    /\ a \in Nat \ {0} /\ a <= Len(UsbAlts) + 1
    /\ path \in Libusb!Paths \cup {Libusb!NoPath}
    /\ good_open \in BOOLEAN

UsbHolds ==
    /\ handles \in Seq(0 .. LibusbCount) /\ handle \in 0 .. Len(handles)
    /\ threads \subseteq 1 .. Len(handles)
    /\ claims \in [Libusb!Paths -> {-1} \cup 0 .. Len(handles)]
    /\ pc = "strings" => Len(handles) > 0

(* The altsetting hidapi is at is one of class HID that is there.          *)
UsbAt ==
    /\ pc \in {"query", "strings"} \cup UsbOpening =>
          d \in Libusb!Devices /\ a <= Len(UsbAlts) /\ UsbAlts[a].hid
    /\ pc \in UsbOpening => Libusb!Here = path
    /\ pc = "choose" => d = LibusbCount + 1
    /\ pc \in UsbListing \cup {"choose"} => ~good_open /\ path = Libusb!NoPath
    /\ pc \in UsbOpening \cup {"open", "closed"} => good_open
    /\ pc = "failed" => ~good_open
    /\ good_open => handle # 0 /\ path \in Libusb!Paths

(* What is in the list is true of its device, and hid_open chose from it.  *)
UsbTrue(x) ==
    /\ x.path[1] \in Libusb!Devices
    /\ x.vendor = kind[x.path[1]].vendor /\ x.serial \in {0, kind[x.path[1]].serial}

UsbListed ==
    /\ list \in Seq(UsbEntry)
    /\ \A k \in 1 .. Len(list) : UsbTrue(list[k])
    /\ pc \in {"query", "strings"} => Len(list) > 0 /\ list[Len(list)].path = Libusb!Here
    /\ path # Libusb!NoPath =>
          /\ path[1] \in Libusb!Devices
          /\ kind[path[1]].vendor = wanted.vendor
          /\ wanted.serial \in {0, kind[path[1]].serial}

(* A report is counted as hid_write counts it.                             *)
UsbReport ==
    /\ report.length \in Nat /\ report.ret \in Int
    /\ report.ret <= report.length
    /\ pc \in {"open", "closed"} =>
          (report.ret >= 0 /\ ~Libusb!HasOutput => report.ret = report.length)
    /\ pc \notin {"open", "closed"} => report.ret = report.length

LEMMA UsbConstants ==
    /\ LibusbCount \in Nat /\ Libusb!NoPath \notin Libusb!Paths
    /\ \A u \in LibusbKinds :
          /\ u.alts \in Seq([interface : Nat, hid : BOOLEAN, output : BOOLEAN])
          /\ Len(u.alts) \in Nat /\ DOMAIN u.alts = 1 .. Len(u.alts)
          /\ u.vendor \in Nat \ {0} /\ u.serial \in Nat
<1>1. /\ LibusbCount \in Nat
      /\ \A u \in LibusbKinds :
            /\ u.alts \in Seq([interface : Nat, hid : BOOLEAN, output : BOOLEAN])
            /\ u.vendor \in Nat \ {0} /\ u.serial \in Nat
  BY DevicesAssumption DEF Libusb!KindAssumption
<1>2. \A u \in LibusbKinds : Len(u.alts) \in Nat /\ DOMAIN u.alts = 1 .. Len(u.alts)
  BY <1>1, LenProperties
<1>3. Libusb!NoPath \notin Libusb!Paths
  BY <1>1 DEF Libusb!NoPath, Libusb!Paths, Libusb!Devices
<1> QED
  BY <1>1, <1>2, <1>3

LEMMA UsbAltsFacts ==
    ASSUME UsbTyped
    PROVE  /\ Len(UsbAlts) \in Nat /\ DOMAIN UsbAlts = 1 .. Len(UsbAlts)
           /\ d \in Libusb!Devices => UsbAlts = kind[d].alts
           /\ d \notin Libusb!Devices => Len(UsbAlts) = 0
           /\ d \in Libusb!Devices /\ a <= Len(UsbAlts) => Libusb!Here \in Libusb!Paths
           /\ Libusb!Here[1] = d
<1>1. CASE d \in Libusb!Devices
  <2>1. kind[d] \in LibusbKinds /\ UsbAlts = kind[d].alts
    BY <1>1 DEF UsbTyped, UsbAlts, Libusb!Alts
  <2>2. Len(UsbAlts) \in Nat /\ DOMAIN UsbAlts = 1 .. Len(UsbAlts)
    BY <2>1, UsbConstants
  <2>3. ASSUME a <= Len(UsbAlts) PROVE Libusb!Here \in Libusb!Paths
    <3>1. a \in DOMAIN kind[d].alts
      BY <2>1, <2>2, <2>3 DEF UsbTyped
    <3>2. Libusb!Here = <<d, kind[d].alts[a].interface>>
      BY <2>1 DEF Libusb!Here, UsbAlts
    <3>3. kind[d].alts[a].interface \in
             UNION {{u.alts[b].interface : b \in DOMAIN u.alts} : u \in LibusbKinds}
      BY <2>1, <3>1
    <3> QED
      BY <1>1, <3>2, <3>3 DEF Libusb!Paths
  <2> QED
    BY <1>1, <2>1, <2>2, <2>3 DEF Libusb!Here
<1>2. CASE d \notin Libusb!Devices
  <2>1. UsbAlts = <<>>
    BY <1>2 DEF UsbAlts, Libusb!Alts
  <2> QED
    BY <1>2, <2>1, EmptySeq, LenProperties DEF Libusb!Here
<1> QED
  BY <1>1, <1>2

LEMMA UsbBreaks ==
    ASSUME UsbTyped, a <= Len(UsbAlts)
    PROVE  Libusb!BreakTo \in a + 1 .. Len(UsbAlts) + 1
<1> DEFINE rest == {b \in a + 1 .. Len(UsbAlts) : UsbAlts[b].interface # UsbAlts[a].interface}
<1>1. Libusb!BreakTo = IF rest = {} THEN Len(UsbAlts) + 1
                       ELSE CHOOSE b \in rest : \A c \in rest : b <= c
  BY DEF Libusb!BreakTo, UsbAlts
<1>2. rest \in SUBSET Nat /\ rest \subseteq a + 1 .. Len(UsbAlts) /\ Len(UsbAlts) \in Nat /\ a \in Nat
  BY UsbAltsFacts DEF UsbTyped
<1> HIDE DEF rest
<1>3. rest # {} => \E b \in rest : \A c \in rest : b <= c
  BY <1>2, Least
<1>4. rest # {} => Libusb!BreakTo \in rest
  BY <1>1, <1>3
<1>5. CASE rest = {}
  BY <1>1, <1>2, <1>5
<1>6. CASE rest # {}
  <2>1. \A b \in rest : b \in a + 1 .. Len(UsbAlts) + 1
    BY <1>2
  <2> QED
    BY <1>4, <1>6, <2>1
<1> QED
  BY <1>5, <1>6

(* The loops go from an altsetting to a later one, or to the next device.  *)
LEMMA UsbMoves ==
    ASSUME UsbTyped, UNCHANGED kind
    PROVE  /\ Libusb!NextAlt /\ a <= Len(UsbAlts) =>
                d' = d /\ UsbAlts' = UsbAlts /\ a' = a + 1
                /\ a' \in Nat \ {0} /\ a' <= Len(UsbAlts') + 1
           /\ Libusb!Break /\ a <= Len(UsbAlts) =>
                d' = d /\ UsbAlts' = UsbAlts /\ a' > a
                /\ a' \in Nat \ {0} /\ a' <= Len(UsbAlts') + 1
           /\ Libusb!NextDevice /\ d \in Libusb!Devices =>
                d' = d + 1 /\ d' \in 1 .. LibusbCount + 1 /\ a' = 1
                /\ a' \in Nat \ {0} /\ a' <= Len(UsbAlts') + 1
           /\ UNCHANGED <<d, a>> => UsbAlts' = UsbAlts /\ Libusb!Here' = Libusb!Here
<1>1. Len(UsbAlts) \in Nat /\ a \in Nat \ {0}
  BY UsbAltsFacts DEF UsbTyped
<1>2. d' = d => UsbAlts' = UsbAlts
  BY DEF UsbAlts, Libusb!Alts
<1>5. UNCHANGED <<d, a>> => Libusb!Here' = Libusb!Here
  BY DEF Libusb!Here, Libusb!Alts
<1>3. ASSUME Libusb!NextDevice, d \in Libusb!Devices
      PROVE  d' = d + 1 /\ d' \in 1 .. LibusbCount + 1 /\ a' = 1 /\ Len(UsbAlts') \in Nat
  <2>1. d' = d + 1 /\ d' \in 1 .. LibusbCount + 1 /\ a' = 1
    BY <1>3, UsbConstants DEF Libusb!NextDevice, Libusb!Devices
  <2>2. CASE d' \in Libusb!Devices
    <3>1. UsbAlts' = kind[d'].alts /\ kind[d'] \in LibusbKinds
      BY <2>2 DEF UsbAlts, Libusb!Alts, UsbTyped
    <3> QED
      BY <2>1, <3>1, UsbConstants
  <2>3. CASE d' \notin Libusb!Devices
    <3>1. UsbAlts' = <<>>
      BY <2>3 DEF UsbAlts, Libusb!Alts
    <3> QED
      BY <2>1, <3>1, EmptySeq
  <2> QED
    BY <2>2, <2>3
<1>4. ASSUME Libusb!Break, a <= Len(UsbAlts)
      PROVE  d' = d /\ a' > a /\ a' \in Nat \ {0} /\ a' <= Len(UsbAlts) + 1
  BY <1>1, <1>4, UsbBreaks DEF Libusb!Break
<1> QED
  BY <1>1, <1>2, <1>3, <1>4, <1>5 DEF Libusb!NextAlt

LEMMA UsbInitially0 ==
    ASSUME LibusbInit
    PROVE  UsbTyped /\ UsbHolds /\ UsbAt /\ UsbListed /\ UsbReport
<1>1. /\ kind \in [Libusb!Devices -> LibusbKinds]
      /\ wanted \in [vendor : {kind[e].vendor : e \in Libusb!Devices} \cup {0},
                     serial : {kind[e].serial : e \in Libusb!Devices} \cup {0}]
      /\ plugged = Libusb!Devices /\ driver \in {{}, Libusb!Paths}
      /\ handles = <<>> /\ threads = {} /\ pc = "enum" /\ d = 1 /\ a = 1
      /\ list = <<>> /\ path = Libusb!NoPath /\ handle = 0 /\ good_open = FALSE
      /\ report = [length |-> 0, ret |-> 0]
  BY DEF LibusbInit, Libusb!Init, Libusb!Foreign, Libusb!NoReport
<1>9. claims \in {[p \in Libusb!Paths |-> 0]}
         \cup {[q \in Libusb!Paths |-> IF q = p THEN -1 ELSE 0] : p \in Libusb!Paths}
  BY DEF LibusbInit, Libusb!Init, Libusb!Foreign
<1>2. \A e \in Libusb!Devices : kind[e].vendor \in Nat /\ kind[e].serial \in Nat
  BY <1>1, UsbConstants
<1>3. wanted \in [vendor : Nat, serial : Nat]
  BY <1>1, <1>2
<1>4. Len(UsbAlts) \in Nat
  <2>1. CASE d \in Libusb!Devices
    BY <1>1, <2>1, UsbConstants DEF UsbAlts, Libusb!Alts
  <2>2. CASE d \notin Libusb!Devices
    BY <2>2, EmptySeq DEF UsbAlts, Libusb!Alts
  <2> QED
    BY <2>1, <2>2
<1>5. UsbTyped
  <2>1. d \in 1 .. LibusbCount + 1 /\ a \in Nat \ {0} /\ a <= Len(UsbAlts) + 1
    BY <1>1, <1>4, UsbConstants
  <2>2. driver \subseteq Libusb!Paths /\ pc \in UsbPcs /\ plugged \subseteq Libusb!Devices
    BY <1>1 DEF UsbPcs
  <2>3. path \in Libusb!Paths \cup {Libusb!NoPath} /\ good_open \in BOOLEAN
    BY <1>1
  <2> QED
    BY <1>1, <1>3, <2>1, <2>2, <2>3 DEF UsbTyped
<1>6. Len(handles) = 0 /\ handles \in Seq(0 .. LibusbCount) /\ Len(list) = 0 /\ list \in Seq(UsbEntry)
  BY <1>1, EmptySeq
<1>7. UsbHolds
  <2>1. claims \in [Libusb!Paths -> {-1, 0}]
    BY <1>9
  <2> QED
    BY <1>1, <1>6, <2>1 DEF UsbHolds
<1>8. UsbAt /\ UsbListed /\ UsbReport
  BY <1>1, <1>6 DEF UsbAt, UsbListed, UsbReport, UsbOpening
<1> QED
  BY <1>5, <1>7, <1>8

(* What one step of each loop does.                                        *)
LEMMA UsbEnumerates ==
    ASSUME UsbTyped, Libusb!Enumerate
    PROVE  /\ pc = "enum" /\ d \in Libusb!Devices
           /\ UNCHANGED <<kind, wanted, plugged, driver, claims, handles, threads, path,
                          handle, good_open, report>>
           /\ a' \in Nat \ {0} /\ a' <= Len(UsbAlts') + 1 /\ d' \in 1 .. LibusbCount + 1
           /\ \/ /\ pc' = "enum" /\ list' = list /\ d' = d + 1 /\ a' = 1
                 /\ a > Len(UsbAlts) \/ ~Libusb!Enumerates(d)
              \/ /\ pc' = "enum" /\ list' = list /\ d' = d /\ a' = a + 1 /\ UsbAlts' = UsbAlts
                 /\ a <= Len(UsbAlts) /\ Libusb!Enumerates(d)
                 /\ ~(UsbAlts[a].hid /\ Libusb!VendorFits(kind[d].vendor))
              \/ /\ pc' = "query" /\ d' = d /\ a' = a /\ UsbAlts' = UsbAlts
                 /\ Libusb!Here' = Libusb!Here
                 /\ a <= Len(UsbAlts) /\ Libusb!Enumerates(d)
                 /\ UsbAlts[a].hid /\ Libusb!VendorFits(kind[d].vendor)
                 /\ list' = Append(list, [path |-> Libusb!Here, vendor |-> kind[d].vendor,
                                          serial |-> 0])
<1>1. /\ pc = "enum" /\ d \in Libusb!Devices
      /\ UNCHANGED <<kind, wanted, plugged, driver, claims, handles, threads, path,
                     handle, good_open, report>>
  BY DEF Libusb!Enumerate, Libusb!given, Libusb!usb, Libusb!device
<1>2. Len(UsbAlts) \in Nat /\ a \in Nat
  BY UsbAltsFacts DEF UsbTyped
<1>3. CASE ~Libusb!Enumerates(d) \/ a > Len(UsbAlts)
  <2>1. Libusb!NextDevice /\ UNCHANGED <<pc, list>>
    BY <1>3 DEF Libusb!Enumerate, UsbAlts
  <2> QED
    BY <1>1, <1>3, <2>1, UsbMoves
<1>4. CASE /\ Libusb!Enumerates(d) /\ a <= Len(UsbAlts)
           /\ ~(UsbAlts[a].hid /\ Libusb!VendorFits(kind[d].vendor))
  <2>1. Libusb!NextAlt /\ UNCHANGED <<pc, list>>
    BY <1>2, <1>4 DEF Libusb!Enumerate, UsbAlts
  <2> QED
    BY <1>1, <1>4, <2>1, UsbMoves DEF UsbTyped
<1>5. CASE /\ Libusb!Enumerates(d) /\ a <= Len(UsbAlts)
           /\ UsbAlts[a].hid /\ Libusb!VendorFits(kind[d].vendor)
  <2>1. /\ pc' = "query" /\ UNCHANGED <<d, a>>
        /\ list' = Append(list, [path |-> Libusb!Here, vendor |-> kind[d].vendor, serial |-> 0])
    BY <1>2, <1>5 DEF Libusb!Enumerate, UsbAlts
  <2> QED
    BY <1>1, <1>5, <2>1, UsbMoves DEF UsbTyped
<1> QED
  BY <1>2, <1>3, <1>4, <1>5

LEMMA UsbFinds ==
    ASSUME UsbTyped, Libusb!Find
    PROVE  /\ pc = "find" /\ d \in Libusb!Devices
           /\ UNCHANGED <<kind, wanted, plugged, driver, claims, threads, list, path, report>>
           /\ a' \in Nat \ {0} /\ a' <= Len(UsbAlts') + 1 /\ d' \in 1 .. LibusbCount + 1
           /\ \/ /\ pc' = "find" /\ UNCHANGED <<handles, handle, good_open>>
                 /\ \/ d' = d + 1 /\ a' = 1 /\ (kind[d].config # "active" \/ a > Len(UsbAlts))
                    \/ /\ d' = d /\ a' = a + 1 /\ UsbAlts' = UsbAlts /\ a <= Len(UsbAlts)
                       /\ ~UsbAlts[a].hid \/ Libusb!Here # path
                    \/ d' = d /\ a' > a /\ UsbAlts' = UsbAlts /\ a <= Len(UsbAlts)
              \/ /\ pc' = "detach" /\ d' = d /\ a' = a /\ UsbAlts' = UsbAlts
                 /\ Libusb!Here' = Libusb!Here
                 /\ a <= Len(UsbAlts) /\ UsbAlts[a].hid /\ Libusb!Here = path
                 /\ handles' = Append(handles, d) /\ handle' = Len(handles')
                 /\ good_open' = TRUE
<1>1. /\ pc = "find" /\ d \in Libusb!Devices
      /\ UNCHANGED <<kind, wanted, plugged, driver, claims, threads, list, path, report>>
  BY DEF Libusb!Find, Libusb!given
<1>2. Len(UsbAlts) \in Nat /\ a \in Nat
  BY UsbAltsFacts DEF UsbTyped
<1>3. CASE kind[d].config # "active" \/ a > Len(UsbAlts)
  <2>1. Libusb!NextDevice /\ UNCHANGED <<pc, handles, handle, good_open>>
    BY <1>3 DEF Libusb!Find, UsbAlts
  <2> QED
    BY <1>1, <1>3, <2>1, UsbMoves
<1>4. CASE /\ kind[d].config = "active" /\ a <= Len(UsbAlts)
           /\ ~UsbAlts[a].hid \/ Libusb!Here # path
  <2>1. Libusb!NextAlt /\ UNCHANGED <<pc, handles, handle, good_open>>
    BY <1>2, <1>4 DEF Libusb!Find, UsbAlts
  <2> QED
    BY <1>1, <1>4, <2>1, UsbMoves DEF UsbTyped
<1>5. CASE /\ kind[d].config = "active" /\ a <= Len(UsbAlts)
           /\ UsbAlts[a].hid /\ Libusb!Here = path /\ d \in plugged
  <2>1. /\ handles' = Append(handles, d) /\ handle' = Len(handles') /\ good_open' = TRUE
        /\ pc' = "detach" /\ UNCHANGED <<d, a>>
    BY <1>2, <1>5 DEF Libusb!Find, UsbAlts, Libusb!LibusbOpens, Libusb!Opened
  <2> QED
    BY <1>1, <1>5, <2>1, UsbMoves DEF UsbTyped
<1>6. CASE /\ kind[d].config = "active" /\ a <= Len(UsbAlts)
           /\ UsbAlts[a].hid /\ Libusb!Here = path /\ d \notin plugged
  <2>1. Libusb!Break /\ UNCHANGED <<pc, handles, handle, good_open>>
    BY <1>2, <1>6 DEF Libusb!Find, UsbAlts, Libusb!LibusbOpens
  <2> QED
    BY <1>1, <1>6, <2>1, UsbMoves DEF UsbTyped
<1>7. a <= Len(UsbAlts) \/ a > Len(UsbAlts)
  BY <1>2
<1> QED
  BY <1>3, <1>4, <1>5, <1>6, <1>7, Zenon

(* A failed detach or claim closes the handle.                             *)
UsbGivesUp ==
    /\ handles' = [handles EXCEPT ![handle] = 0] /\ good_open' = FALSE /\ pc' = "find"
    /\ d' = d /\ a' > a /\ UsbAlts' = UsbAlts

LEMMA UsbClaims ==
    ASSUME UsbTyped, UsbAt, Libusb!Detach \/ Libusb!Claim
    PROVE  /\ pc \in {"detach", "claim"} /\ a <= Len(UsbAlts)
           /\ UNCHANGED <<kind, wanted, plugged, threads, list, path, handle, report>>
           /\ a' \in Nat \ {0} /\ a' <= Len(UsbAlts') + 1 /\ d' \in 1 .. LibusbCount + 1
           /\ \/ /\ UsbGivesUp /\ UNCHANGED <<driver, claims>>
              \/ /\ UNCHANGED <<handles, good_open, d, a>> /\ UsbAlts' = UsbAlts
                 /\ Libusb!Here' = Libusb!Here
                 /\ \/ /\ pc = "detach" /\ pc' = "claim" /\ driver' = driver \ {path}
                       /\ claims' = claims
                    \/ /\ pc = "claim" /\ pc' = "thread" /\ driver' = driver
                       /\ claims[path] = 0 /\ claims' = [claims EXCEPT ![path] = handle]
<1>1. /\ pc \in {"detach", "claim"} /\ a <= Len(UsbAlts) /\ Libusb!Here = path
      /\ UNCHANGED <<kind, wanted, plugged, threads, list, path, handle, report>>
  BY DEF Libusb!Detach, Libusb!Claim, Libusb!given, UsbAt, UsbOpening
<1>2. ASSUME Libusb!Fail
      PROVE  UsbGivesUp /\ a' \in Nat \ {0} /\ a' <= Len(UsbAlts') + 1 /\ d' \in 1 .. LibusbCount + 1
  BY <1>1, <1>2, UsbMoves DEF UsbGivesUp, Libusb!Fail, Libusb!CloseHandle, Libusb!Closed,
     Libusb!NotGood, UsbTyped
<1>3. ASSUME UNCHANGED <<d, a>>
      PROVE  /\ UsbAlts' = UsbAlts /\ Libusb!Here' = Libusb!Here
             /\ a' \in Nat \ {0} /\ a' <= Len(UsbAlts') + 1 /\ d' \in 1 .. LibusbCount + 1
  BY <1>1, <1>3, UsbMoves DEF UsbTyped
<1>4. CASE Libusb!Detach
  BY <1>1, <1>2, <1>3, <1>4 DEF Libusb!Detach
<1>5. CASE Libusb!Claim
  BY <1>1, <1>2, <1>3, <1>5 DEF Libusb!Claim
<1> QED
  BY <1>4, <1>5

LEMMA UsbListFacts ==
    ASSUME UsbListed
    PROVE  /\ Len(list) \in Nat /\ DOMAIN list = 1 .. Len(list)
           /\ \A k \in 1 .. Len(list) :
                 /\ list[k] \in UsbEntry /\ list[k].path \in Libusb!Paths
                 /\ list[k].vendor \in Nat /\ list[k].serial \in Nat
<1>1. list \in Seq(UsbEntry)
  BY DEF UsbListed
<1>2. Len(list) \in Nat /\ DOMAIN list = 1 .. Len(list)
  BY <1>1, LenProperties
<1>3. \A k \in 1 .. Len(list) : list[k] \in UsbEntry
  BY <1>1, ElementOfSeq
<1> QED
  BY <1>2, <1>3 DEF UsbEntry

(* hid_open takes the first entry that fits.                               *)
LEMMA UsbChooses ==
    ASSUME UsbTyped, UsbListed, Libusb!Choose
    PROVE  /\ pc = "choose" /\ d' = 1 /\ a' = 1 /\ Len(UsbAlts') \in Nat
           /\ UNCHANGED <<kind, wanted, plugged, driver, claims, handles, threads, list, handle,
                          good_open, report>>
           /\ \/ pc' = "free" /\ path' = path
              \/ /\ pc' = "find"
                 /\ \E k \in 1 .. Len(list) : path' = list[k].path /\ Libusb!Matches(list[k])
<1>1. /\ pc = "choose" /\ d' = 1 /\ a' = 1
      /\ UNCHANGED <<kind, wanted, plugged, driver, claims, handles, threads, list, handle,
                     good_open, report>>
  BY DEF Libusb!Choose, Libusb!given, Libusb!usb, Libusb!device
<1>2. Len(UsbAlts') \in Nat
  <2>1. CASE d' \in Libusb!Devices
    <3>1. UsbAlts' = kind[d'].alts /\ kind[d'] \in LibusbKinds
      BY <1>1, <2>1 DEF UsbAlts, Libusb!Alts, UsbTyped
    <3> QED
      BY <3>1, UsbConstants
  <2>2. CASE d' \notin Libusb!Devices
    <3>1. UsbAlts' = <<>>
      BY <2>2 DEF UsbAlts, Libusb!Alts
    <3> QED
      BY <3>1, EmptySeq
  <2> QED
    BY <2>1, <2>2
<1> DEFINE fits == {k \in DOMAIN list : Libusb!Matches(list[k])}
<1>3. CASE fits = {}
  BY <1>1, <1>2, <1>3 DEF Libusb!Choose
<1>4. CASE fits # {}
  <2>1. fits \in SUBSET Nat
    BY UsbListFacts
  <2>2. \E k \in fits : \A m \in fits : k <= m
    BY <1>4, <2>1, Least
  <2>3. PICK k : k = CHOOSE n \in fits : \A m \in fits : n <= m
    OBVIOUS
  <2>4. k \in fits
    BY <2>2, <2>3
  <2>5. pc' = "find" /\ path' = list[k].path
    BY <1>4, <2>3 DEF Libusb!Choose
  <2>6. k \in 1 .. Len(list) /\ Libusb!Matches(list[k])
    BY <2>4, UsbListFacts
  <2> QED
    BY <1>1, <1>2, <2>5, <2>6
<1> QED
  BY <1>3, <1>4

LEMMA UsbTypedKept ==
    ASSUME UsbTyped, UsbAt, UsbListed, Libusb!Next
    PROVE  UsbTyped'
<1>1. CASE Libusb!Enumerate
  BY <1>1, UsbEnumerates DEF UsbTyped, UsbPcs
<1>2. CASE Libusb!Query
  BY <1>2, UsbMoves, UsbAltsFacts, UsbConstants DEF UsbTyped, UsbAt, UsbPcs, UsbOpening,
     Libusb!Query, Libusb!LibusbOpens, Libusb!Opened, Libusb!NextAlt, Libusb!given, Libusb!device
<1>3. CASE Libusb!ReadStrings
  BY <1>3, UsbMoves, UsbAltsFacts, UsbConstants DEF UsbTyped, UsbAt, UsbPcs, UsbOpening,
     Libusb!ReadStrings, Libusb!Closed, Libusb!NextAlt, Libusb!given, Libusb!device
<1>4. CASE Libusb!EndEnumerate
  BY <1>4, UsbMoves, UsbAltsFacts, UsbConstants DEF UsbTyped, UsbAt, UsbPcs, UsbOpening,
     Libusb!EndEnumerate, Libusb!given, Libusb!usb, Libusb!device
<1>5. CASE Libusb!Choose
  <2>1. path' \in Libusb!Paths \cup {Libusb!NoPath}
    BY <1>5, UsbChooses, UsbListFacts DEF UsbTyped
  <2>2. 1 \in 1 .. LibusbCount + 1
    BY UsbConstants
  <2> QED
    BY <1>5, <2>1, <2>2, UsbChooses DEF UsbTyped, UsbPcs
<1>6. CASE Libusb!Find
  BY <1>6, UsbFinds DEF UsbTyped, UsbPcs
<1>7. CASE Libusb!Detach
  BY <1>7, UsbClaims DEF UsbTyped, UsbGivesUp, UsbPcs
<1>8. CASE Libusb!Claim
  BY <1>8, UsbClaims DEF UsbTyped, UsbGivesUp, UsbPcs
<1>9. CASE Libusb!StartThread
  BY <1>9, UsbMoves, UsbAltsFacts, UsbConstants DEF UsbTyped, UsbAt, UsbPcs, UsbOpening,
     Libusb!StartThread, Libusb!NextAlt, Libusb!given, Libusb!device
<1>10. CASE Libusb!EndFind
  BY <1>10, UsbMoves, UsbAltsFacts, UsbConstants DEF UsbTyped, UsbAt, UsbPcs, UsbOpening,
     Libusb!EndFind, Libusb!given, Libusb!usb, Libusb!device
<1>11. CASE Libusb!FreeEnumeration
  BY <1>11, UsbMoves, UsbAltsFacts, UsbConstants DEF UsbTyped, UsbAt, UsbPcs, UsbOpening,
     Libusb!FreeEnumeration, Libusb!given, Libusb!usb, Libusb!device
<1>12. CASE Libusb!Close
  BY <1>12, UsbMoves, UsbAltsFacts, UsbConstants DEF UsbTyped, UsbAt, UsbPcs, UsbOpening,
     Libusb!Close, Libusb!Released, Libusb!Closed, Libusb!given, Libusb!device
<1>13. ASSUME NEW number \in {0, 1}, NEW length \in {1, 3}, Libusb!Send(number, length) PROVE UsbTyped'
  BY <1>13, UsbMoves, UsbAltsFacts, UsbConstants DEF UsbTyped, UsbAt, UsbPcs, UsbOpening,
     Libusb!Send, Libusb!given, Libusb!usb, Libusb!Counted
<1>14. ASSUME NEW e \in Libusb!Devices, Libusb!Unplug(e) PROVE UsbTyped'
  BY <1>14, UsbMoves, UsbAltsFacts, UsbConstants DEF UsbTyped, UsbAt, UsbPcs, UsbOpening,
     Libusb!Unplug, Libusb!usb, Libusb!device
<1> QED
  BY <1>1, <1>2, <1>3, <1>4, <1>5, <1>6, <1>7, <1>8, <1>9, <1>10, <1>11, <1>12, <1>13, <1>14
     DEF Libusb!Next

LEMMA UsbAtKept ==
    ASSUME UsbTyped, UsbHolds, UsbAt, UsbListed, Libusb!Next
    PROVE  UsbAt'
<1>1. CASE Libusb!Enumerate
  BY <1>1, UsbEnumerates DEF UsbTyped, UsbAt, UsbOpening, UsbListing
<1>2. CASE Libusb!Query
  BY <1>2, UsbMoves, UsbAltsFacts, UsbConstants DEF UsbTyped, UsbAt, UsbOpening, UsbListing,
     Libusb!Devices, Libusb!Query, Libusb!LibusbOpens, Libusb!Opened, Libusb!NextAlt, Libusb!given,
     Libusb!device
<1>3. CASE Libusb!ReadStrings
  BY <1>3, UsbMoves, UsbAltsFacts, UsbConstants DEF UsbTyped, UsbAt, UsbOpening, UsbListing,
     Libusb!Devices, Libusb!ReadStrings, Libusb!Closed, Libusb!NextAlt, Libusb!given, Libusb!device
<1>4. CASE Libusb!EndEnumerate
  BY <1>4, UsbMoves, UsbAltsFacts, UsbConstants DEF UsbTyped, UsbAt, UsbOpening, UsbListing,
     Libusb!Devices, Libusb!EndEnumerate, Libusb!given, Libusb!usb, Libusb!device
<1>5. CASE Libusb!Choose
  <2>1. pc' \in {"free", "find"} /\ ~good_open'
    BY <1>5, UsbChooses DEF UsbAt, UsbListing
  <2> QED
    BY <2>1 DEF UsbAt, UsbOpening, UsbListing
<1>6. CASE Libusb!Find
  <2>1. good_open' => handle' # 0 /\ path' \in Libusb!Paths
    <3>1. Len(Append(handles, d)) # 0
      BY <1>6, UsbFinds, AppendProperties, LenProperties DEF UsbHolds, Libusb!Devices
    <3>2. d \in Libusb!Devices /\ a <= Len(UsbAlts) => Libusb!Here \in Libusb!Paths
      BY UsbAltsFacts
    <3> QED
      BY <1>6, <3>1, <3>2, UsbFinds DEF UsbAt
  <2> QED
    BY <1>6, <2>1, UsbFinds DEF UsbTyped, UsbAt, UsbOpening, UsbListing
<1>7. CASE Libusb!Detach
  BY <1>7, UsbClaims DEF UsbTyped, UsbAt, UsbGivesUp, UsbOpening, UsbListing
<1>8. CASE Libusb!Claim
  BY <1>8, UsbClaims DEF UsbTyped, UsbAt, UsbGivesUp, UsbOpening, UsbListing
<1>9. CASE Libusb!StartThread
  BY <1>9, UsbMoves, UsbAltsFacts, UsbConstants DEF UsbTyped, UsbAt, UsbOpening, UsbListing,
     Libusb!Devices, Libusb!StartThread, Libusb!NextAlt, Libusb!given, Libusb!device
<1>10. CASE Libusb!EndFind
  BY <1>10, UsbMoves, UsbAltsFacts, UsbConstants DEF UsbTyped, UsbAt, UsbOpening, UsbListing,
     Libusb!Devices, Libusb!EndFind, Libusb!given, Libusb!usb, Libusb!device
<1>11. CASE Libusb!FreeEnumeration
  BY <1>11, UsbMoves, UsbAltsFacts, UsbConstants DEF UsbTyped, UsbAt, UsbOpening, UsbListing,
     Libusb!Devices, Libusb!FreeEnumeration, Libusb!given, Libusb!usb, Libusb!device
<1>12. CASE Libusb!Close
  BY <1>12, UsbMoves, UsbAltsFacts, UsbConstants DEF UsbTyped, UsbAt, UsbOpening, UsbListing,
     Libusb!Devices, Libusb!Close, Libusb!Released, Libusb!Closed, Libusb!given, Libusb!device
<1>13. ASSUME NEW number \in {0, 1}, NEW length \in {1, 3}, Libusb!Send(number, length) PROVE UsbAt'
  BY <1>13, UsbMoves, UsbAltsFacts, UsbConstants DEF UsbTyped, UsbAt, UsbOpening, UsbListing,
     Libusb!Devices, Libusb!Send, Libusb!given, Libusb!usb, Libusb!Counted
<1>14. ASSUME NEW e \in Libusb!Devices, Libusb!Unplug(e) PROVE UsbAt'
  BY <1>14, UsbMoves, UsbAltsFacts, UsbConstants DEF UsbTyped, UsbAt, UsbOpening, UsbListing,
     Libusb!Devices, Libusb!Unplug, Libusb!usb, Libusb!device
<1> QED
  BY <1>1, <1>2, <1>3, <1>4, <1>5, <1>6, <1>7, <1>8, <1>9, <1>10, <1>11, <1>12, <1>13, <1>14
     DEF Libusb!Next

LEMMA UsbReportKept ==
    ASSUME UsbTyped, UsbAt, UsbReport, Libusb!Next
    PROVE  UsbReport'
<1>1. CASE Libusb!Enumerate
  BY <1>1, UsbConstants DEF UsbReport, UsbTyped, Libusb!HasOutput, Libusb!Alts, Libusb!Enumerate,
     Libusb!NextDevice, Libusb!NextAlt, Libusb!given, Libusb!usb, Libusb!device
<1>2. CASE Libusb!Query
  BY <1>2, UsbConstants DEF UsbReport, UsbTyped, Libusb!HasOutput, Libusb!Alts, Libusb!Query,
     Libusb!LibusbOpens, Libusb!Opened, Libusb!NextAlt, Libusb!given, Libusb!device
<1>3. CASE Libusb!ReadStrings
  BY <1>3, UsbConstants DEF UsbReport, UsbTyped, Libusb!HasOutput, Libusb!Alts, Libusb!ReadStrings,
     Libusb!Closed, Libusb!NextAlt, Libusb!given, Libusb!device
<1>4. CASE Libusb!EndEnumerate
  BY <1>4, UsbConstants DEF UsbReport, UsbTyped, Libusb!HasOutput, Libusb!Alts,
     Libusb!EndEnumerate, Libusb!given, Libusb!usb, Libusb!device
<1>5. CASE Libusb!Choose
  BY <1>5, UsbConstants DEF UsbReport, UsbTyped, Libusb!HasOutput, Libusb!Alts, Libusb!Choose,
     Libusb!given, Libusb!usb, Libusb!device
<1>6. CASE Libusb!Find
  BY <1>6, UsbConstants DEF UsbReport, UsbTyped, Libusb!HasOutput, Libusb!Alts, Libusb!Find,
     Libusb!NextDevice, Libusb!NextAlt, Libusb!LibusbOpens, Libusb!Opened, Libusb!Break,
     Libusb!given
<1>7. CASE Libusb!Detach
  BY <1>7, UsbConstants DEF UsbReport, UsbTyped, Libusb!HasOutput, Libusb!Alts, Libusb!Detach,
     Libusb!Fail, Libusb!NotGood, Libusb!CloseHandle, Libusb!Closed, Libusb!Break, Libusb!given
<1>8. CASE Libusb!Claim
  BY <1>8, UsbConstants DEF UsbReport, UsbTyped, Libusb!HasOutput, Libusb!Alts, Libusb!Claim,
     Libusb!Fail, Libusb!NotGood, Libusb!CloseHandle, Libusb!Closed, Libusb!Break, Libusb!given
<1>9. CASE Libusb!StartThread
  BY <1>9, UsbConstants DEF UsbReport, UsbTyped, Libusb!HasOutput, Libusb!Alts, Libusb!StartThread,
     Libusb!NextAlt, Libusb!given, Libusb!device
<1>10. CASE Libusb!EndFind
  BY <1>10, UsbConstants DEF UsbReport, UsbTyped, Libusb!HasOutput, Libusb!Alts, Libusb!EndFind,
     Libusb!given, Libusb!usb, Libusb!device
<1>11. CASE Libusb!FreeEnumeration
  BY <1>11, UsbConstants DEF UsbReport, UsbTyped, Libusb!HasOutput, Libusb!Alts,
     Libusb!FreeEnumeration, Libusb!given, Libusb!usb, Libusb!device
<1>12. CASE Libusb!Close
  BY <1>12, UsbConstants DEF UsbReport, UsbTyped, Libusb!HasOutput, Libusb!Alts, Libusb!Close,
     Libusb!Released, Libusb!Closed, Libusb!given, Libusb!device
<1>13. ASSUME NEW number \in {0, 1}, NEW length \in {1, 3}, Libusb!Send(number, length) PROVE UsbReport'
  <2>1. /\ pc = "open" /\ pc' = "open" /\ UNCHANGED <<kind, path>>
        /\ Libusb!HasOutput' = Libusb!HasOutput
    BY <1>13 DEF Libusb!Send, Libusb!given, Libusb!HasOutput, Libusb!Alts
  <2> DEFINE sent == length - (IF number = 0 THEN 1 ELSE 0)
  <2>2. \/ report' = [length |-> length, ret |-> -1]
        \/ \E actual \in IF Libusb!HasOutput THEN 0 .. sent ELSE {sent} :
              report' = [length |-> length, ret |-> actual + Libusb!Counted(number)]
    BY <1>13 DEF Libusb!Send
  <2>3. /\ length \in Nat /\ sent \in Nat /\ Libusb!Counted(number) \in Nat
        /\ sent + Libusb!Counted(number) = length
    BY DEF Libusb!Counted
  <2> HIDE DEF sent
  <2>4. CASE report' = [length |-> length, ret |-> -1]
    BY <2>1, <2>3, <2>4 DEF UsbReport
  <2>5. ASSUME NEW actual \in IF Libusb!HasOutput THEN 0 .. sent ELSE {sent},
               report' = [length |-> length, ret |-> actual + Libusb!Counted(number)]
        PROVE  UsbReport'
    <3>1. actual \in Nat /\ actual <= sent /\ (~Libusb!HasOutput => actual = sent)
      BY <2>3
    <3>2. report'.length = length /\ report'.ret = actual + Libusb!Counted(number)
      BY <2>5
    <3> QED
      BY <2>1, <2>3, <3>1, <3>2 DEF UsbReport
  <2> QED
    BY <2>2, <2>4, <2>5
<1>14. ASSUME NEW e \in Libusb!Devices, Libusb!Unplug(e) PROVE UsbReport'
  BY <1>14, UsbConstants DEF UsbReport, UsbTyped, Libusb!HasOutput, Libusb!Alts, Libusb!Unplug,
     Libusb!usb, Libusb!device
<1> QED
  BY <1>1, <1>2, <1>3, <1>4, <1>5, <1>6, <1>7, <1>8, <1>9, <1>10, <1>11, <1>12, <1>13, <1>14
     DEF Libusb!Next

LEMMA UsbAppends ==
    ASSUME UsbHolds, NEW e \in Libusb!Devices, handles' = Append(handles, e)
    PROVE  /\ handles' \in Seq(0 .. LibusbCount) /\ Len(handles') = Len(handles) + 1
           /\ Len(handles) \in Nat
           /\ \A h \in 1 .. Len(handles) : handles'[h] = handles[h]
           /\ handles'[Len(handles) + 1] = e
<1>1. e \in 0 .. LibusbCount
  BY UsbConstants DEF Libusb!Devices
<1> QED
  BY <1>1, AppendProperties, LenProperties DEF UsbHolds

LEMMA UsbCloses ==
    ASSUME UsbHolds, NEW h \in 1 .. Len(handles), handles' = [handles EXCEPT ![h] = 0]
    PROVE  /\ handles' \in Seq(0 .. LibusbCount) /\ Len(handles') = Len(handles)
           /\ \A k \in 1 .. Len(handles) : handles'[k] = IF k = h THEN 0 ELSE handles[k]
<1>1. 0 \in 0 .. LibusbCount
  BY UsbConstants
<1> QED
  BY <1>1, ExceptSeq DEF UsbHolds

LEMMA UsbHandles ==
    ASSUME UsbHolds, UsbAt, UsbTyped
    PROVE  /\ Len(handles) \in Nat
           /\ good_open => handle \in 1 .. Len(handles) /\ path \in Libusb!Paths
           /\ pc = "strings" => Len(handles) \in 1 .. Len(handles)
<1>1. Len(handles) \in Nat
  BY LenProperties DEF UsbHolds
<1> QED
  BY <1>1 DEF UsbHolds, UsbAt

LEMMA UsbHoldsKept ==
    ASSUME UsbTyped, UsbAt, UsbHolds, UsbListed, Libusb!Next
    PROVE  UsbHolds'
<1>1. /\ Len(handles) \in Nat
      /\ good_open => handle \in 1 .. Len(handles) /\ path \in Libusb!Paths
      /\ pc = "strings" => Len(handles) \in 1 .. Len(handles)
  BY UsbHandles
<1>2. ASSUME UNCHANGED <<handles, handle, threads, claims>>, pc' # "strings"
      PROVE  UsbHolds'
  BY <1>2 DEF UsbHolds
<1>3. ASSUME NEW e \in Libusb!Devices, handles' = Append(handles, e), UNCHANGED <<threads, claims>>,
             handle' \in {handle, Len(handles')}
      PROVE  UsbHolds'
  <2>1. /\ handles' \in Seq(0 .. LibusbCount) /\ Len(handles') = Len(handles) + 1
    BY <1>3, UsbAppends
  <2>2. /\ handle' \in 0 .. Len(handles') /\ threads' \subseteq 1 .. Len(handles')
        /\ Len(handles') > 0
    BY <1>1, <1>3, <2>1 DEF UsbHolds
  <2>3. {-1} \cup 0 .. Len(handles) \subseteq {-1} \cup 0 .. Len(handles')
    BY <1>1, <2>1
  <2>4. claims' \in [Libusb!Paths -> {-1} \cup 0 .. Len(handles')]
    BY <1>3, <2>3 DEF UsbHolds
  <2> QED
    BY <2>1, <2>2, <2>4 DEF UsbHolds
<1>4. ASSUME NEW h \in 1 .. Len(handles), handles' = [handles EXCEPT ![h] = 0],
             UNCHANGED handle, threads' \subseteq threads, pc' # "strings",
             claims' \in [Libusb!Paths -> {-1} \cup 0 .. Len(handles)]
      PROVE  UsbHolds'
  <2>1. handles' \in Seq(0 .. LibusbCount) /\ Len(handles') = Len(handles)
    BY <1>4, UsbCloses
  <2> QED
    BY <1>4, <2>1 DEF UsbHolds
<1>5. CASE Libusb!Query
  <2>1. d \in Libusb!Devices
    BY <1>5 DEF Libusb!Query, UsbAt
  <2>2. CASE Libusb!LibusbOpens(d)
    BY <1>3, <1>5, <2>1, <2>2 DEF Libusb!Query, Libusb!Opened, Libusb!device
  <2>3. CASE ~Libusb!LibusbOpens(d)
    BY <1>2, <1>5, <2>3 DEF Libusb!Query, Libusb!device
  <2> QED
    BY <2>2, <2>3
<1>6. CASE Libusb!ReadStrings
  BY <1>1, <1>4, <1>6 DEF Libusb!ReadStrings, Libusb!Closed, Libusb!device, UsbHolds
<1>7. CASE Libusb!Find
  <2>1. CASE pc' = "find"
    BY <1>2, <1>7, <2>1, UsbFinds
  <2>2. CASE pc' # "find"
    BY <1>3, <1>7, <2>2, UsbFinds
  <2> QED
    BY <2>1, <2>2
<1>8. CASE Libusb!Detach \/ Libusb!Claim
  <2>1. handle \in 1 .. Len(handles) /\ path \in Libusb!Paths
    BY <1>1, <1>8, UsbClaims DEF UsbAt, UsbOpening
  <2>2. CASE UsbGivesUp
    BY <1>4, <1>8, <2>1, <2>2, UsbClaims DEF UsbGivesUp, UsbHolds
  <2>3. CASE ~UsbGivesUp
    <3>1. UNCHANGED <<handles, handle, threads>> /\ pc' # "strings"
      BY <1>8, <2>3, UsbClaims
    <3>2. claims' = claims \/ claims' = [claims EXCEPT ![path] = handle]
      BY <1>8, <2>3, UsbClaims
    <3> QED
      BY <2>1, <3>1, <3>2 DEF UsbHolds
  <2> QED
    BY <2>2, <2>3
<1>9. CASE Libusb!StartThread
  <2>1. handle \in 1 .. Len(handles)
    BY <1>1, <1>9 DEF Libusb!StartThread, UsbAt, UsbOpening
  <2> QED
    BY <1>9, <2>1 DEF Libusb!StartThread, Libusb!device, UsbHolds
<1>10. CASE Libusb!Close
  <2>1. handle \in 1 .. Len(handles)
    BY <1>1, <1>10 DEF Libusb!Close, UsbAt
  <2>2. claims' \in [Libusb!Paths -> {-1} \cup 0 .. Len(handles)]
    BY <1>1, <1>10 DEF Libusb!Close, Libusb!Released, UsbHolds
  <2> QED
    BY <1>4, <1>10, <2>1, <2>2 DEF Libusb!Close, Libusb!Closed, Libusb!device
<1>11. CASE Libusb!Enumerate
  BY <1>2, <1>11, UsbEnumerates
<1>12. CASE Libusb!Choose
  <2>1. pc' \in {"free", "find"}
    BY <1>12, UsbChooses
  <2> QED
    BY <1>2, <1>12, <2>1 DEF Libusb!Choose, Libusb!usb, Libusb!device
<1>13. CASE Libusb!EndEnumerate \/ Libusb!EndFind \/ Libusb!FreeEnumeration
  BY <1>2, <1>13 DEF Libusb!EndEnumerate, Libusb!EndFind, Libusb!FreeEnumeration, Libusb!usb,
     Libusb!device
<1>14. ASSUME NEW number \in {0, 1}, NEW length \in {1, 3}, Libusb!Send(number, length)
       PROVE  UsbHolds'
  BY <1>2, <1>14 DEF Libusb!Send, Libusb!usb
<1>15. ASSUME NEW e \in Libusb!Devices, Libusb!Unplug(e) PROVE UsbHolds'
  BY <1>15 DEF Libusb!Unplug, Libusb!usb, Libusb!device, UsbHolds
<1> QED
  BY <1>5, <1>6, <1>7, <1>8, <1>9, <1>10, <1>11, <1>12, <1>13, <1>14, <1>15 DEF Libusb!Next

LEMMA UsbListedKept ==
    ASSUME UsbTyped, UsbAt, UsbListed, Libusb!Next
    PROVE  UsbListed'
<1> DEFINE Chosen == path # Libusb!NoPath =>
             /\ path[1] \in Libusb!Devices
             /\ kind[path[1]].vendor = wanted.vendor
             /\ wanted.serial \in {0, kind[path[1]].serial}
<1>1. ASSUME UNCHANGED <<kind, wanted, list, path>>, pc' \notin {"query", "strings"}
      PROVE  UsbListed'
  BY <1>1 DEF UsbListed, UsbTrue
<1>2. CASE Libusb!Enumerate
  <2>1. CASE pc' = "enum"
    BY <1>1, <1>2, <2>1, UsbEnumerates
  <2>2. CASE pc' # "enum"
    <3>1. PICK x : x = [path |-> Libusb!Here, vendor |-> kind[d].vendor, serial |-> 0]
      OBVIOUS
    <3>2. /\ list' = Append(list, x) /\ Libusb!Here' = Libusb!Here /\ a <= Len(UsbAlts)
          /\ d \in Libusb!Devices /\ UNCHANGED <<kind, wanted, path>>
      BY <1>2, <2>2, <3>1, UsbEnumerates
    <3>3. Libusb!Here \in Libusb!Paths /\ Libusb!Here[1] = d
      BY <3>2, UsbAltsFacts
    <3>4. kind[d].vendor \in Nat
      BY <3>2, UsbConstants DEF UsbTyped
    <3>5. x \in UsbEntry /\ UsbTrue(x) /\ x.path = Libusb!Here
      BY <3>1, <3>2, <3>3, <3>4 DEF UsbEntry, UsbTrue
    <3>6. /\ list' \in Seq(UsbEntry) /\ Len(list') = Len(list) + 1 /\ Len(list) \in Nat
          /\ \A k \in 1 .. Len(list) : list'[k] = list[k]
          /\ list'[Len(list) + 1] = x
      BY <3>2, <3>5, AppendProperties, LenProperties DEF UsbListed
    <3>7. \A k \in 1 .. Len(list') : UsbTrue(list'[k])
      <4>1. \A k \in 1 .. Len(list') : k \in 1 .. Len(list) \/ k = Len(list) + 1
        BY <3>6
      <4> QED
        BY <3>5, <3>6, <4>1 DEF UsbListed
    <3>8. \A y : UsbTrue(y)' <=> UsbTrue(y)
      BY <3>2 DEF UsbTrue
    <3>9. Len(list') > 0 /\ list'[Len(list')].path = Libusb!Here'
      BY <3>2, <3>5, <3>6
    <3> QED
      BY <3>2, <3>6, <3>7, <3>8, <3>9 DEF UsbListed, UsbTrue
  <2> QED
    BY <2>1, <2>2
<1>3. CASE Libusb!ReadStrings
  <2>1. PICK v : v = IF d \in plugged THEN kind[d].serial ELSE 0
    OBVIOUS
  <2>2. /\ list' = [list EXCEPT ![Len(list)].serial = v] /\ pc = "strings" /\ pc' = "enum"
        /\ UNCHANGED <<kind, wanted, path>> /\ d \in Libusb!Devices
    BY <1>3, <2>1 DEF Libusb!ReadStrings, Libusb!given, UsbAt
  <2>3. v \in Nat /\ v \in {0, kind[d].serial}
    BY <2>1, <2>2, UsbConstants DEF UsbTyped
  <2>4. /\ Len(list) \in 1 .. Len(list) /\ list[Len(list)].path = Libusb!Here
        /\ Libusb!Here[1] = d /\ list \in Seq(UsbEntry)
    BY <2>2, UsbListFacts, UsbAltsFacts DEF UsbListed
  <2>5. PICK x : x = [list[Len(list)] EXCEPT !.serial = v]
    OBVIOUS
  <2>6. list[Len(list)] \in UsbEntry /\ UsbTrue(list[Len(list)])
    BY <2>4, UsbListFacts DEF UsbListed
  <2>7. /\ x \in UsbEntry /\ x.path = list[Len(list)].path
        /\ x.vendor = list[Len(list)].vendor /\ x.serial = v
    BY <2>3, <2>5, <2>6 DEF UsbEntry
  <2>8. UsbTrue(x)
    BY <2>3, <2>4, <2>6, <2>7 DEF UsbTrue
  <2>9. list' = [list EXCEPT ![Len(list)] = x]
    BY <2>2, <2>5
  <2>10. /\ list' \in Seq(UsbEntry) /\ Len(list') = Len(list)
         /\ \A k \in 1 .. Len(list) : list'[k] = IF k = Len(list) THEN x ELSE list[k]
    BY <2>4, <2>7, <2>9, ExceptSeq
  <2>11. \A k \in 1 .. Len(list') : UsbTrue(list'[k])
    BY <2>8, <2>10 DEF UsbListed
  <2> QED
    BY <2>2, <2>10, <2>11 DEF UsbListed, UsbTrue
<1>4. CASE Libusb!Query
  <2>1. pc = "query" /\ UNCHANGED <<kind, wanted, list, path>> /\ d \in Libusb!Devices
    BY <1>4 DEF Libusb!Query, Libusb!given, UsbAt
  <2>2. CASE pc' = "strings"
    <3>1. UNCHANGED <<d, a>>
      BY <1>4, <2>1, <2>2 DEF Libusb!Query
    <3> QED
      BY <2>1, <2>2, <3>1, UsbMoves DEF UsbListed, UsbTrue
  <2>3. CASE pc' # "strings"
    BY <1>1, <1>4, <2>1, <2>3 DEF Libusb!Query
  <2> QED
    BY <2>2, <2>3
<1>5. CASE Libusb!Choose
  <2>1. UNCHANGED <<kind, wanted, list>> /\ pc' \notin {"query", "strings"}
    BY <1>5, UsbChooses
  <2>2. CASE path' = path
    BY <1>1, <2>1, <2>2
  <2>3. ASSUME NEW k \in 1 .. Len(list), path' = list[k].path, Libusb!Matches(list[k])
        PROVE  UsbListed'
    <3>1. UsbTrue(list[k])
      BY DEF UsbListed
    <3>2. Chosen'
      BY <2>1, <2>3, <3>1 DEF UsbTrue, Libusb!Matches
    <3> QED
      BY <2>1, <3>2 DEF UsbListed, UsbTrue
  <2> QED
    BY <1>5, <2>2, <2>3, UsbChooses
<1>6. CASE Libusb!FreeEnumeration
  <2>1. list' = <<>> /\ UNCHANGED <<kind, wanted, path>> /\ pc' \in {"open", "failed"}
    BY <1>6 DEF Libusb!FreeEnumeration, Libusb!given
  <2>2. list' \in Seq(UsbEntry) /\ Len(list') = 0
    BY <2>1, EmptySeq
  <2> QED
    BY <2>1, <2>2 DEF UsbListed
<1>7. CASE Libusb!Find
  BY <1>1, <1>7, UsbFinds
<1>8. CASE Libusb!Detach \/ Libusb!Claim
  <2>1. pc' \notin {"query", "strings"}
    BY <1>8, UsbClaims DEF UsbGivesUp
  <2> QED
    BY <1>1, <1>8, <2>1, UsbClaims
<1>9. CASE Libusb!EndEnumerate \/ Libusb!EndFind \/ Libusb!StartThread \/ Libusb!Close
  BY <1>1, <1>9 DEF Libusb!EndEnumerate, Libusb!EndFind, Libusb!StartThread, Libusb!Close,
     Libusb!given
<1>10. ASSUME NEW number \in {0, 1}, NEW length \in {1, 3}, Libusb!Send(number, length)
       PROVE  UsbListed'
  BY <1>1, <1>10 DEF Libusb!Send, Libusb!given
<1>11. ASSUME NEW e \in Libusb!Devices, Libusb!Unplug(e) PROVE UsbListed'
  <2>1. UNCHANGED <<kind, wanted, list, path, pc, d, a>>
    BY <1>11 DEF Libusb!Unplug
  <2> QED
    BY <2>1, UsbMoves DEF UsbListed, UsbTrue
<1> QED
  BY <1>2, <1>3, <1>4, <1>5, <1>6, <1>7, <1>8, <1>9, <1>10, <1>11 DEF Libusb!Next

-----------------------------------------------------------------------------
(* What an open device holds, if no interface of a device has two          *)
(* altsettings of class HID: hid_open_path, which does not stop when it    *)
(* has opened one, would open the other too.                               *)
OneSetting ==
    \A u \in LibusbKinds : \A b, c \in DOMAIN u.alts :
        u.alts[b].hid /\ u.alts[c].hid /\ u.alts[b].interface = u.alts[c].interface => b = c

UsbOpen == IF good_open /\ pc # "closed" THEN {handle}
           ELSE IF pc = "strings" THEN {Len(handles)} ELSE {}
UsbRuns == good_open /\ pc \in {"find", "free", "open"}
UsbClaimed == good_open /\ pc \in {"thread", "find", "free", "open"}

(* Behind the altsetting that was opened.                                  *)
UsbPast ==
    \A b \in DOMAIN Libusb!Alts(path[1]) :
        Libusb!Alts(path[1])[b].hid /\ Libusb!Alts(path[1])[b].interface = path[2] =>
            d > path[1] \/ (d = path[1] /\ a > b)

UsbOwns ==
    /\ \A h \in 1 .. Len(handles) : handles[h] # 0 <=> h \in UsbOpen
    /\ good_open /\ pc # "closed" => handles[handle] = path[1]
    /\ threads = IF UsbRuns THEN {handle} ELSE {}
    /\ \A p \in Libusb!Paths :
          IF UsbClaimed /\ p = path THEN claims[p] = handle ELSE claims[p] \in {0, -1}
    /\ UsbClaimed \/ pc = "claim" => path \notin driver
    /\ good_open /\ pc = "find" => UsbPast

LEMMA UsbPathOf ==
    ASSUME UsbTyped, d \in Libusb!Devices, a <= Len(UsbAlts), Libusb!Here = path
    PROVE  /\ path[1] = d /\ Libusb!Alts(path[1]) = UsbAlts /\ path[2] = UsbAlts[a].interface
           /\ a \in DOMAIN UsbAlts
BY UsbAltsFacts DEF Libusb!Here, UsbAlts, UsbTyped

(* A step that moves on keeps what is behind.                              *)
LEMMA UsbPastKept ==
    ASSUME UsbTyped, UsbPast, UNCHANGED <<kind, path>>, path[1] \in Nat,
           d' \in Nat, a' \in Nat,
           d' > d \/ (d' = d /\ a' >= a)
    PROVE  UsbPast'
<1>1. d \in Nat /\ a \in Nat
  BY UsbConstants DEF UsbTyped
<1>2. Libusb!Alts(path[1])' = Libusb!Alts(path[1])
  BY DEF Libusb!Alts
<1>3. \A b \in DOMAIN Libusb!Alts(path[1]) : b \in Nat
  <2>1. CASE path[1] \in Libusb!Devices
    <3>1. kind[path[1]] \in LibusbKinds /\ Libusb!Alts(path[1]) = kind[path[1]].alts
      BY <2>1 DEF UsbTyped, Libusb!Alts
    <3> QED
      BY <3>1, UsbConstants
  <2>2. CASE path[1] \notin Libusb!Devices
    BY <2>2, EmptySeq, LenProperties DEF Libusb!Alts
  <2> QED
    BY <2>1, <2>2
<1> SUFFICES ASSUME NEW b \in DOMAIN Libusb!Alts(path[1]),
                    Libusb!Alts(path[1])[b].hid, Libusb!Alts(path[1])[b].interface = path[2]
             PROVE  d' > path[1] \/ (d' = path[1] /\ a' > b)
  BY <1>2 DEF UsbPast
<1>4. d > path[1] \/ (d = path[1] /\ a > b)
  BY DEF UsbPast
<1> QED
  BY <1>1, <1>3, <1>4

LEMMA UsbOwnsKept ==
    ASSUME OneSetting, UsbTyped, UsbAt, UsbHolds, UsbListed, UsbOwns, Libusb!Next
    PROVE  UsbOwns'
<1>1. /\ Len(handles) \in Nat
      /\ good_open => handle \in 1 .. Len(handles) /\ path \in Libusb!Paths
      /\ pc = "strings" => Len(handles) \in 1 .. Len(handles)
  BY UsbHandles
<1>2. path \in Libusb!Paths => path[1] \in Nat
  BY UsbConstants DEF Libusb!Paths, Libusb!Devices
<1>3. ASSUME UNCHANGED <<handles, handle, threads, claims, driver, good_open, path>>,
             UsbOpen' = UsbOpen, UsbRuns' <=> UsbRuns, UsbClaimed' <=> UsbClaimed,
             pc' = "claim" => pc = "claim", pc # "closed",
             good_open /\ pc' = "find" => UsbPast'
      PROVE  UsbOwns'
  <2>1. \A h \in 1 .. Len(handles') : handles'[h] # 0 <=> h \in UsbOpen'
    BY <1>3 DEF UsbOwns
  <2>2. threads' = IF UsbRuns' THEN {handle'} ELSE {}
    BY <1>3 DEF UsbOwns
  <2>3. \A p \in Libusb!Paths :
           IF UsbClaimed' /\ p = path' THEN claims'[p] = handle' ELSE claims'[p] \in {0, -1}
    BY <1>3 DEF UsbOwns
  <2>4. UsbClaimed' \/ pc' = "claim" => path' \notin driver'
    BY <1>3 DEF UsbOwns
  <2>5. good_open' /\ pc' # "closed" => handles'[handle'] = path'[1]
    BY <1>3 DEF UsbOwns
  <2> QED
    BY <1>3, <2>1, <2>2, <2>3, <2>4, <2>5 DEF UsbOwns
<1>4. CASE Libusb!Enumerate
  <2>1. /\ UNCHANGED <<handles, handle, threads, claims, driver, good_open, path>>
        /\ pc = "enum" /\ pc' \in {"enum", "query"} /\ ~good_open
    BY <1>4, UsbEnumerates DEF UsbAt, UsbListing
  <2> QED
    BY <1>3, <2>1 DEF UsbOpen, UsbRuns, UsbClaimed
<1>5. CASE Libusb!Query
  <2>1. /\ UNCHANGED <<handle, threads, claims, driver, good_open, path>>
        /\ pc = "query" /\ ~good_open /\ d \in Libusb!Devices
    BY <1>5 DEF Libusb!Query, Libusb!given, Libusb!device, UsbAt, UsbListing
  <2>2. CASE Libusb!LibusbOpens(d)
    <3>1. handles' = Append(handles, d) /\ pc' = "strings"
      BY <1>5, <2>2 DEF Libusb!Query, Libusb!Opened
    <3>2. /\ Len(handles') = Len(handles) + 1
          /\ \A h \in 1 .. Len(handles) : handles'[h] = handles[h]
          /\ handles'[Len(handles) + 1] = d
      BY <2>1, <3>1, UsbAppends
    <3>3. d # 0 /\ \A h \in 1 .. Len(handles) : handles[h] = 0
      BY <2>1, UsbConstants DEF Libusb!Devices, UsbOwns, UsbOpen
    <3>4. \A h \in 1 .. Len(handles') : h \in 1 .. Len(handles) \/ h = Len(handles')
      BY <1>1, <3>2
    <3>5. \A h \in 1 .. Len(handles) : h # Len(handles')
      BY <1>1, <3>2
    <3>6. \A h \in 1 .. Len(handles') : handles'[h] # 0 <=> h \in {Len(handles')}
      BY <3>2, <3>3, <3>4, <3>5
    <3> QED
      BY <2>1, <3>1, <3>6 DEF UsbOwns, UsbOpen, UsbRuns, UsbClaimed
  <2>3. CASE ~Libusb!LibusbOpens(d)
    <3>1. UNCHANGED handles /\ pc' = "enum"
      BY <1>5, <2>3 DEF Libusb!Query
    <3> QED
      BY <1>3, <2>1, <3>1 DEF UsbOpen, UsbRuns, UsbClaimed
  <2> QED
    BY <2>2, <2>3
<1>6. CASE Libusb!ReadStrings
  <2>1. /\ UNCHANGED <<handle, threads, claims, driver, good_open, path>>
        /\ pc = "strings" /\ ~good_open /\ pc' = "enum"
        /\ handles' = [handles EXCEPT ![Len(handles)] = 0]
    BY <1>6 DEF Libusb!ReadStrings, Libusb!given, Libusb!device, Libusb!Closed, UsbAt, UsbListing
  <2>2. /\ Len(handles') = Len(handles)
        /\ \A h \in 1 .. Len(handles) : handles'[h] = IF h = Len(handles) THEN 0 ELSE handles[h]
    BY <1>1, <2>1, UsbCloses
  <2>3. \A h \in 1 .. Len(handles') : handles'[h] = 0
    BY <2>1, <2>2 DEF UsbOwns, UsbOpen
  <2> QED
    BY <2>1, <2>3 DEF UsbOwns, UsbOpen, UsbRuns, UsbClaimed
<1>7. CASE Libusb!Choose
  <2>1. /\ UNCHANGED <<handles, handle, threads, claims, driver, good_open>>
        /\ pc = "choose" /\ pc' \in {"find", "free"} /\ ~good_open
    BY <1>7, UsbChooses DEF UsbAt, UsbListing
  <2> QED
    BY <2>1 DEF UsbOwns, UsbOpen, UsbRuns, UsbClaimed
<1>8. CASE Libusb!Find
  <2>1. /\ UNCHANGED <<kind, threads, claims, driver, path>> /\ pc = "find"
        /\ d' \in Nat /\ a' \in Nat /\ d \in Libusb!Devices
    BY <1>8, UsbFinds, UsbConstants
  <2>2. CASE pc' = "find"
    <3>1. UNCHANGED <<handles, handle, good_open>> /\ (d' > d \/ (d' = d /\ a' >= a))
      BY <1>8, <2>1, <2>2, UsbFinds, UsbConstants DEF UsbTyped
    <3>2. good_open => UsbPast'
      <4>1. ASSUME good_open PROVE UsbPast
        BY <2>1, <4>1 DEF UsbOwns
      <4> QED
        BY <1>1, <1>2, <2>1, <3>1, <4>1, UsbPastKept
    <3> QED
      BY <1>3, <2>1, <2>2, <3>1, <3>2 DEF UsbOpen, UsbRuns, UsbClaimed
  <2>3. CASE pc' # "find"
    <3>1. /\ pc' = "detach" /\ d' = d /\ a' = a
          /\ a <= Len(UsbAlts) /\ UsbAlts[a].hid /\ Libusb!Here = path
          /\ handles' = Append(handles, d) /\ handle' = Len(handles')
          /\ good_open' = TRUE
      BY <1>8, <2>3, UsbFinds
    <3>2. ~good_open
      <4>1. /\ path[1] = d /\ Libusb!Alts(path[1]) = UsbAlts /\ path[2] = UsbAlts[a].interface
            /\ a \in DOMAIN UsbAlts
        BY <2>1, <3>1, UsbPathOf
      <4>2. d \in Nat /\ a \in Nat
        BY UsbConstants DEF UsbTyped
      <4>3. ~UsbPast
        BY <3>1, <4>1, <4>2 DEF UsbPast
      <4> QED
        BY <2>1, <4>3 DEF UsbOwns
    <3>3. path[1] = d
      BY <2>1, <3>1, UsbPathOf
    <3>4. /\ Len(handles') = Len(handles) + 1
          /\ \A h \in 1 .. Len(handles) : handles'[h] = handles[h]
          /\ handles'[Len(handles) + 1] = d
      BY <2>1, <3>1, UsbAppends
    <3>5. d # 0 /\ \A h \in 1 .. Len(handles) : handles[h] = 0
      BY <2>1, <3>2, UsbConstants DEF Libusb!Devices, UsbOwns, UsbOpen
    <3>6. \A h \in 1 .. Len(handles') : h \in 1 .. Len(handles) \/ h = Len(handles')
      BY <1>1, <3>4
    <3>7. \A h \in 1 .. Len(handles) : h # Len(handles')
      BY <1>1, <3>4
    <3>8. \A h \in 1 .. Len(handles') : handles'[h] # 0 <=> h \in {handle'}
      BY <3>1, <3>4, <3>5, <3>6, <3>7
    <3>9. handles'[handle'] = path'[1]
      BY <2>1, <3>1, <3>3, <3>4
    <3> QED
      BY <2>1, <3>1, <3>2, <3>8, <3>9 DEF UsbOwns, UsbOpen, UsbRuns, UsbClaimed
  <2> QED
    BY <2>2, <2>3
<1>9. CASE Libusb!Detach \/ Libusb!Claim
  <2>1. /\ UNCHANGED <<threads, path, handle>> /\ pc \in {"detach", "claim"} /\ good_open
        /\ handle \in 1 .. Len(handles) /\ path \in Libusb!Paths
    BY <1>1, <1>9, UsbClaims DEF UsbAt, UsbOpening
  <2>2. CASE UsbGivesUp
    <3>1. /\ handles' = [handles EXCEPT ![handle] = 0] /\ good_open' = FALSE /\ pc' = "find"
          /\ UNCHANGED <<driver, claims>>
      BY <1>9, <2>2, UsbClaims DEF UsbGivesUp
    <3>2. /\ Len(handles') = Len(handles)
          /\ \A h \in 1 .. Len(handles) : handles'[h] = IF h = handle THEN 0 ELSE handles[h]
      BY <2>1, <3>1, UsbCloses
    <3>3. \A h \in 1 .. Len(handles') : handles'[h] = 0
      BY <2>1, <3>2 DEF UsbOwns, UsbOpen
    <3>4. threads = {} /\ \A p \in Libusb!Paths : claims[p] \in {0, -1}
      BY <2>1 DEF UsbOwns, UsbRuns, UsbClaimed
    <3> QED
      BY <2>1, <3>1, <3>3, <3>4 DEF UsbOwns, UsbOpen, UsbRuns, UsbClaimed
  <2>3. CASE pc = "detach" /\ ~UsbGivesUp
    <3>1. /\ UNCHANGED <<handles, good_open, claims>> /\ pc' = "claim"
          /\ driver' = driver \ {path}
      BY <1>9, <2>3, UsbClaims
    <3> QED
      BY <2>1, <2>3, <3>1 DEF UsbOwns, UsbOpen, UsbRuns, UsbClaimed
  <2>4. CASE pc = "claim" /\ ~UsbGivesUp
    <3>1. /\ UNCHANGED <<handles, good_open, driver>> /\ pc' = "thread"
          /\ claims[path] = 0 /\ claims' = [claims EXCEPT ![path] = handle]
      BY <1>9, <2>4, UsbClaims
    <3>2. \A p \in Libusb!Paths : claims'[p] = IF p = path THEN handle ELSE claims[p]
      BY <3>1 DEF UsbHolds
    <3> QED
      BY <2>1, <2>4, <3>1, <3>2 DEF UsbOwns, UsbOpen, UsbRuns, UsbClaimed
  <2> QED
    BY <2>1, <2>2, <2>3, <2>4
<1>10. CASE Libusb!StartThread
  <2>1. /\ UNCHANGED <<kind, driver, claims, handles, path, handle, good_open>>
        /\ pc = "thread" /\ good_open /\ threads' = threads \cup {handle} /\ pc' = "find"
        /\ Libusb!NextAlt /\ d \in Libusb!Devices /\ a <= Len(UsbAlts) /\ UsbAlts[a].hid
        /\ Libusb!Here = path
    BY <1>10 DEF Libusb!StartThread, Libusb!given, Libusb!device, UsbAt, UsbOpening
  <2>2. /\ path[1] = d /\ Libusb!Alts(path[1]) = UsbAlts /\ path[2] = UsbAlts[a].interface
        /\ a \in DOMAIN UsbAlts
    BY <2>1, UsbPathOf
  <2>3. UsbAlts = kind[d].alts /\ kind[d] \in LibusbKinds /\ a \in Nat
    BY <2>1, UsbAltsFacts DEF UsbTyped
  <2>4. \A b \in DOMAIN UsbAlts : UsbAlts[b].hid /\ UsbAlts[b].interface = path[2] => b = a
    BY <2>1, <2>2, <2>3 DEF OneSetting
  <2>5. UsbPast'
    <3>1. Libusb!Alts(path[1])' = Libusb!Alts(path[1]) /\ d' = d /\ a' = a + 1
      BY <2>1 DEF Libusb!Alts, Libusb!NextAlt
    <3> QED
      BY <2>1, <2>2, <2>3, <2>4, <3>1 DEF UsbPast
  <2> QED
    BY <2>1, <2>5 DEF UsbOwns, UsbOpen, UsbRuns, UsbClaimed
<1>11. CASE Libusb!Close
  <2>1. /\ UNCHANGED <<driver, path, handle, good_open>> /\ pc = "open" /\ pc' = "closed"
        /\ good_open /\ threads' = threads \ {handle} /\ claims' = Libusb!Released(handle)
        /\ handles' = [handles EXCEPT ![handle] = 0] /\ handle \in 1 .. Len(handles)
    BY <1>1, <1>11 DEF Libusb!Close, Libusb!Closed, Libusb!device, UsbAt
  <2>2. /\ Len(handles') = Len(handles)
        /\ \A h \in 1 .. Len(handles) : handles'[h] = IF h = handle THEN 0 ELSE handles[h]
    BY <2>1, UsbCloses
  <2>3. \A h \in 1 .. Len(handles') : handles'[h] = 0
    BY <2>1, <2>2 DEF UsbOwns, UsbOpen
  <2>4. \A p \in Libusb!Paths : claims'[p] \in {0, -1}
    BY <2>1 DEF Libusb!Released, UsbOwns, UsbClaimed
  <2>5. threads' = {}
    BY <2>1 DEF UsbOwns, UsbRuns
  <2> QED
    BY <2>1, <2>3, <2>4, <2>5 DEF UsbOwns, UsbOpen, UsbRuns, UsbClaimed
<1>12. CASE Libusb!EndEnumerate \/ Libusb!EndFind \/ Libusb!FreeEnumeration
  <2>1. /\ UNCHANGED <<handles, handle, threads, claims, driver, good_open, path>>
        /\ \/ pc = "enum" /\ pc' = "choose"
           \/ pc = "find" /\ pc' = "free"
           \/ pc = "free" /\ pc' = IF good_open THEN "open" ELSE "failed"
    BY <1>12 DEF Libusb!EndEnumerate, Libusb!EndFind, Libusb!FreeEnumeration, Libusb!usb,
       Libusb!device
  <2>2. pc = "enum" => ~good_open
    BY DEF UsbAt, UsbListing
  <2> QED
    BY <1>3, <2>1, <2>2 DEF UsbOpen, UsbRuns, UsbClaimed
<1>13. ASSUME NEW number \in {0, 1}, NEW length \in {1, 3}, Libusb!Send(number, length)
       PROVE  UsbOwns'
  <2>1. UNCHANGED <<handles, handle, threads, claims, driver, good_open, path, pc>> /\ pc = "open"
    BY <1>13 DEF Libusb!Send, Libusb!usb
  <2> QED
    BY <1>3, <2>1 DEF UsbOpen, UsbRuns, UsbClaimed
<1>14. ASSUME NEW e \in Libusb!Devices, Libusb!Unplug(e) PROVE UsbOwns'
  <2>1. /\ UNCHANGED <<handles, handle, threads, claims, driver, good_open, path, pc>>
        /\ UNCHANGED <<kind, d, a>> /\ pc # "closed"
    BY <1>14 DEF Libusb!Unplug, Libusb!usb, Libusb!device
  <2>2. good_open /\ pc = "find" => UsbPast'
    BY <2>1 DEF UsbOwns, UsbPast, Libusb!Alts
  <2> QED
    BY <1>3, <2>1, <2>2 DEF UsbOpen, UsbRuns, UsbClaimed
<1> QED
  BY <1>4, <1>5, <1>6, <1>7, <1>8, <1>9, <1>10, <1>11, <1>12, <1>13, <1>14 DEF Libusb!Next

-----------------------------------------------------------------------------
(* The list has an entry for each altsetting of class HID passed.          *)
UsbMade(e) == {k \in 1 .. Len(list) : list[k].path[1] = e}
UsbSeen(e, n) == {b \in DOMAIN Libusb!Alts(e) : Libusb!Alts(e)[b].hid /\ b < n}
UsbUpTo == IF pc = "enum" THEN a ELSE a + 1
UsbWanted(e) == kind[e].config # "none" /\ wanted.vendor \in {0, kind[e].vendor}

UsbCounted ==
    pc \in UsbListing \cup {"choose"} =>
        /\ \A k \in 1 .. Len(list) : list[k].path[1] <= d
        /\ \A k \in 1 .. Len(list), m \in 1 .. Len(list) :
              m < k => list[m].path[1] <= list[k].path[1]
        /\ pc \in {"query", "strings"} => UsbWanted(d)
        /\ \A e \in Libusb!Devices :
              /\ e < d => Cardinality(UsbMade(e)) = Libusb!EntriesOf(e)
              /\ e > d => UsbMade(e) = {}
              /\ e = d => \A n \in {UsbUpTo} :
                    Cardinality(UsbMade(e)) = IF UsbWanted(e) THEN Cardinality(UsbSeen(e, n)) ELSE 0

LEMMA UsbCardinality == \A S : Libusb!Cardinality(S) = Cardinality(S)
BY DEF Libusb!Cardinality, Cardinality

LEMMA UsbFinite ==
    ASSUME UsbTyped, UsbListed, NEW e \in Libusb!Devices, NEW n
    PROVE  /\ IsFiniteSet(UsbMade(e)) /\ IsFiniteSet(UsbSeen(e, n))
           /\ Len(list) + 1 \notin UsbMade(e) /\ n \notin UsbSeen(e, n)
           /\ DOMAIN Libusb!Alts(e) = 1 .. Len(Libusb!Alts(e)) /\ Len(Libusb!Alts(e)) \in Nat
<1>1. Len(list) \in Nat
  BY UsbListFacts
<1>2. kind[e] \in LibusbKinds /\ Libusb!Alts(e) = kind[e].alts
  BY DEF UsbTyped, Libusb!Alts
<1>3. DOMAIN Libusb!Alts(e) = 1 .. Len(Libusb!Alts(e)) /\ Len(Libusb!Alts(e)) \in Nat
  BY <1>2, UsbConstants
<1>4. IsFiniteSet(1 .. Len(list)) /\ IsFiniteSet(1 .. Len(Libusb!Alts(e)))
  BY <1>1, <1>3, FS_Interval
<1>5. UsbMade(e) \subseteq 1 .. Len(list) /\ UsbSeen(e, n) \subseteq 1 .. Len(Libusb!Alts(e))
  BY <1>3 DEF UsbMade, UsbSeen
<1>6. Len(list) + 1 \notin UsbMade(e)
  BY <1>1 DEF UsbMade
<1>7. n \notin UsbSeen(e, n)
  <2> SUFFICES ASSUME n \in UsbSeen(e, n) PROVE FALSE
    OBVIOUS
  <2>1. n \in Nat /\ n < n
    BY <1>3 DEF UsbSeen
  <2> QED
    BY <2>1
<1> QED
  BY <1>3, <1>4, <1>5, <1>6, <1>7, FS_Subset

LEMMA UsbCountedSame ==
    ASSUME UNCHANGED <<kind, wanted>>
    PROVE  \A e, n : /\ UsbWanted(e)' = UsbWanted(e) /\ UsbSeen(e, n)' = UsbSeen(e, n')
                     /\ Libusb!EntriesOf(e)' = Libusb!EntriesOf(e)
<1>1. \A e : Libusb!Alts(e)' = Libusb!Alts(e)
  BY DEF Libusb!Alts
<1>2. \A S : Libusb!Cardinality(S)' = Libusb!Cardinality(S)
  BY DEF Libusb!Cardinality
<1> QED
  BY <1>1, <1>2 DEF UsbWanted, UsbSeen, Libusb!EntriesOf

(* An altsetting of class HID is passed with an entry for it, another      *)
(* without.                                                                *)
LEMMA UsbSeenNext ==
    ASSUME UsbTyped, d \in Libusb!Devices
    PROVE  /\ UsbSeen(d, 1) = {}
           /\ a <= Len(UsbAlts) /\ ~UsbAlts[a].hid => UsbSeen(d, a + 1) = UsbSeen(d, a)
           /\ a <= Len(UsbAlts) /\ UsbAlts[a].hid => UsbSeen(d, a + 1) = UsbSeen(d, a) \cup {a}
           /\ a > Len(UsbAlts) => UsbSeen(d, a) = {b \in DOMAIN UsbAlts : UsbAlts[b].hid}
<1>1. /\ Len(UsbAlts) \in Nat /\ DOMAIN UsbAlts = 1 .. Len(UsbAlts) /\ a \in Nat \ {0}
      /\ UsbAlts = Libusb!Alts(d)
  BY UsbAltsFacts DEF UsbTyped, UsbAlts
<1> DEFINE hid == {b \in 1 .. Len(UsbAlts) : UsbAlts[b].hid}
<1>2. \A n : UsbSeen(d, n) = {b \in hid : b < n}
  BY <1>1 DEF UsbSeen
<1>3. \A b \in hid : b \in Nat /\ b >= 1 /\ b <= Len(UsbAlts)
  BY <1>1
<1>4. a <= Len(UsbAlts) => (a \in hid <=> UsbAlts[a].hid)
  BY <1>1
<1> HIDE DEF hid
<1>5. {b \in hid : b < 1} = {}
  BY <1>3
<1>6. a \notin hid => {b \in hid : b < a + 1} = {b \in hid : b < a}
  BY <1>1, <1>3
<1>10. \A b \in hid : b < a + 1 <=> b < a \/ b = a
  BY <1>1, <1>3
<1>7. a \in hid => {b \in hid : b < a + 1} = {b \in hid : b < a} \cup {a}
  <2> DEFINE below == {b \in hid : b < a}
             upto == {b \in hid : b < a + 1}
  <2>1. \A b : b \in upto <=> b \in hid /\ (b < a \/ b = a)
    BY <1>10
  <2>2. \A b : b \in below <=> b \in hid /\ b < a
    OBVIOUS
  <2> HIDE DEF below, upto
  <2>3. a \in hid => upto = below \cup {a}
    BY <2>1, <2>2
  <2> QED
    BY <2>3 DEF below, upto
<1>8. a > Len(UsbAlts) => {b \in hid : b < a} = hid
  BY <1>1, <1>3
<1> QED
  BY <1>1, <1>2, <1>4, <1>5, <1>6, <1>7, <1>8 DEF hid

(* What a device without an entry, or one that is gone through, counts.    *)
LEMMA UsbEntries ==
    ASSUME UsbTyped, NEW e \in Libusb!Devices
    PROVE  /\ ~UsbWanted(e) => Libusb!EntriesOf(e) = 0
           /\ UsbWanted(e) => Libusb!EntriesOf(e)
                = Cardinality({b \in DOMAIN Libusb!Alts(e) : Libusb!Alts(e)[b].hid})
<1>1. UsbWanted(e) <=> ~(kind[e].config = "none" \/ wanted.vendor \notin {0, kind[e].vendor})
  BY DEF UsbWanted
<1>2. Libusb!EntriesOf(e) = IF UsbWanted(e)
        THEN Libusb!Cardinality({b \in DOMAIN Libusb!Alts(e) : Libusb!Alts(e)[b].hid}) ELSE 0
  BY <1>1 DEF Libusb!EntriesOf
<1> QED
  BY <1>2, UsbCardinality

LEMMA UsbCountedStays ==
    ASSUME UsbCounted, pc \in UsbListing, pc' \in UsbListing, UNCHANGED <<kind, wanted, d>>,
           Len(list') = Len(list),
           \A k \in 1 .. Len(list) : list'[k].path = list[k].path,
           pc' \in {"query", "strings"} => pc \in {"query", "strings"},
           UsbUpTo' = UsbUpTo
    PROVE  UsbCounted'
<1>1. \A e : UsbMade(e)' = UsbMade(e)
  BY DEF UsbMade
<1>2. \A e, n : /\ UsbWanted(e)' = UsbWanted(e) /\ UsbSeen(e, n)' = UsbSeen(e, n')
                /\ Libusb!EntriesOf(e)' = Libusb!EntriesOf(e)
  BY UsbCountedSame
<1>3. \A S : Cardinality(S)' = Cardinality(S)
  BY DEF Cardinality
<1>4. /\ \A k \in 1 .. Len(list') : list'[k].path[1] <= d'
      /\ \A k \in 1 .. Len(list'), m \in 1 .. Len(list') :
            m < k => list'[m].path[1] <= list'[k].path[1]
      /\ pc' \in {"query", "strings"} => UsbWanted(d)'
  BY <1>2 DEF UsbCounted
<1>5. \A e \in Libusb!Devices :
         /\ e < d' => Cardinality(UsbMade(e))' = Libusb!EntriesOf(e)'
         /\ e > d' => UsbMade(e)' = {}
         /\ e = d' => \A n \in {UsbUpTo'} :
               Cardinality(UsbMade(e))' = IF UsbWanted(e)' THEN Cardinality(UsbSeen(e, n))' ELSE 0
  BY <1>1, <1>2, <1>3 DEF UsbCounted
<1> QED
  BY <1>4, <1>5 DEF UsbCounted

(* A step of hid_enumerate to the next altsetting or the next device.      *)
LEMMA UsbCountedMoves ==
    ASSUME UsbTyped, UsbListed, UsbCounted, Libusb!Enumerate
    PROVE  UsbCounted'
<1>1. /\ pc = "enum" /\ d \in Libusb!Devices /\ UNCHANGED <<kind, wanted>>
      /\ Libusb!Alts(d) = UsbAlts /\ d \in Nat /\ a \in Nat \ {0} /\ Len(UsbAlts) \in Nat
      /\ Libusb!Devices = 1 .. LibusbCount /\ LibusbCount \in Nat
  BY UsbEnumerates, UsbConstants, UsbAltsFacts DEF UsbTyped, UsbAlts, Libusb!Devices
<1>2. \A e, n : /\ UsbWanted(e)' = UsbWanted(e) /\ UsbSeen(e, n)' = UsbSeen(e, n')
                /\ Libusb!EntriesOf(e)' = Libusb!EntriesOf(e)
  BY <1>1, UsbCountedSame
<1>3. UsbWanted(d) <=> Libusb!Enumerates(d) /\ Libusb!VendorFits(kind[d].vendor)
  BY DEF UsbWanted, Libusb!Enumerates, Libusb!VendorFits
<1>4. /\ \A k \in 1 .. Len(list) : list[k].path[1] \in Nat /\ list[k].path[1] <= d
      /\ \A k \in 1 .. Len(list), m \in 1 .. Len(list) :
            m < k => list[m].path[1] <= list[k].path[1]
      /\ \A e \in Libusb!Devices :
            /\ e < d => Cardinality(UsbMade(e)) = Libusb!EntriesOf(e)
            /\ e > d => UsbMade(e) = {}
      /\ Cardinality(UsbMade(d)) = IF UsbWanted(d) THEN Cardinality(UsbSeen(d, a)) ELSE 0
  <2>1. \A k \in 1 .. Len(list) : list[k].path[1] \in Libusb!Devices
    BY Zenon DEF UsbListed, UsbTrue
  <2>2. \A k \in 1 .. Len(list) : list[k].path[1] \in Nat
    BY <1>1, <2>1
  <2>3. pc \in UsbListing \cup {"choose"} /\ UsbUpTo = a
    BY <1>1 DEF UsbListing, UsbUpTo
  <2>4. /\ \A k \in 1 .. Len(list) : list[k].path[1] <= d
        /\ \A k \in 1 .. Len(list), m \in 1 .. Len(list) :
              m < k => list[m].path[1] <= list[k].path[1]
        /\ \A e \in Libusb!Devices :
              /\ e < d => Cardinality(UsbMade(e)) = Libusb!EntriesOf(e)
              /\ e > d => UsbMade(e) = {}
              /\ e = d => \A n \in {UsbUpTo} :
                    Cardinality(UsbMade(e)) = IF UsbWanted(e) THEN Cardinality(UsbSeen(e, n)) ELSE 0
    BY <2>3, Zenon DEF UsbCounted
  <2>5. Cardinality(UsbMade(d)) = IF UsbWanted(d) THEN Cardinality(UsbSeen(d, a)) ELSE 0
    BY <1>1, <2>3, <2>4, Zenon
  <2> QED
    BY <2>2, <2>4, <2>5, Zenon
<1>5. Cardinality({}) = 0
  BY FS_EmptySet
<1>6. CASE pc' = "enum" /\ d' = d + 1
  <2>1. list' = list /\ a' = 1 /\ (a > Len(UsbAlts) \/ ~Libusb!Enumerates(d)) /\ pc' = "enum"
    BY <1>1, <1>6, UsbEnumerates
  <2>2. \A e : UsbMade(e)' = UsbMade(e)
    BY <2>1 DEF UsbMade
  <2>3. Cardinality(UsbMade(d)) = Libusb!EntriesOf(d)
    <3>1. CASE UsbWanted(d)
      <4>1. a > Len(UsbAlts)
        BY <1>3, <2>1, <3>1
      <4> QED
        BY <1>1, <1>4, <3>1, <4>1, UsbSeenNext, UsbEntries
    <3>2. CASE ~UsbWanted(d)
      BY <1>1, <1>4, <3>2, UsbEntries
    <3> QED
      BY <3>1, <3>2
  <2>4. \A n : UsbSeen(n, 1) = {}
    <3> SUFFICES ASSUME NEW n, NEW b \in UsbSeen(n, 1) PROVE FALSE
      OBVIOUS
    <3>1. CASE n \in Libusb!Devices
      <4>1. b \in 1 .. Len(Libusb!Alts(n)) /\ b < 1 /\ Len(Libusb!Alts(n)) \in Nat
        BY <3>1, UsbFinite DEF UsbSeen
      <4> QED
        BY <4>1
    <3>2. CASE n \notin Libusb!Devices
      BY <3>2, EmptySeq DEF UsbSeen, Libusb!Alts
    <3> QED
      BY <3>1, <3>2
  <2>5. \A e \in Libusb!Devices : e \in Nat /\ (e < d' => e < d \/ e = d) /\ (e >= d' => e > d)
    BY <1>1, <1>6
  <2>6. \A e \in Libusb!Devices :
           /\ e < d' => Cardinality(UsbMade(e)') = Libusb!EntriesOf(e)'
           /\ e > d' => UsbMade(e)' = {}
           /\ e = d' => UsbMade(e)' = {} /\ UsbSeen(e, 1)' = {}
    BY <1>1, <1>2, <1>4, <1>6, <2>1, <2>2, <2>3, <2>4, <2>5
  <2>7. \A k \in 1 .. Len(list') : list'[k].path[1] <= d'
    BY <1>1, <1>4, <1>6, <2>1
  <2>8. UsbUpTo' = 1
    BY <2>1 DEF UsbUpTo
  <2>9. \A e \in Libusb!Devices : e = d' => \A n \in {UsbUpTo'} :
           Cardinality(UsbMade(e)') = IF UsbWanted(e)' THEN Cardinality(UsbSeen(e, n)') ELSE 0
    BY <1>5, <2>6, <2>8
  <2> QED
    BY <1>4, <2>1, <2>6, <2>7, <2>9 DEF UsbCounted, UsbListing
<1>7. CASE pc' = "enum" /\ d' = d
  <2>1. /\ list' = list /\ a' = a + 1 /\ a <= Len(UsbAlts) /\ Libusb!Enumerates(d)
        /\ ~(UsbAlts[a].hid /\ Libusb!VendorFits(kind[d].vendor))
    BY <1>1, <1>7, UsbEnumerates
  <2>2. \A e : UsbMade(e)' = UsbMade(e)
    BY <2>1 DEF UsbMade
  <2>3. UsbWanted(d) => UsbSeen(d, a + 1) = UsbSeen(d, a)
    BY <1>1, <1>3, <2>1, UsbSeenNext
  <2>5. UsbUpTo' = a + 1
    BY <1>7, <2>1 DEF UsbUpTo
  <2>4. \A e \in Libusb!Devices :
           /\ e < d' => Cardinality(UsbMade(e)') = Libusb!EntriesOf(e)'
           /\ e > d' => UsbMade(e)' = {}
           /\ e = d' => \A n \in {UsbUpTo'} :
                 Cardinality(UsbMade(e)') = IF UsbWanted(e)' THEN Cardinality(UsbSeen(e, n)') ELSE 0
    BY <1>2, <1>4, <1>7, <2>2, <2>3, <2>5
  <2> QED
    BY <1>4, <1>7, <2>1, <2>4 DEF UsbCounted
<1>8. CASE pc' = "query"
  <2>1. PICK x : x = [path |-> Libusb!Here, vendor |-> kind[d].vendor, serial |-> 0]
    OBVIOUS
  <2>2. /\ d' = d /\ a' = a /\ a <= Len(UsbAlts) /\ UsbAlts[a].hid /\ UsbWanted(d)
        /\ list' = Append(list, x)
    BY <1>1, <1>3, <1>8, <2>1, UsbEnumerates
  <2>3. x \in UsbEntry /\ x.path[1] = d
    <3>1. Libusb!Here \in Libusb!Paths /\ Libusb!Here[1] = d
      BY <1>1, <2>2, UsbAltsFacts
    <3>2. kind[d].vendor \in Nat
      BY <1>1, UsbConstants DEF UsbTyped
    <3> QED
      BY <2>1, <3>1, <3>2 DEF UsbEntry
  <2>4. /\ Len(list') = Len(list) + 1 /\ Len(list) \in Nat
        /\ \A k \in 1 .. Len(list) : list'[k] = list[k]
        /\ list'[Len(list) + 1] = x
    BY <2>2, <2>3, AppendProperties, LenProperties DEF UsbListed
  <2>5. \A k : k \in 1 .. Len(list') <=> k \in 1 .. Len(list) \/ k = Len(list) + 1
    BY <2>4
  <2>6. Len(list) + 1 \notin 1 .. Len(list)
    BY <2>4
  <2>7. UsbMade(d)' = UsbMade(d) \cup {Len(list) + 1}
    BY <2>2, <2>3, <2>4, <2>5, <2>6 DEF UsbMade
  <2>8. \A e : e # d => UsbMade(e)' = UsbMade(e)
    BY <2>3, <2>4, <2>5, <2>6 DEF UsbMade
  <2>9. Cardinality(UsbMade(d)') = Cardinality(UsbSeen(d, a + 1))
    <3>1. /\ IsFiniteSet(UsbMade(d)) /\ IsFiniteSet(UsbSeen(d, a))
          /\ Len(list) + 1 \notin UsbMade(d) /\ a \notin UsbSeen(d, a)
      BY <1>1, UsbFinite
    <3>2. Cardinality(UsbMade(d) \cup {Len(list) + 1}) = Cardinality(UsbMade(d)) + 1
      BY <3>1, FS_AddElement
    <3>3. Cardinality(UsbSeen(d, a) \cup {a}) = Cardinality(UsbSeen(d, a)) + 1
      BY <3>1, FS_AddElement
    <3>4. UsbSeen(d, a + 1) = UsbSeen(d, a) \cup {a}
      BY <1>1, <2>2, UsbSeenNext
    <3> QED
      BY <1>4, <2>2, <2>7, <3>2, <3>3, <3>4
  <2>10. \A e \in Libusb!Devices :
           /\ e < d' => Cardinality(UsbMade(e)') = Libusb!EntriesOf(e)'
           /\ e > d' => UsbMade(e)' = {}
           /\ e = d' => \A n \in {UsbUpTo'} :
                 Cardinality(UsbMade(e)') = IF UsbWanted(e)' THEN Cardinality(UsbSeen(e, n)') ELSE 0
    <3>1. \A e \in Libusb!Devices : (e < d => e # d) /\ (e > d => e # d)
      BY <1>1
    <3>2. UsbUpTo' = a + 1
      BY <1>8, <2>2 DEF UsbUpTo
    <3> QED
      BY <1>2, <1>4, <2>2, <2>8, <2>9, <3>1, <3>2
  <2>11. \A k \in 1 .. Len(list') : list'[k].path[1] <= d'
    BY <1>1, <1>4, <2>2, <2>3, <2>4, <2>5
  <2>12. \A k \in 1 .. Len(list'), m \in 1 .. Len(list') :
            m < k => list'[m].path[1] <= list'[k].path[1]
    <3> SUFFICES ASSUME NEW k \in 1 .. Len(list'), NEW m \in 1 .. Len(list'), m < k
                 PROVE  list'[m].path[1] <= list'[k].path[1]
      OBVIOUS
    <3>1. m \in 1 .. Len(list) /\ list'[m] = list[m]
      BY <2>4, <2>5
    <3>2. CASE k \in 1 .. Len(list)
      BY <1>4, <2>4, <3>1, <3>2
    <3>3. CASE k = Len(list) + 1
      BY <1>4, <2>3, <2>4, <3>1, <3>3
    <3> QED
      BY <2>5, <3>2, <3>3
  <2> QED
    BY <1>2, <1>8, <2>2, <2>10, <2>11, <2>12 DEF UsbCounted
<1> QED
  BY <1>6, <1>7, <1>8, UsbEnumerates

LEMMA UsbCountedKept ==
    ASSUME UsbTyped, UsbAt, UsbListed, UsbCounted, Libusb!Next
    PROVE  UsbCounted'
<1>1. ASSUME pc' \notin UsbListing \cup {"choose"} PROVE UsbCounted'
  BY <1>1 DEF UsbCounted
<1>2. CASE Libusb!Enumerate
  BY <1>2, UsbCountedMoves
<1>3. CASE Libusb!Query
  <2>1. /\ pc = "query" /\ UNCHANGED <<kind, wanted, list>>
        /\ (pc' = "strings" /\ UNCHANGED <<d, a>>) \/ (pc' = "enum" /\ d' = d /\ a' = a + 1)
    BY <1>3 DEF Libusb!Query, Libusb!given, Libusb!NextAlt
  <2> QED
    BY <2>1, UsbCountedStays DEF UsbListing, UsbUpTo
<1>4. CASE Libusb!ReadStrings
  <2>1. PICK v : v = IF d \in plugged THEN kind[d].serial ELSE 0
    OBVIOUS
  <2>2. /\ pc = "strings" /\ pc' = "enum" /\ UNCHANGED <<kind, wanted, d>> /\ a' = a + 1
        /\ list' = [list EXCEPT ![Len(list)].serial = v]
    BY <1>4, <2>1 DEF Libusb!ReadStrings, Libusb!given, Libusb!NextAlt
  <2>3. Len(list) \in 1 .. Len(list) /\ list \in Seq(UsbEntry) /\ list[Len(list)] \in UsbEntry
    BY <2>2, UsbListFacts DEF UsbListed
  <2>4. v \in Nat
    BY <2>1, <2>2, UsbConstants DEF UsbTyped, UsbAt
  <2>5. PICK x : x = [list[Len(list)] EXCEPT !.serial = v]
    OBVIOUS
  <2>6. x \in UsbEntry /\ x.path = list[Len(list)].path
    BY <2>3, <2>4, <2>5 DEF UsbEntry
  <2>7. list' = [list EXCEPT ![Len(list)] = x]
    BY <2>2, <2>5
  <2>8. /\ Len(list') = Len(list)
        /\ \A k \in 1 .. Len(list) : list'[k] = IF k = Len(list) THEN x ELSE list[k]
    BY <2>3, <2>6, <2>7, ExceptSeq
  <2>9. \A k \in 1 .. Len(list) : list'[k].path = list[k].path
    BY <2>6, <2>8
  <2> QED
    BY <2>2, <2>8, <2>9, UsbCountedStays DEF UsbListing, UsbUpTo
<1>5. CASE Libusb!EndEnumerate
  <2>1. /\ pc = "enum" /\ pc' = "choose" /\ d \notin Libusb!Devices
        /\ UNCHANGED <<kind, wanted, list, d, a>>
    BY <1>5 DEF Libusb!EndEnumerate, Libusb!given
  <2>2. \A e : UsbMade(e)' = UsbMade(e) /\ Libusb!EntriesOf(e)' = Libusb!EntriesOf(e)
    BY <2>1, UsbCountedSame DEF UsbMade
  <2>3. \A e \in Libusb!Devices : e # d'
    BY <2>1
  <2>4. \A e \in Libusb!Devices : /\ e < d' => Cardinality(UsbMade(e)') = Libusb!EntriesOf(e)'
                                  /\ e > d' => UsbMade(e)' = {}
    BY <2>1, <2>2 DEF UsbCounted, UsbListing
  <2> QED
    BY <2>1, <2>3, <2>4 DEF UsbCounted, UsbListing
<1>6. ASSUME NEW e \in Libusb!Devices, Libusb!Unplug(e) PROVE UsbCounted'
  <2>1. UNCHANGED <<kind, wanted, list, pc, d, a>>
    BY <1>6 DEF Libusb!Unplug
  <2>2. CASE pc \in UsbListing
    BY <2>1, <2>2, UsbCountedStays DEF UsbUpTo
  <2>3. CASE pc = "choose"
    <3>1. \A f : UsbMade(f)' = UsbMade(f) /\ Libusb!EntriesOf(f)' = Libusb!EntriesOf(f)
      BY <2>1, UsbCountedSame DEF UsbMade
    <3>2. \A f \in Libusb!Devices : f # d
      BY <2>3, UsbConstants DEF UsbAt, Libusb!Devices
    <3>3. \A f \in Libusb!Devices : /\ f < d' => Cardinality(UsbMade(f)') = Libusb!EntriesOf(f)'
                                    /\ f > d' => UsbMade(f)' = {}
      BY <2>1, <2>3, <3>1 DEF UsbCounted, UsbListing
    <3> QED
      BY <2>1, <2>3, <3>2, <3>3 DEF UsbCounted, UsbListing
  <2> QED
    BY <1>1, <2>1, <2>2, <2>3
<1>7. CASE Libusb!Choose
  BY <1>1, <1>7, UsbChooses DEF UsbListing
<1>8. CASE Libusb!Find
  BY <1>1, <1>8, UsbFinds DEF UsbListing
<1>9. CASE Libusb!Detach \/ Libusb!Claim
  BY <1>1, <1>9, UsbClaims DEF UsbListing, UsbGivesUp
<1>10. CASE Libusb!StartThread \/ Libusb!EndFind \/ Libusb!FreeEnumeration \/ Libusb!Close
  BY <1>1, <1>10 DEF Libusb!StartThread, Libusb!EndFind, Libusb!FreeEnumeration, Libusb!Close,
     UsbListing
<1>11. ASSUME NEW number \in {0, 1}, NEW length \in {1, 3}, Libusb!Send(number, length)
       PROVE  UsbCounted'
  BY <1>1, <1>11 DEF Libusb!Send, UsbListing
<1> QED
  BY <1>2, <1>3, <1>4, <1>5, <1>6, <1>7, <1>8, <1>9, <1>10, <1>11 DEF Libusb!Next

-----------------------------------------------------------------------------
UsbInv ==
    part = "libusb" =>
        /\ UsbTyped /\ UsbHolds /\ UsbAt /\ UsbListed /\ UsbReport /\ UsbCounted
        /\ OneSetting => UsbOwns

LEMMA UsbInitially == Init => UsbInv
<1> SUFFICES ASSUME LibusbInit PROVE UsbInv
  BY OnlyInit DEF UsbInv
<1>1. UsbTyped /\ UsbHolds /\ UsbAt /\ UsbListed /\ UsbReport
  BY UsbInitially0
<1>2. /\ handles = <<>> /\ threads = {} /\ pc = "enum" /\ d = 1 /\ a = 1 /\ list = <<>>
      /\ good_open = FALSE
      /\ claims \in {[p \in Libusb!Paths |-> 0]} \cup
             {[q \in Libusb!Paths |-> IF q = p THEN -1 ELSE 0] : p \in Libusb!Paths}
  BY DEF LibusbInit, Libusb!Init, Libusb!Foreign
<1>3. Len(handles) = 0 /\ Len(list) = 0
  BY <1>2, EmptySeq
<1>4. UsbOwns
  <2>1. \A p \in Libusb!Paths : claims[p] \in {0, -1}
    BY <1>2
  <2> QED
    BY <1>2, <1>3, <2>1 DEF UsbOwns, UsbOpen, UsbRuns, UsbClaimed
<1>5. UsbCounted
  <2>1. \A e : UsbMade(e) = {}
    BY <1>3 DEF UsbMade
  <2>2. Cardinality({}) = 0
    BY FS_EmptySet
  <2>3. \A e \in Libusb!Devices : ~(e < d)
    BY <1>2, UsbConstants DEF Libusb!Devices
  <2>4. UsbUpTo = 1
    BY <1>2 DEF UsbUpTo
  <2>5. \A e \in Libusb!Devices : e = d => UsbSeen(e, 1) = {}
    BY <1>1, UsbSeenNext
  <2>6. 1 .. Len(list) = {}
    BY <1>3
  <2>7. \A e \in Libusb!Devices : e = d => \A n \in {UsbUpTo} :
           Cardinality(UsbMade(e)) = IF UsbWanted(e) THEN Cardinality(UsbSeen(e, n)) ELSE 0
    BY <2>1, <2>2, <2>4, <2>5
  <2> QED
    BY <1>2, <2>1, <2>3, <2>6, <2>7 DEF UsbCounted
<1> QED
  BY <1>1, <1>4, <1>5 DEF UsbInv

LEMMA UsbSteps == UsbInv /\ [Next]_vars => UsbInv'
<1> SUFFICES ASSUME UsbInv, [Next]_vars, part = "libusb"
             PROVE  UsbInv'
  BY OnlyPart DEF UsbInv
<1>1. /\ LibusbNext \/ UNCHANGED vars
      /\ UsbTyped /\ UsbHolds /\ UsbAt /\ UsbListed /\ UsbReport /\ UsbCounted
      /\ OneSetting => UsbOwns
  BY OnlyPart DEF UsbInv
<1>2. CASE LibusbNext
  <2>1. Libusb!Next
    BY <1>2 DEF LibusbNext
  <2>2. UsbTyped' /\ UsbHolds' /\ UsbAt' /\ UsbListed' /\ UsbReport' /\ UsbCounted'
    BY <1>1, <2>1, UsbTypedKept, UsbHoldsKept, UsbAtKept, UsbListedKept, UsbReportKept,
       UsbCountedKept
  <2>3. OneSetting => UsbOwns'
    BY <1>1, <2>1, UsbOwnsKept
  <2>4. OneSetting' <=> OneSetting
    BY DEF OneSetting
  <2> QED
    BY <2>2, <2>3, <2>4 DEF UsbInv
<1>3. CASE UNCHANGED vars
  <2>1. /\ UNCHANGED <<kind, plugged, pc, path, handle, list, handles>>
        /\ UNCHANGED <<wanted, driver, claims, threads, d, a, good_open, report>>
    BY <1>3 DEF vars, shared, libusbOwn
  <2>2. UsbTyped'
    BY <1>1, <2>1 DEF UsbTyped, UsbAlts, Libusb!Alts
  <2>3. UsbHolds' /\ UsbReport'
    BY <1>1, <2>1 DEF UsbHolds, UsbReport, Libusb!HasOutput, Libusb!Alts
  <2>4. UsbAt' /\ UsbListed'
    BY <1>1, <2>1 DEF UsbAt, UsbListed, UsbTrue, UsbAlts, Libusb!Alts, Libusb!Here
  <2>5. UsbCounted'
    <3>1. \A e : UsbMade(e)' = UsbMade(e)
      BY <2>1 DEF UsbMade
    <3> QED
      BY <1>1, <2>1, <3>1, UsbCountedSame DEF UsbCounted, UsbUpTo
  <2>6. OneSetting => UsbOwns'
    BY <1>1, <2>1 DEF UsbOwns, UsbOpen, UsbRuns, UsbClaimed, UsbPast, Libusb!Alts
  <2>7. OneSetting' <=> OneSetting
    BY DEF OneSetting
  <2> QED
    BY <2>2, <2>3, <2>4, <2>5, <2>6, <2>7 DEF UsbInv
<1> QED
  BY <1>1, <1>2, <1>3

LEMMA UsbFine ==
    ASSUME UsbInv, part = "libusb"
    PROVE  /\ Libusb!TypeOK /\ Libusb!ListExact /\ Libusb!SerialFits /\ Libusb!CountsNumber
           /\ OneSetting => Libusb!OpensOne /\ Libusb!NullOpensNothing /\ Libusb!CloseReleases
<1>1. /\ UsbTyped /\ UsbHolds /\ UsbAt /\ UsbListed /\ UsbReport /\ UsbCounted
      /\ OneSetting => UsbOwns
  BY DEF UsbInv
<1>2. /\ Len(handles) \in Nat /\ DOMAIN handles = 1 .. Len(handles)
      /\ good_open => handle \in 1 .. Len(handles) /\ path \in Libusb!Paths
  BY <1>1, UsbHandles, LenProperties DEF UsbHolds
<1>3. Libusb!TypeOK
  <2>1. a \in 1 .. Len(Libusb!Alts(d)) + 1
    BY <1>1, UsbAltsFacts DEF UsbTyped, UsbAlts
  <2>2. list \in Seq([path : Libusb!Paths, vendor : Nat, serial : Nat])
    BY <1>1 DEF UsbListed, UsbEntry
  <2>3. claims \in [Libusb!Paths -> {Libusb!Foreign} \cup 0 .. Len(handles)]
    BY <1>1 DEF UsbHolds, Libusb!Foreign
  <2> QED
    BY <1>1, <1>2, <2>1, <2>2, <2>3 DEF Libusb!TypeOK, UsbTyped, UsbHolds, UsbReport, UsbPcs
<1>4. Libusb!ListExact
  <2> SUFFICES ASSUME pc = "choose" PROVE Libusb!ListExact
    BY DEF Libusb!ListExact
  <2>1. DOMAIN list = 1 .. Len(list) /\ Len(list) \in Nat
    BY <1>1, UsbListFacts
  <2>2. \A e \in Libusb!Devices : Libusb!Cardinality({k \in DOMAIN list : list[k].path[1] = e})
                                     = Cardinality(UsbMade(e))
    BY <2>1, UsbCardinality DEF UsbMade
  <2>3. \A e \in Libusb!Devices : e < d
    BY <1>1, UsbConstants DEF UsbAt, Libusb!Devices
  <2>4. \A k \in 1 .. Len(list) : \A m \in 1 .. k - 1 : m \in 1 .. Len(list) /\ m < k
    BY <2>1
  <2>5. \A k \in 1 .. Len(list) : \A m \in 1 .. k - 1 : list[m].path[1] <= list[k].path[1]
    BY <1>1, <2>4 DEF UsbCounted
  <2> QED
    BY <1>1, <2>1, <2>2, <2>3, <2>5 DEF Libusb!ListExact, UsbCounted
<1>5. Libusb!SerialFits
  BY <1>1, UsbConstants DEF Libusb!SerialFits, UsbAt, UsbListed
<1>6. Libusb!CountsNumber
  BY <1>1 DEF Libusb!CountsNumber, UsbReport
<1>7. ASSUME OneSetting
      PROVE  Libusb!OpensOne /\ Libusb!NullOpensNothing /\ Libusb!CloseReleases
  <2>1. UsbOwns
    BY <1>1, <1>7
  <2>2. Libusb!OpenHandles = {h \in 1 .. Len(handles) : h \in UsbOpen}
    BY <1>2, <2>1 DEF Libusb!OpenHandles, UsbOwns
  <2>3. Libusb!OpensOne
    <3> SUFFICES ASSUME pc = "open" PROVE Libusb!OpensOne
      BY DEF Libusb!OpensOne
    <3>1. good_open /\ handle # 0 /\ handle \in Nat
      BY <1>1, <1>2 DEF UsbAt
    <3>2. {p \in Libusb!Paths : claims[p] = handle} = {path} /\ path \notin driver
      BY <1>2, <2>1, <3>1 DEF UsbOwns, UsbClaimed
    <3>3. Libusb!OpenHandles = {handle} /\ threads = {handle}
      BY <1>2, <2>1, <2>2, <3>1 DEF UsbOwns, UsbRuns, UsbOpen
    <3>4. handles[handle] = path[1] /\ kind[path[1]].vendor = wanted.vendor
      BY <1>1, <1>2, <2>1, <3>1, UsbConstants DEF UsbOwns, UsbListed
    <3> QED
      BY <3>2, <3>3, <3>4 DEF Libusb!OpensOne
  <2>4. Libusb!NullOpensNothing
    BY <1>1, <2>1, <2>2 DEF Libusb!NullOpensNothing, UsbAt, UsbOwns, UsbOpen, UsbRuns, UsbClaimed,
       Libusb!Foreign
  <2>5. Libusb!CloseReleases
    BY <1>1, <2>1, <2>2 DEF Libusb!CloseReleases, UsbAt, UsbOwns, UsbOpen, UsbRuns, UsbClaimed,
       Libusb!Foreign
  <2> QED
    BY <2>3, <2>4, <2>5
<1> QED
  BY <1>3, <1>4, <1>5, <1>6, <1>7
-----------------------------------------------------------------------------
(* hidapi with hidraw.  What is true of the first number, and of the next  *)
(* of a number it is true of, is true of all.                              *)
LEMMA Induct ==
    ASSUME NEW S, 0 \in S, \A n \in Nat : n \in S => n + 1 \in S
    PROVE  Nat \subseteq S
<1> SUFFICES ASSUME Nat \ S # {} PROVE FALSE
  OBVIOUS
<1>1. PICK m \in Nat \ S : \A n \in Nat \ S : m <= n
  BY Least
<1>2. m # 0 /\ m - 1 \in Nat /\ ~(m <= m - 1)
  BY <1>1
<1>3. m - 1 \in S
  BY <1>1, <1>2
<1>4. (m - 1) + 1 \in S
  BY <1>2, <1>3
<1> QED
  BY <1>1, <1>4

(* A list is chained by the pointers nx from the entry e to its end, and   *)
(* in the order of the devices; then it is what follows the pointers.      *)
Chained(e, nx, s) ==
    /\ s \in Seq(Hidraw!Devices)
    /\ e = IF Len(s) = 0 THEN 0 ELSE s[1]
    /\ \A k \in 1 .. Len(s) : nx[s[k]] = IF k = Len(s) THEN 0 ELSE s[k + 1]
    /\ \A k \in 1 .. Len(s), m \in 1 .. Len(s) : k < m => s[k] < s[m]

ChainStep(e, nx, p) ==
    LET n == IF p = <<>> THEN e ELSE nx[p[Len(p)]]
    IN  IF n = 0 THEN p ELSE Append(p, n)
ChainBody(e, nx, f) ==
    [k \in 0 .. HidrawCount + 1 |-> IF k = 0 THEN <<>> ELSE ChainStep(e, nx, f[k - 1])]
Chain(e, nx) == CHOOSE f : f = ChainBody(e, nx, f)

LEMMA HidListed ==
    /\ Hidraw!Listed = Chain(root, next)[HidrawCount + 1]
    /\ Hidraw!Listed' = Chain(root', next')[HidrawCount + 1]
BY DEF Hidraw!Listed, Hidraw!ChainFrom, Chain, ChainBody, ChainStep

LEMMA HidConstants ==
    /\ HidrawCount \in Nat /\ Hidraw!Devices = 1 .. HidrawCount
    /\ \A e \in Hidraw!Devices : e \in Nat \ {0} /\ e <= HidrawCount
BY DevicesAssumption DEF Hidraw!Devices

LEMMA HidKinds ==
    ASSUME NEW u \in HidrawKinds
    PROVE  /\ u.initialised \in BOOLEAN /\ u.hid \in BOOLEAN
           /\ u.bus \in {"usb", "bluetooth", "other"} /\ u.usb \in {"none", "bare", "full"}
           /\ u.vendor \in Nat \ {0} /\ u.serial \in Nat
BY DevicesAssumption DEF Hidraw!KindAssumption

(* A list in the order of the devices is not longer than there are any.    *)
LEMMA HidShort ==
    ASSUME NEW e, NEW nx, NEW s, Chained(e, nx, s)
    PROVE  /\ Len(s) \in Nat /\ Len(s) <= HidrawCount /\ DOMAIN s = 1 .. Len(s)
           /\ \A k \in 1 .. Len(s) : s[k] \in Hidraw!Devices
<1>1. Len(s) \in Nat /\ DOMAIN s = 1 .. Len(s)
  BY LenProperties DEF Chained
<1>2. \A k \in 1 .. Len(s) : s[k] \in Hidraw!Devices
  BY ElementOfSeq DEF Chained
<1> DEFINE low == {k \in 1 .. Len(s) : s[k] < k}
<1>3. ASSUME low # {} PROVE FALSE
  <2>1. low \in SUBSET Nat
    BY <1>1
  <2>2. PICK m \in low : \A k \in low : m <= k
    BY <1>3, <2>1, Least
  <2>3. m \in 1 .. Len(s) /\ s[m] < m /\ s[m] \in Nat \ {0}
    BY <1>2, HidConstants
  <2>4. m - 1 \in 1 .. Len(s) /\ m - 1 < m /\ ~(m <= m - 1)
    BY <1>1, <2>3
  <2>5. m - 1 \notin low
    BY <2>2, <2>4
  <2>6. ~(s[m - 1] < m - 1) /\ s[m - 1] < s[m] /\ s[m - 1] \in Nat
    BY <1>2, <2>3, <2>4, <2>5, HidConstants DEF Chained
  <2> QED
    BY <2>3, <2>6
<1>4. CASE Len(s) = 0
  BY <1>1, <1>2, <1>4, HidConstants
<1>5. CASE Len(s) # 0
  <2>1. Len(s) \in 1 .. Len(s)
    BY <1>1, <1>5
  <2>2. ~(s[Len(s)] < Len(s)) /\ s[Len(s)] \in Nat /\ s[Len(s)] <= HidrawCount
    BY <1>2, <1>3, <2>1, HidConstants
  <2> QED
    BY <1>1, <1>2, <2>2, HidConstants
<1> QED
  BY <1>4, <1>5

LEMMA HidChain ==
    ASSUME NEW e, NEW nx, NEW s, Chained(e, nx, s)
    PROVE  Chain(e, nx)[HidrawCount + 1] = s
<1>1. /\ Len(s) \in Nat /\ Len(s) <= HidrawCount /\ DOMAIN s = 1 .. Len(s)
      /\ \A k \in 1 .. Len(s) : s[k] \in Hidraw!Devices
      /\ s \in Seq(Hidraw!Devices) /\ HidrawCount \in Nat
  BY HidShort, HidConstants DEF Chained
<1>14. Len(s) \in Nat
  BY <1>1
<1> DEFINE Cut(k) == IF k <= Len(s) THEN k ELSE Len(s)
           Pre(k) == [m \in 1 .. Cut(k) |-> s[m]]
<1>2. \A k \in Nat : Cut(k) \in Nat /\ Cut(k) <= Len(s) /\ Cut(k) <= k
  BY <1>1
<1>3. ASSUME NEW k \in Nat
      PROVE  /\ Pre(k) \in Seq(Hidraw!Devices) /\ Len(Pre(k)) = Cut(k)
             /\ \A m \in 1 .. Cut(k) : Pre(k)[m] = s[m]
  <2>1. \A m \in 1 .. Cut(k) : m \in 1 .. Len(s)
    BY <1>1, <1>2
  <2>2. Pre(k) \in Seq(Hidraw!Devices)
    BY <1>1, <1>2, <2>1, IsASeq
  <2> QED
    BY <1>2, <2>2, LenProperties
<1>4. Pre(0) = <<>>
  <2>1. Cut(0) = 0
    BY <1>14
  <2>2. Len(Pre(0)) = 0 /\ Pre(0) \in Seq(Hidraw!Devices)
    BY <1>3, <2>1
  <2> QED
    BY <2>2, EmptySeq
<1>5. \A k \in Nat : k >= Len(s) => Pre(k) = s
  <2> SUFFICES ASSUME NEW k \in Nat, k >= Len(s) PROVE Pre(k) = s
    OBVIOUS
  <2>1. Cut(k) = Len(s)
    BY <1>14
  <2>2. Len(Pre(k)) = Len(s) /\ Pre(k) \in Seq(Hidraw!Devices) /\ \A m \in 1 .. Len(s) : Pre(k)[m] = s[m]
    BY <1>3, <2>1
  <2> QED
    BY <1>1, <2>2, SeqEqual
<1>6. ASSUME NEW k \in Nat PROVE ChainStep(e, nx, Pre(k)) = Pre(k + 1)
  <2> DEFINE p == Pre(k)
             n == IF p = <<>> THEN e ELSE nx[p[Len(p)]]
  <2>1. ChainStep(e, nx, p) = IF n = 0 THEN p ELSE Append(p, n)
    BY DEF ChainStep
  <2>2. p \in Seq(Hidraw!Devices) /\ Len(p) = Cut(k) /\ \A m \in 1 .. Cut(k) : p[m] = s[m]
    BY <1>3
  <2>3. p = <<>> <=> Cut(k) = 0
    BY <2>2, EmptySeq
  <2> HIDE DEF p, Cut, Pre
  <2>4. n = IF Cut(k) = Len(s) THEN 0 ELSE s[Cut(k) + 1]
    <3>1. CASE Cut(k) = 0
      BY <2>3, <3>1 DEF Chained
    <3>2. CASE Cut(k) # 0
      <4>1. Cut(k) \in 1 .. Len(s) /\ Cut(k) \in 1 .. Cut(k)
        <5>1. Cut(k) \in Nat /\ Cut(k) <= Len(s)
          BY <1>2
        <5> QED
          BY <1>14, <3>2, <5>1
      <4>2. p[Len(p)] = s[Cut(k)]
        BY <2>2, <4>1
      <4> QED
        BY <2>3, <3>2, <4>1, <4>2 DEF Chained
    <3> QED
      BY <3>1, <3>2
  <2>5. CASE Cut(k) = Len(s)
    <3>1. k >= Len(s) /\ k + 1 >= Len(s) /\ k + 1 \in Nat
      BY <1>14, <2>5 DEF Cut
    <3> QED
      BY <1>5, <2>1, <2>4, <2>5, <3>1 DEF p
  <2>6. CASE Cut(k) # Len(s)
    <3>1. k < Len(s) /\ Cut(k) = k /\ Cut(k + 1) = k + 1 /\ k + 1 \in 1 .. Len(s)
      BY <1>14, <2>6 DEF Cut
    <3>2. n = s[k + 1] /\ n \in Hidraw!Devices /\ n # 0
      BY <1>1, <2>4, <2>6, <3>1, HidConstants
    <3>3. /\ Append(p, n) \in Seq(Hidraw!Devices) /\ Len(Append(p, n)) = k + 1
          /\ \A m \in 1 .. k : Append(p, n)[m] = s[m]
          /\ Append(p, n)[k + 1] = s[k + 1]
      BY <2>2, <3>1, <3>2, AppendProperties
    <3>4. k + 1 \in Nat /\ \A m \in 1 .. k + 1 : m \in 1 .. k \/ m = k + 1
      OBVIOUS
    <3>5. /\ Pre(k + 1) \in Seq(Hidraw!Devices) /\ Len(Pre(k + 1)) = k + 1
          /\ \A m \in 1 .. k + 1 : Pre(k + 1)[m] = s[m]
      BY <1>3, <3>1, <3>4
    <3>6. \A m \in 1 .. k + 1 : Append(p, n)[m] = Pre(k + 1)[m]
      BY <3>3, <3>4, <3>5
    <3>7. Append(p, n) = Pre(k + 1)
      BY <3>3, <3>5, <3>6, SeqEqual
    <3> QED
      BY <2>1, <3>2, <3>7 DEF p
  <2> QED
    BY <2>5, <2>6
<1> HIDE DEF Pre, Cut
<1> DEFINE pre == [k \in 0 .. HidrawCount + 1 |-> Pre(k)]
           chain == Chain(e, nx)
<1>7. pre = ChainBody(e, nx, pre)
  <2>1. ASSUME NEW k \in 0 .. HidrawCount + 1
        PROVE  pre[k] = IF k = 0 THEN <<>> ELSE ChainStep(e, nx, pre[k - 1])
    <3>1. CASE k = 0
      BY <1>1, <1>4, <3>1
    <3>2. CASE k # 0
      <4>1. k - 1 \in Nat /\ k - 1 \in 0 .. HidrawCount + 1 /\ (k - 1) + 1 = k
        BY <1>1, <3>2
      <4> QED
        BY <1>6, <3>2, <4>1
    <3> QED
      BY <3>1, <3>2
  <2> QED
    BY <2>1, Zenon DEF ChainBody
<1> HIDE DEF pre
<1>8. chain = ChainBody(e, nx, chain)
  BY <1>7 DEF Chain
<1> HIDE DEF chain
<1>9. \A k \in 0 .. HidrawCount + 1 : chain[k] = IF k = 0 THEN <<>> ELSE ChainStep(e, nx, chain[k - 1])
  BY <1>8 DEF ChainBody
<1> DEFINE S == {k \in Nat : k <= HidrawCount + 1 => chain[k] = Pre(k)}
<1>10. 0 \in S
  BY <1>1, <1>4, <1>9
<1>11. ASSUME NEW k \in Nat, k \in S PROVE k + 1 \in S
  <2> SUFFICES ASSUME k + 1 <= HidrawCount + 1 PROVE chain[k + 1] = Pre(k + 1)
    OBVIOUS
  <2>1. k <= HidrawCount + 1 /\ k + 1 \in 0 .. HidrawCount + 1 /\ k + 1 # 0 /\ (k + 1) - 1 = k
    BY <1>1
  <2> QED
    BY <1>6, <1>9, <1>11, <2>1
<1> HIDE DEF S
<1>12. HidrawCount + 1 \in S
  BY <1>1, <1>10, <1>11, Induct
<1>13. chain[HidrawCount + 1] = Pre(HidrawCount + 1)
  BY <1>1, <1>12 DEF S
<1> QED
  BY <1>1, <1>5, <1>13 DEF chain

(* An entry goes behind the last, and the last is taken off again.         *)
LEMMA HidAppended ==
    ASSUME NEW e, NEW s, NEW n \in Hidraw!Devices,
           NEW nx \in [Hidraw!Devices -> 0 .. HidrawCount], Chained(e, nx, s),
           \A k \in 1 .. Len(s) : s[k] < n,
           NEW c, c = IF Len(s) = 0 THEN 0 ELSE s[Len(s)]
    PROVE  /\ Chained(IF c = 0 THEN n ELSE e,
                      [nx EXCEPT ![n] = 0, ![IF c = 0 THEN n ELSE c] = IF c = 0 THEN 0 ELSE n],
                      Append(s, n))
           /\ Len(Append(s, n)) = Len(s) + 1 /\ Append(s, n)[Len(s) + 1] = n
           /\ \A k \in 1 .. Len(s) : Append(s, n)[k] = s[k]
           /\ c = 0 <=> Len(s) = 0
<1>1. /\ Len(s) \in Nat /\ \A k \in 1 .. Len(s) : s[k] \in Hidraw!Devices
      /\ s \in Seq(Hidraw!Devices)
  BY HidShort DEF Chained
<1> DEFINE t == Append(s, n)
           ny == [nx EXCEPT ![n] = 0, ![IF c = 0 THEN n ELSE c] = IF c = 0 THEN 0 ELSE n]
<1>2. /\ t \in Seq(Hidraw!Devices) /\ Len(t) = Len(s) + 1 /\ t[Len(s) + 1] = n
      /\ \A k \in 1 .. Len(s) : t[k] = s[k]
  BY <1>1, AppendProperties
<1> HIDE DEF t
<1>3. Len(s) # 0 => Len(s) \in 1 .. Len(s)
  BY <1>1
<1>4. (c = 0 <=> Len(s) = 0) /\ (Len(s) # 0 => c = s[Len(s)] /\ c \in Hidraw!Devices /\ c # n)
  BY <1>1, <1>3, HidConstants
<1>5. \A k \in 1 .. Len(t) : k \in 1 .. Len(s) \/ k = Len(s) + 1
  BY <1>1, <1>2
<1>6. (IF c = 0 THEN n ELSE e) = IF Len(t) = 0 THEN 0 ELSE t[1]
  BY <1>1, <1>2, <1>4 DEF Chained
<1>7. \A k \in Hidraw!Devices :
         ny[k] = IF Len(s) # 0 /\ k = s[Len(s)] THEN n ELSE IF k = n THEN 0 ELSE nx[k]
  <2>1. CASE Len(s) = 0
    BY <1>4, <2>1
  <2>2. CASE Len(s) # 0
    BY <1>4, <2>2
  <2> QED
    BY <2>1, <2>2
<1> HIDE DEF ny
<1>8. ASSUME NEW k \in 1 .. Len(t)
      PROVE  ny[t[k]] = IF k = Len(t) THEN 0 ELSE t[k + 1]
  <2>1. CASE k = Len(s) + 1
    BY <1>2, <1>4, <1>7, <2>1
  <2>2. CASE k \in 1 .. Len(s) /\ k = Len(s)
    BY <1>1, <1>2, <1>7, <2>2
  <2>3. CASE k \in 1 .. Len(s) /\ k # Len(s)
    <3>1. k + 1 \in 1 .. Len(s) /\ Len(s) \in 1 .. Len(s) /\ k < Len(s) /\ k # Len(t)
      BY <1>1, <1>2, <2>3
    <3>2. s[k] < s[Len(s)] /\ s[k] < n /\ s[k] \in Hidraw!Devices /\ s[Len(s)] \in Hidraw!Devices
      BY <1>1, <2>3, <3>1 DEF Chained
    <3>3. s[k] # s[Len(s)] /\ s[k] # n
      BY <3>2, HidConstants
    <3>4. nx[s[k]] = s[k + 1] /\ t[k] = s[k] /\ t[k + 1] = s[k + 1]
      BY <1>2, <2>3, <3>1 DEF Chained
    <3> QED
      BY <1>7, <3>1, <3>2, <3>3, <3>4
  <2> QED
    BY <1>5, <2>1, <2>2, <2>3
<1>9. ASSUME NEW k \in 1 .. Len(t), NEW m \in 1 .. Len(t), k < m PROVE t[k] < t[m]
  <2>1. k \in 1 .. Len(s)
    BY <1>1, <1>2, <1>9
  <2> QED
    BY <1>2, <1>5, <1>9, <2>1 DEF Chained
<1>10. Chained(IF c = 0 THEN n ELSE e, ny, t)
  BY <1>2, <1>6, <1>8, <1>9 DEF Chained
<1> QED
  BY <1>2, <1>4, <1>10 DEF t, ny

LEMMA Indices ==
    ASSUME NEW n \in Nat, n > 0
    PROVE  /\ \A k \in 1 .. n - 1 : k \in 1 .. n /\ k + 1 \in 1 .. n /\ k # n /\ k < n
           /\ \A k \in 1 .. n : k \in 1 .. n - 1 \/ k = n
           /\ n \in 1 .. n
           /\ n # 1 => n - 1 \in 1 .. n - 1 /\ n - 1 # 0
           /\ n = 1 => n - 1 = 0
           /\ n # 1 => n - 1 \in 1 .. n
           /\ n - 1 \in Nat /\ n - 1 \in Int
           /\ \A k \in 1 .. n - 1 :
                 n # 1 /\ (k # n - 1 => k < n - 1 /\ k + 1 \in 1 .. n - 1)
           /\ (IF 1 <= n - 1 THEN (n - 1) - 1 + 1 ELSE 0) = n - 1
           /\ (n - 1) - 1 + 1 = n - 1
           /\ \A k \in 1 .. n - 1 : 1 + k - 1 = k
OBVIOUS

LEMMA HidTakenOff ==
    ASSUME NEW e, NEW s, NEW nx \in [Hidraw!Devices -> 0 .. HidrawCount], Chained(e, nx, s),
           Len(s) > 0,
           NEW p, p = IF Len(s) = 1 THEN 0 ELSE s[Len(s) - 1]
    PROVE  /\ Chained(IF p = 0 THEN 0 ELSE e, IF p = 0 THEN nx ELSE [nx EXCEPT ![p] = 0],
                      SubSeq(s, 1, Len(s) - 1))
           /\ Len(SubSeq(s, 1, Len(s) - 1)) = Len(s) - 1
           /\ \A k \in 1 .. Len(s) - 1 : SubSeq(s, 1, Len(s) - 1)[k] = s[k]
<1>1. /\ Len(s) \in Nat /\ \A k \in 1 .. Len(s) : s[k] \in Hidraw!Devices
      /\ s \in Seq(Hidraw!Devices)
  BY HidShort DEF Chained
<1>9. Len(s) \in Nat /\ Len(s) > 0
  BY <1>1
<1>10. /\ \A k \in 1 .. Len(s) - 1 : k \in 1 .. Len(s) /\ k + 1 \in 1 .. Len(s) /\ k # Len(s)
       /\ Len(s) # 1 => Len(s) - 1 \in 1 .. Len(s)
       /\ Len(s) - 1 \in Nat /\ Len(s) - 1 \in Int
       /\ \A k \in 1 .. Len(s) - 1 :
             Len(s) # 1 /\ (k # Len(s) - 1 => k < Len(s) - 1 /\ k + 1 \in 1 .. Len(s) - 1)
  BY <1>9, Indices
<1> DEFINE t == SubSeq(s, 1, Len(s) - 1)
           ny == IF p = 0 THEN nx ELSE [nx EXCEPT ![p] = 0]
<1>2. /\ t \in Seq(Hidraw!Devices) /\ Len(t) = Len(s) - 1
      /\ \A k \in 1 .. Len(s) - 1 : t[k] = s[k]
  <2>1. \A k \in 1 .. Len(s) - 1 : s[k] \in Hidraw!Devices
    BY <1>1, <1>10
  <2>2. /\ t \in Seq(Hidraw!Devices)
        /\ Len(t) = IF 1 <= Len(s) - 1 THEN (Len(s) - 1) - 1 + 1 ELSE 0
        /\ \A k \in 1 .. (Len(s) - 1) - 1 + 1 : t[k] = s[1 + k - 1]
    BY <1>10, <2>1, SubSeqProperties
  <2>3. /\ (IF 1 <= Len(s) - 1 THEN (Len(s) - 1) - 1 + 1 ELSE 0) = Len(s) - 1
        /\ (Len(s) - 1) - 1 + 1 = Len(s) - 1
        /\ \A k \in 1 .. Len(s) - 1 : 1 + k - 1 = k
    BY <1>9, Indices
  <2> QED
    BY <2>2, <2>3
<1> HIDE DEF t
<1>3. Len(s) # 1 => Len(s) - 1 \in 1 .. Len(s)
  BY <1>10
<1>4. (p = 0 <=> Len(s) = 1) /\ (Len(s) # 1 => p = s[Len(s) - 1] /\ p \in Hidraw!Devices)
  BY <1>1, <1>3, HidConstants
<1>5. (IF p = 0 THEN 0 ELSE e) = IF Len(t) = 0 THEN 0 ELSE t[1]
  BY <1>1, <1>2, <1>4 DEF Chained
<1>6. ASSUME NEW k \in 1 .. Len(t)
      PROVE  ny[t[k]] = IF k = Len(t) THEN 0 ELSE t[k + 1]
  <2>1. k \in 1 .. Len(s) /\ k + 1 \in 1 .. Len(s) /\ t[k] = s[k] /\ Len(s) # 1 /\ k # Len(s)
    BY <1>2, <1>10
  <2>2. s[k] \in Hidraw!Devices /\ nx[s[k]] = s[k + 1]
    BY <1>1, <2>1 DEF Chained
  <2>3. CASE k = Len(t)
    BY <1>2, <1>4, <2>1, <2>2, <2>3
  <2>4. CASE k # Len(t)
    <3>1. k < Len(s) - 1 /\ Len(s) - 1 \in 1 .. Len(s) /\ t[k + 1] = s[k + 1]
      BY <1>2, <1>10, <2>4
    <3>2. s[k] < s[Len(s) - 1] /\ s[Len(s) - 1] \in Hidraw!Devices
      BY <1>1, <2>1, <3>1 DEF Chained
    <3>3. s[k] # p
      BY <1>4, <2>1, <2>2, <3>2, HidConstants
    <3> QED
      BY <1>4, <2>1, <2>2, <2>4, <3>1, <3>3
  <2> QED
    BY <2>3, <2>4
<1>7. ASSUME NEW k \in 1 .. Len(t), NEW m \in 1 .. Len(t), k < m PROVE t[k] < t[m]
  <2>1. k \in 1 .. Len(s) /\ m \in 1 .. Len(s) /\ t[k] = s[k] /\ t[m] = s[m]
    BY <1>2, <1>10
  <2> QED
    BY <1>7, <2>1 DEF Chained
<1>8. Chained(IF p = 0 THEN 0 ELSE e, ny, t)
  BY <1>2, <1>5, <1>6, <1>7 DEF Chained
<1> QED
  BY <1>2, <1>8 DEF t, ny

(* Where hidapi is, and what it knows of the device it is at.              *)
HidPcs == {"take", "hid", "parse", "add", "usb", "next", "listed", "choose",
           "open", "free", "opened", "done", "crashed"}
HidTurn == {"hid", "parse", "add", "usb", "next"}
HidScan == HidTurn \cup {"take"}
HidLists == HidScan \cup {"listed", "choose", "open", "free"}
HidFields == {"node", "path", "serial", "manufacturer", "product"}
HidStrings == {"serial_utf8", "name_utf8"}
HidBlocks == Hidraw!Devices \X (HidFields \cup HidStrings)
HidList == Hidraw!Listed

HidTyped ==
    /\ kind \in [Hidraw!Devices -> HidrawKinds] /\ caller \in HidrawCallers
    /\ plugged \subseteq Hidraw!Devices
    /\ pc \in HidPcs
    /\ i \in 1 .. HidrawCount + 1
    /\ root \in 0 .. HidrawCount /\ cur \in 0 .. HidrawCount /\ prev \in 0 .. HidrawCount
    /\ path \in 0 .. HidrawCount /\ handle \in 0 .. HidrawCount
    /\ next \in [Hidraw!Devices -> 0 .. HidrawCount]
    /\ fields \in [Hidraw!Devices -> SUBSET HidFields]
    /\ heap \subseteq HidBlocks /\ refs \subseteq Hidraw!Devices
    /\ string \in [ret : {-1, 0, 1}, wrote : BOOLEAN]

HidAt ==
    /\ pc \in HidTurn => i \in Hidraw!Devices
    /\ pc \in {"listed", "choose", "open", "free", "opened", "done"} => i = HidrawCount + 1
    /\ pc \in HidTurn \ {"next"} => kind[i].initialised
    /\ pc \in {"parse", "add", "usb"} => kind[i].hid
    /\ pc \in {"add", "usb"} => Hidraw!UeventFound(i) /\ kind[i].bus \in {"usb", "bluetooth"}
    /\ pc = "usb" => kind[i].bus = "usb" /\ Hidraw!VendorFits(i)
    /\ pc \in HidTurn => refs \subseteq {i}
    /\ pc \notin HidTurn \cup {"crashed"} => refs = {}

(* The list is chained, up to the device hidapi is at, and cur and prev    *)
(* are its last entries.                                                   *)
HidLinked ==
    pc \in HidLists =>
        /\ Chained(root, next, HidList)
        /\ \A k \in 1 .. Len(HidList) :
              HidList[k] < i \/ (HidList[k] = i /\ pc \in {"usb", "next"})
        /\ pc \in HidScan => cur = IF Len(HidList) = 0 THEN 0 ELSE HidList[Len(HidList)]
        /\ pc = "usb" =>
              /\ Len(HidList) > 0 /\ HidList[Len(HidList)] = i
              /\ prev = IF Len(HidList) = 1 THEN 0 ELSE HidList[Len(HidList) - 1]

HidIn(e) == \E k \in 1 .. Len(HidList) : HidList[k] = e

(* Allocated is what hangs off the entries of the list, and of the device  *)
(* hidapi is at what parse_uevent_info found.                              *)
HidHeld ==
    /\ pc \in HidLists =>
          /\ \A x \in HidBlocks : x[2] \in HidFields =>
                (x \in heap <=> HidIn(x[1]) /\ x[2] \in fields[x[1]])
          /\ \A x \in heap : x[2] \in HidStrings => x[1] = i /\ pc \in {"add", "usb", "next"}
          /\ \A k \in 1 .. Len(HidList) : {"node", "path", "serial"} \subseteq fields[HidList[k]]
          /\ pc = "usb" => fields[i] = {"node", "path", "serial"}
    /\ pc \in {"opened", "done"} => heap = {}
    /\ misuse = FALSE

(* The list has what can be listed of the devices passed.                  *)
HidMade ==
    pc \in HidLists =>
        /\ \A e \in Hidraw!Devices : HidIn(e) => Hidraw!Listable(e) \/ (pc = "usb" /\ e = i)
        /\ \A e \in plugged : Hidraw!Listable(e) /\ (e < i \/ (e = i /\ pc = "next")) => HidIn(e)

(* hid_open chose the first device that fits.                              *)
HidChosen ==
    /\ pc \in HidScan \cup {"listed", "choose"} => path = 0
    /\ pc \in HidScan \cup {"listed", "choose", "open"} => handle = 0
    /\ handle \in {0, path}
    /\ path # 0 =>
          /\ Hidraw!Fits(path) /\ Hidraw!Listable(path)
          /\ \A e \in plugged : Hidraw!Fits(e) /\ Hidraw!Listable(e) => path <= e
    /\ path # 0 /\ pc = "open" => HidIn(path)

HidInv ==
    part = "hidraw" => HidTyped /\ HidAt /\ HidLinked /\ HidHeld /\ HidMade /\ HidChosen

LEMMA HidInitially == Init => HidInv
<1> SUFFICES ASSUME HidrawInit PROVE HidInv
  BY OnlyInit DEF HidInv
<1>1. /\ kind \in [Hidraw!Devices -> HidrawKinds] /\ caller \in HidrawCallers
      /\ plugged = Hidraw!Devices
      /\ pc = "take" /\ i = 1
      /\ root = 0 /\ cur = 0 /\ prev = 0
      /\ next = [e \in Hidraw!Devices |-> 0] /\ fields = [e \in Hidraw!Devices |-> {}]
      /\ heap = {} /\ refs = {} /\ misuse = FALSE
      /\ path = 0 /\ handle = 0 /\ string = [ret |-> -1, wrote |-> FALSE]
  BY DEF HidrawInit, Hidraw!Init, Hidraw!NoString
<1>2. HidTyped
  BY <1>1, HidConstants DEF HidTyped, HidPcs
<1>3. Len(<<>>) = 0 /\ <<>> \in Seq(Hidraw!Devices)
  BY EmptySeq
<1>4. Chained(root, next, <<>>)
  BY <1>1, <1>3 DEF Chained
<1>5. HidList = <<>>
  BY <1>4, HidListed, HidChain DEF HidList
<1>6. Len(HidList) = 0 /\ \A e : ~HidIn(e)
  BY <1>3, <1>5 DEF HidIn
<1>7. HidAt /\ HidChosen
  BY <1>1 DEF HidAt, HidChosen, HidTurn, HidScan
<1>8. HidLinked
  BY <1>1, <1>4, <1>5, <1>6 DEF HidLinked, HidScan
<1>9. HidHeld
  BY <1>1, <1>6 DEF HidHeld, HidBlocks
<1>10. HidMade
  <2>1. \A e \in plugged : ~(e < i)
    BY <1>1, HidConstants
  <2> QED
    BY <1>1, <1>6, <2>1 DEF HidMade
<1> QED
  BY <1>2, <1>7, <1>8, <1>9, <1>10 DEF HidInv

(* The device list of hid_enumerate changes in three steps only.           *)
LEMMA HidListSame ==
    ASSUME UNCHANGED <<root, next>>
    PROVE  HidList' = HidList /\ \A e : HidIn(e)' <=> HidIn(e)
<1>1. HidList' = HidList
  BY HidListed DEF HidList
<1> QED
  BY <1>1 DEF HidIn

LEMMA HidListFacts ==
    ASSUME HidLinked, pc \in HidLists
    PROVE  /\ Len(HidList) \in Nat /\ DOMAIN HidList = 1 .. Len(HidList)
           /\ \A k \in 1 .. Len(HidList) : HidList[k] \in Hidraw!Devices
           /\ \A e : HidIn(e) => e \in Hidraw!Devices
<1>1. Chained(root, next, HidList)
  BY DEF HidLinked
<1> QED
  BY <1>1, HidShort DEF HidIn

(* AddEntry and FindUsb, by what they do to the list and to the heap.      *)
LEMMA HidAdds ==
    ASSUME HidTyped, HidAt, HidLinked, Hidraw!AddEntry
    PROVE  /\ pc = "add" /\ i \in Hidraw!Devices
           /\ UNCHANGED <<kind, caller, plugged, i, misuse, refs, path, handle, string>>
           /\ \/ /\ ~Hidraw!VendorFits(i) /\ pc' = "next"
                 /\ UNCHANGED <<root, cur, prev, next, fields, heap>>
              \/ /\ Hidraw!VendorFits(i) /\ pc' = IF kind[i].bus = "usb" THEN "usb" ELSE "next"
                 /\ Chained(root', next', HidList') /\ Len(HidList') = Len(HidList) + 1
                 /\ HidList'[Len(HidList) + 1] = i
                 /\ \A k \in 1 .. Len(HidList) : HidList'[k] = HidList[k]
                 /\ \A e : HidIn(e)' <=> HidIn(e) \/ e = i
                 /\ ~HidIn(i)
                 /\ cur' = i /\ prev' = cur
                 /\ root' \in 0 .. HidrawCount
                 /\ next' \in [Hidraw!Devices -> 0 .. HidrawCount]
                 /\ \E own \in SUBSET HidFields :
                       /\ own = {"node", "path", "serial"} \cup
                             (IF kind[i].bus = "usb" THEN {} ELSE {"manufacturer", "product"})
                       /\ fields' = [fields EXCEPT ![i] = own]
                       /\ heap' = heap \cup Hidraw!Blocks(i, own)
<1>1. /\ pc = "add" /\ i \in Hidraw!Devices
      /\ UNCHANGED <<kind, caller, plugged, i, misuse, refs, path, handle, string>>
  BY DEF Hidraw!AddEntry, Hidraw!opening, HidAt, HidTurn
<1>2. CASE ~Hidraw!VendorFits(i)
  BY <1>1, <1>2 DEF Hidraw!AddEntry, Hidraw!enumeration
<1>3. CASE Hidraw!VendorFits(i)
  <2>1. PICK own : own = {"node", "path", "serial"} \cup
                      (IF kind[i].bus = "usb" THEN {} ELSE {"manufacturer", "product"})
    OBVIOUS
  <2>2. /\ next' = [next EXCEPT ![i] = 0, ![IF cur = 0 THEN i ELSE cur] = IF cur = 0 THEN 0 ELSE i]
        /\ root' = IF cur = 0 THEN i ELSE root
        /\ prev' = cur /\ cur' = i
        /\ fields' = [fields EXCEPT ![i] = own]
        /\ heap' = heap \cup Hidraw!Blocks(i, own)
        /\ pc' = IF kind[i].bus = "usb" THEN "usb" ELSE "next"
    BY <1>3, <2>1 DEF Hidraw!AddEntry
  <2>3. /\ Chained(root, next, HidList) /\ \A k \in 1 .. Len(HidList) : HidList[k] < i
        /\ cur = IF Len(HidList) = 0 THEN 0 ELSE HidList[Len(HidList)]
        /\ next \in [Hidraw!Devices -> 0 .. HidrawCount]
    BY <1>1 DEF HidLinked, HidLists, HidScan, HidTurn, HidTyped
  <2>4. /\ Chained(root', next', Append(HidList, i))
        /\ Len(Append(HidList, i)) = Len(HidList) + 1 /\ Append(HidList, i)[Len(HidList) + 1] = i
        /\ \A k \in 1 .. Len(HidList) : Append(HidList, i)[k] = HidList[k]
    <3>1. Chained(IF cur = 0 THEN i ELSE root,
                  [next EXCEPT ![i] = 0, ![IF cur = 0 THEN i ELSE cur] = IF cur = 0 THEN 0 ELSE i],
                  Append(HidList, i))
      BY <1>1, <2>3, HidAppended, Zenon
    <3>2. /\ Len(Append(HidList, i)) = Len(HidList) + 1
          /\ Append(HidList, i)[Len(HidList) + 1] = i
          /\ \A k \in 1 .. Len(HidList) : Append(HidList, i)[k] = HidList[k]
      BY <1>1, <2>3, AppendProperties DEF Chained
    <3> QED
      BY <2>2, <3>1, <3>2
  <2>5. HidList' = Append(HidList, i)
    BY <2>4, HidListed, HidChain DEF HidList
  <2>6. Len(HidList) \in Nat
    BY <2>3, HidShort
  <2>7. \A k : k \in 1 .. Len(HidList') <=> k \in 1 .. Len(HidList) \/ k = Len(HidList) + 1
    BY <2>4, <2>5, <2>6
  <2>8. \A e : HidIn(e)' <=> HidIn(e) \/ e = i
    BY <2>4, <2>5, <2>7 DEF HidIn
  <2>9. ~HidIn(i)
    BY <1>1, <2>3, HidConstants DEF HidIn
  <2>10. own \in SUBSET HidFields
    BY <2>1 DEF HidFields
  <2>11. root' \in 0 .. HidrawCount /\ next' \in [Hidraw!Devices -> 0 .. HidrawCount]
    BY <1>1, <2>2, <2>3, HidConstants DEF HidTyped
  <2> QED
    BY <1>1, <1>3, <2>1, <2>2, <2>4, <2>5, <2>8, <2>9, <2>10, <2>11
<1> QED
  BY <1>2, <1>3

(* hid_open takes the first of the list that fits.                         *)
LEMMA HidChooses ==
    ASSUME HidLinked, Hidraw!Choose
    PROVE  /\ pc = "choose" /\ pc' = "open"
           /\ UNCHANGED <<kind, caller, plugged, i, root, cur, prev, next, fields, heap, misuse,
                          refs, handle, string>>
           /\ \/ path' = 0 /\ \A k \in 1 .. Len(HidList) : ~Hidraw!Fits(HidList[k])
              \/ \E k \in 1 .. Len(HidList) :
                    /\ path' = HidList[k] /\ Hidraw!Fits(HidList[k]) /\ path' \in Hidraw!Devices
                    /\ \A m \in 1 .. Len(HidList) : Hidraw!Fits(HidList[m]) => HidList[k] <= HidList[m]
<1>1. /\ pc = "choose" /\ pc' = "open"
      /\ UNCHANGED <<kind, caller, plugged, i, root, cur, prev, next, fields, heap, misuse, refs,
                     handle, string>>
      /\ path' = IF \E k \in DOMAIN HidList : Hidraw!Fits(HidList[k])
                 THEN Hidraw!FirstOf(HidList) ELSE 0
  BY DEF Hidraw!Choose, Hidraw!memory, Hidraw!enumeration, HidList
<1>2. /\ Len(HidList) \in Nat /\ DOMAIN HidList = 1 .. Len(HidList)
      /\ \A k \in 1 .. Len(HidList) : HidList[k] \in Hidraw!Devices
      /\ Chained(root, next, HidList)
  BY <1>1, HidListFacts DEF HidLists, HidLinked
<1> DEFINE fit == {k \in 1 .. Len(HidList) : Hidraw!Fits(HidList[k])}
<1>3. CASE fit = {}
  BY <1>1, <1>2, <1>3
<1>4. CASE fit # {}
  <2>1. fit \in SUBSET Nat
    BY <1>2
  <2>2. PICK z \in fit : \A m \in fit : z <= m
    BY <1>4, <2>1, Least
  <2>3. \A m \in 1 .. z - 1 : m \in 1 .. Len(HidList) /\ ~(z <= m)
    BY <1>2, <2>2
  <2>4. \A m \in 1 .. z - 1 : ~Hidraw!Fits(HidList[m])
    BY <2>2, <2>3
  <2>5. PICK k : k = CHOOSE n \in DOMAIN HidList :
                       Hidraw!Fits(HidList[n]) /\ \A m \in 1 .. n - 1 : ~Hidraw!Fits(HidList[m])
    OBVIOUS
  <2>6. /\ k \in 1 .. Len(HidList) /\ Hidraw!Fits(HidList[k])
        /\ \A m \in 1 .. k - 1 : ~Hidraw!Fits(HidList[m])
    BY <1>2, <2>2, <2>4, <2>5
  <2>7. path' = HidList[k]
    BY <1>1, <1>2, <2>5, <2>6 DEF Hidraw!FirstOf
  <2>8. ASSUME NEW m \in 1 .. Len(HidList), Hidraw!Fits(HidList[m]) PROVE HidList[k] <= HidList[m]
    <3>1. ~(m \in 1 .. k - 1)
      BY <2>6, <2>8
    <3>2. m = k \/ k < m
      BY <1>2, <2>6, <3>1
    <3>3. HidList[k] \in Nat /\ HidList[m] \in Nat
      BY <1>2, <2>6, HidConstants
    <3>4. k < m => HidList[k] < HidList[m]
      BY <1>2, <2>6 DEF Chained
    <3> QED
      BY <3>2, <3>3, <3>4
  <2> QED
    BY <1>1, <1>2, <2>6, <2>7, <2>8
<1> QED
  BY <1>3, <1>4


LEMMA HidFindsUsb ==
    ASSUME HidTyped, HidAt, HidLinked, HidHeld, Hidraw!FindUsb
    PROVE  /\ pc = "usb" /\ pc' = "next" /\ i \in Hidraw!Devices
           /\ UNCHANGED <<kind, caller, plugged, i, misuse, refs, path, handle, string, prev>>
           /\ \/ /\ i \in plugged /\ kind[i].usb # "none" /\ UNCHANGED <<root, cur, next>>
                 /\ \E own \in SUBSET HidFields :
                       /\ fields' = [fields EXCEPT ![i] = fields[i] \cup own]
                       /\ heap' = heap \cup Hidraw!Blocks(i, own)
              \/ /\ ~(i \in plugged /\ kind[i].usb # "none") /\ UNCHANGED fields
                 /\ Chained(root', next', HidList') /\ Len(HidList') = Len(HidList) - 1
                 /\ \A k \in 1 .. Len(HidList') : HidList'[k] = HidList[k]
                 /\ \A e : HidIn(e)' <=> HidIn(e) /\ e # i
                 /\ cur' = IF Len(HidList') = 0 THEN 0 ELSE HidList'[Len(HidList')]
                 /\ cur' \in 0 .. HidrawCount /\ root' \in 0 .. HidrawCount
                 /\ next' \in [Hidraw!Devices -> 0 .. HidrawCount]
                 /\ heap' = heap \ Hidraw!Blocks(i, {"node", "path", "serial"})
<1>1. /\ pc = "usb" /\ pc' = "next" /\ i \in Hidraw!Devices
      /\ UNCHANGED <<kind, caller, plugged, i, refs, path, handle, string>>
  BY DEF Hidraw!FindUsb, Hidraw!opening, HidAt, HidTurn
<1>2. CASE i \in plugged /\ kind[i].usb # "none"
  <2>1. PICK own : own = IF kind[i].usb = "full" THEN {"manufacturer", "product"} ELSE {}
    OBVIOUS
  <2>2. /\ fields' = [fields EXCEPT ![i] = fields[i] \cup own]
        /\ heap' = heap \cup Hidraw!Blocks(i, own)
        /\ UNCHANGED <<root, cur, prev, next, misuse>>
    BY <1>2, <2>1 DEF Hidraw!FindUsb
  <2>3. own \in SUBSET HidFields
    BY <2>1 DEF HidFields
  <2> QED
    BY <1>1, <1>2, <2>2, <2>3
<1>3. CASE ~(i \in plugged /\ kind[i].usb # "none")
  <2>1. /\ heap' = heap \ Hidraw!EntryBlocks(i)
        /\ misuse' = (misuse \/ ~(Hidraw!EntryBlocks(i) \subseteq heap))
        /\ next' = Hidraw!Unlink(i) /\ cur' = prev /\ root' = (IF prev = 0 THEN 0 ELSE root)
        /\ UNCHANGED <<prev, fields>>
    BY <1>3 DEF Hidraw!FindUsb, Hidraw!Free
  <2>2. /\ Chained(root, next, HidList) /\ Len(HidList) > 0 /\ HidList[Len(HidList)] = i
        /\ prev = IF Len(HidList) = 1 THEN 0 ELSE HidList[Len(HidList) - 1]
        /\ next \in [Hidraw!Devices -> 0 .. HidrawCount]
    BY <1>1 DEF HidLinked, HidLists, HidScan, HidTurn, HidTyped
  <2>3. PICK s : s = SubSeq(HidList, 1, Len(HidList) - 1)
    OBVIOUS
  <2>4. /\ Chained(IF prev = 0 THEN 0 ELSE root,
                   IF prev = 0 THEN next ELSE [next EXCEPT ![prev] = 0], s)
        /\ Len(s) = Len(HidList) - 1 /\ \A k \in 1 .. Len(HidList) - 1 : s[k] = HidList[k]
    BY <2>2, <2>3, HidTakenOff, Zenon
  <2>5. Chained(root', next', s)
    BY <2>1, <2>4 DEF Hidraw!Unlink
  <2>6. HidList' = s
    BY <2>5, HidListed, HidChain DEF HidList
  <2>7. Len(HidList) \in Nat /\ \A k \in 1 .. Len(HidList) : HidList[k] \in Hidraw!Devices
    BY <2>2, HidShort
  <2>8. /\ \A k \in 1 .. Len(HidList) - 1 : k \in 1 .. Len(HidList)
        /\ \A k \in 1 .. Len(HidList) : k \in 1 .. Len(HidList) - 1 \/ k = Len(HidList)
        /\ Len(HidList) \in 1 .. Len(HidList)
        /\ \A k \in 1 .. Len(HidList) - 1 : k < Len(HidList)
        /\ Len(HidList) # 1 => Len(HidList) - 1 \in 1 .. Len(HidList) - 1 /\ Len(HidList) - 1 # 0
        /\ Len(HidList) = 1 => Len(HidList) - 1 = 0
    BY <2>2, <2>7, Indices
  <2>9. \A k \in 1 .. Len(HidList) - 1 : HidList[k] < i
    BY <2>2, <2>8 DEF Chained
  <2>10. \A k \in 1 .. Len(HidList) - 1 : HidList[k] # i
    BY <1>1, <2>7, <2>8, <2>9, HidConstants
  <2>11. \A e : HidIn(e)' <=> HidIn(e) /\ e # i
    BY <2>2, <2>4, <2>6, <2>8, <2>10 DEF HidIn
  <2>12. cur' = IF Len(s) = 0 THEN 0 ELSE s[Len(s)]
    BY <2>1, <2>2, <2>4, <2>8
  <2>13. /\ cur' \in 0 .. HidrawCount /\ root' \in 0 .. HidrawCount
         /\ next' \in [Hidraw!Devices -> 0 .. HidrawCount]
    <3>1. next' = IF prev = 0 THEN next ELSE [next EXCEPT ![prev] = 0]
      BY <2>1 DEF Hidraw!Unlink
    <3>2. 0 \in 0 .. HidrawCount
      BY HidConstants
    <3> QED
      BY <2>1, <2>2, <3>1, <3>2 DEF HidTyped
  <2>14. Hidraw!EntryBlocks(i) \subseteq heap /\ misuse' = misuse
    <3>1. HidIn(i)
      BY <2>2, <2>8 DEF HidIn
    <3>2. fields[i] = {"node", "path", "serial"}
      BY <1>1 DEF HidHeld, HidLists, HidScan, HidTurn
    <3>3. \A f \in {"node", "path", "serial"} :
             <<i, f>> \in HidBlocks /\ f \in HidFields /\ <<i, f>>[1] = i /\ <<i, f>>[2] = f
      BY <1>1 DEF HidBlocks, HidFields
    <3>4. \A f \in {"node", "path", "serial"} : <<i, f>> \in heap
      BY <1>1, <3>1, <3>2, <3>3 DEF HidHeld, HidLists, HidScan, HidTurn
    <3>5. Hidraw!EntryBlocks(i) \subseteq heap
      BY <3>4 DEF Hidraw!EntryBlocks, Hidraw!Blocks
    <3> QED
      BY <2>1, <3>5 DEF HidHeld
  <2> QED
    BY <1>1, <1>3, <2>1, <2>4, <2>5, <2>6, <2>11, <2>12, <2>13, <2>14 DEF Hidraw!EntryBlocks
<1> QED
  BY <1>2, <1>3

(* Where it is and what it points to.                                      *)
LEMMA HidTypedKept ==
    ASSUME HidTyped, HidAt, HidLinked, HidHeld, HidMade, Hidraw!Next
    PROVE  HidTyped'
<1> USE DEF Hidraw!memory, Hidraw!enumeration, Hidraw!opening
<1>0. HidrawCount \in Nat /\ \A e \in Hidraw!Devices : e \in 1 .. HidrawCount /\ e + 1 \in 1 .. HidrawCount + 1
  BY HidConstants
<1>1. CASE Hidraw!Take
  BY <1>1 DEF Hidraw!Take, Hidraw!More, HidTyped, HidPcs, HidAt
<1>2. CASE Hidraw!FindHid \/ Hidraw!EndEnumerate
  BY <1>2 DEF Hidraw!FindHid, Hidraw!EndEnumerate, HidTyped, HidPcs
<1>3. CASE Hidraw!ParseUevent
  <2>1. i \in Hidraw!Devices
    BY <1>3 DEF Hidraw!ParseUevent, HidAt, HidTurn
  <2>2. Hidraw!UeventBlocks(i) \subseteq HidBlocks
    BY <2>1 DEF Hidraw!UeventBlocks, Hidraw!Blocks, HidBlocks, HidStrings
  <2>3. heap' \subseteq HidBlocks
    BY <1>3, <2>2 DEF Hidraw!ParseUevent, HidTyped
  <2> QED
    BY <1>3, <2>3 DEF Hidraw!ParseUevent, HidTyped, HidPcs
<1>4. CASE Hidraw!AddEntry
  <2>1. i \in Hidraw!Devices /\ pc' \in HidPcs
        /\ UNCHANGED <<kind, caller, plugged, i, refs, path, handle, string>>
    BY <1>4, HidAdds DEF HidPcs
  <2>2. CASE UNCHANGED <<root, cur, prev, next, fields, heap>>
    BY <2>1, <2>2 DEF HidTyped
  <2>3. ASSUME NEW own \in SUBSET HidFields, fields' = [fields EXCEPT ![i] = own],
               heap' = heap \cup Hidraw!Blocks(i, own), cur' = i, prev' = cur,
               root' \in 0 .. HidrawCount, next' \in [Hidraw!Devices -> 0 .. HidrawCount]
        PROVE  HidTyped'
    <3>1. fields' \in [Hidraw!Devices -> SUBSET HidFields]
      BY <2>3 DEF HidTyped
    <3>2. heap' \subseteq HidBlocks
      BY <2>1, <2>3 DEF HidTyped, HidBlocks, Hidraw!Blocks
    <3>3. cur' \in 0 .. HidrawCount
      BY <1>0, <2>1, <2>3
    <3> QED
      BY <2>1, <2>3, <3>1, <3>2, <3>3 DEF HidTyped
  <2> QED
    BY <1>4, <2>2, <2>3, HidAdds
<1>5. CASE Hidraw!FindUsb
  <2>1. i \in Hidraw!Devices /\ pc' \in HidPcs
        /\ UNCHANGED <<kind, caller, plugged, i, refs, path, handle, string, prev>>
    BY <1>5, HidFindsUsb DEF HidPcs
  <2>2. ASSUME NEW own \in SUBSET HidFields, fields' = [fields EXCEPT ![i] = fields[i] \cup own],
               heap' = heap \cup Hidraw!Blocks(i, own), UNCHANGED <<root, cur, next>>
        PROVE  HidTyped'
    <3>1. fields' \in [Hidraw!Devices -> SUBSET HidFields]
      BY <2>1, <2>2 DEF HidTyped
    <3>2. heap' \subseteq HidBlocks
      BY <2>1, <2>2 DEF HidTyped, HidBlocks, Hidraw!Blocks
    <3> QED
      BY <2>1, <2>2, <3>1, <3>2 DEF HidTyped
  <2>3. ASSUME UNCHANGED fields, cur' \in 0 .. HidrawCount, root' \in 0 .. HidrawCount,
               next' \in [Hidraw!Devices -> 0 .. HidrawCount], heap' \subseteq heap
        PROVE  HidTyped'
    BY <2>1, <2>3 DEF HidTyped
  <2> QED
    BY <1>5, <2>2, <2>3, HidFindsUsb
<1>6. CASE Hidraw!NextDevice
  BY <1>0, <1>6 DEF Hidraw!NextDevice, Hidraw!Free, HidTyped, HidPcs, HidAt, HidTurn
<1>7. CASE Hidraw!Choose
  <2>1. path' \in 0 .. HidrawCount
    <3>1. CASE \E k \in DOMAIN HidList : Hidraw!Fits(HidList[k])
      <4>1. path' \in Hidraw!Devices
        BY <1>7, <3>1, HidChooses
      <4> QED
        BY <1>0, <4>1
    <3>2. CASE ~\E k \in DOMAIN HidList : Hidraw!Fits(HidList[k])
      BY <1>0, <1>7, <3>2 DEF Hidraw!Choose, HidList
    <3> QED
      BY <3>1, <3>2
  <2> QED
    BY <1>7, <2>1 DEF Hidraw!Choose, HidTyped, HidPcs
<1>8. CASE Hidraw!OpenPath
  BY <1>0, <1>8 DEF Hidraw!OpenPath, HidTyped, HidPcs
<1>9. CASE Hidraw!FreeEnumeration
  BY <1>0, <1>9 DEF Hidraw!FreeEnumeration, Hidraw!Free, HidTyped, HidPcs
<1>10. CASE Hidraw!GetString
  <2>1. string' \in [ret : {-1, 0, 1}, wrote : BOOLEAN]
    BY <1>10 DEF Hidraw!GetString, Hidraw!NoString
  <2> QED
    BY <1>10, <2>1 DEF Hidraw!GetString, HidTyped
<1>11. CASE Hidraw!Close
  BY <1>0, <1>11 DEF Hidraw!Close, HidTyped, HidPcs
<1>12. ASSUME NEW e \in Hidraw!Devices, Hidraw!Unplug(e) PROVE HidTyped'
  BY <1>12 DEF Hidraw!Unplug, HidTyped
<1> QED
  BY <1>1, <1>2, <1>3, <1>4, <1>5, <1>6, <1>7, <1>8, <1>9, <1>10, <1>11, <1>12
     DEF Hidraw!Next, Hidraw!Program

LEMMA HidAtKept ==
    ASSUME HidTyped, HidAt, HidLinked, HidHeld, Hidraw!Next
    PROVE  HidAt'
<1> USE DEF Hidraw!memory, Hidraw!enumeration, Hidraw!opening
<1>0. /\ HidrawCount \in Nat /\ Hidraw!Devices = 1 .. HidrawCount
      /\ \A e \in Hidraw!Devices : kind[e] \in HidrawKinds
  BY HidConstants DEF HidTyped
<1>1. UNCHANGED kind => \A e : Hidraw!UeventFound(e)' <=> Hidraw!UeventFound(e)
  BY DEF Hidraw!UeventFound
<1>2. UNCHANGED <<kind, caller>> => \A e : Hidraw!VendorFits(e)' <=> Hidraw!VendorFits(e)
  BY DEF Hidraw!VendorFits
<1>3. CASE Hidraw!Take
  <2>1. i \in Hidraw!Devices
    BY <1>0, <1>3 DEF Hidraw!Take, Hidraw!More, HidTyped
  <2> QED
    BY <1>3, <2>1 DEF Hidraw!Take, HidAt, HidTurn
<1>4. CASE Hidraw!FindHid
  BY <1>4 DEF Hidraw!FindHid, HidAt, HidTurn
<1>5. CASE Hidraw!ParseUevent
  <2>1. i \in Hidraw!Devices /\ kind[i].bus \in {"usb", "bluetooth", "other"}
    BY <1>0, <1>5, HidKinds DEF Hidraw!ParseUevent, HidAt, HidTurn
  <2> QED
    BY <1>1, <1>5, <2>1 DEF Hidraw!ParseUevent, HidAt, HidTurn
<1>6. CASE Hidraw!AddEntry
  <2>1. /\ pc = "add" /\ UNCHANGED <<kind, caller, i, refs>> /\ pc' \in {"usb", "next"}
        /\ pc' = "usb" => kind[i].bus = "usb" /\ Hidraw!VendorFits(i)
    BY <1>6, HidAdds
  <2> QED
    BY <1>1, <1>2, <2>1 DEF HidAt, HidTurn
<1>7. CASE Hidraw!FindUsb
  <2>1. pc = "usb" /\ UNCHANGED <<kind, caller, i, refs>> /\ pc' = "next"
    BY <1>7, HidFindsUsb
  <2> QED
    BY <2>1 DEF HidAt, HidTurn
<1>8. CASE Hidraw!NextDevice
  BY <1>8 DEF Hidraw!NextDevice, HidAt, HidTurn
<1>9. CASE Hidraw!EndEnumerate
  <2>1. i = HidrawCount + 1
    BY <1>0, <1>9 DEF Hidraw!EndEnumerate, Hidraw!More, HidTyped
  <2> QED
    BY <1>9, <2>1 DEF Hidraw!EndEnumerate, HidAt, HidTurn
<1>10. CASE Hidraw!Choose \/ Hidraw!OpenPath \/ Hidraw!FreeEnumeration \/ Hidraw!GetString \/ Hidraw!Close
  BY <1>10 DEF Hidraw!Choose, Hidraw!OpenPath, Hidraw!FreeEnumeration, Hidraw!GetString,
     Hidraw!Close,
     HidAt, HidTurn
<1>11. ASSUME NEW e \in Hidraw!Devices, Hidraw!Unplug(e) PROVE HidAt'
  <2>1. UNCHANGED <<kind, caller, i, refs, pc>>
    BY <1>11 DEF Hidraw!Unplug
  <2> QED
    BY <1>1, <1>2, <2>1 DEF HidAt
<1> QED
  BY <1>3, <1>4, <1>5, <1>6, <1>7, <1>8, <1>9, <1>10, <1>11 DEF Hidraw!Next, Hidraw!Program

LEMMA HidLinkedKept ==
    ASSUME HidTyped, HidAt, HidLinked, HidHeld, Hidraw!Next
    PROVE  HidLinked'
<1> USE DEF Hidraw!memory, Hidraw!enumeration, Hidraw!opening
<1>1. ASSUME UNCHANGED <<root, next, i, cur, prev>>, pc' \in HidLists => pc \in HidLists,
             pc \in {"usb", "next"} /\ pc' \in HidLists => pc' \in {"usb", "next"},
             pc' = "usb" => pc = "usb", pc' \in HidScan => pc \in HidScan
      PROVE  HidLinked'
  <2>1. HidList' = HidList
    BY <1>1, HidListSame
  <2> QED
    BY <1>1, <2>1 DEF HidLinked, Chained
<1>2. CASE Hidraw!Take
  BY <1>1, <1>2 DEF Hidraw!Take, HidLists, HidScan, HidTurn
<1>3. CASE Hidraw!FindHid
  BY <1>1, <1>3 DEF Hidraw!FindHid, HidLists, HidScan, HidTurn
<1>4. CASE Hidraw!ParseUevent
  BY <1>1, <1>4 DEF Hidraw!ParseUevent, HidLists, HidScan, HidTurn
<1>5. CASE Hidraw!AddEntry
  <2>1. pc = "add" /\ i \in Hidraw!Devices /\ UNCHANGED i
    BY <1>5, HidAdds
  <2>2. CASE ~Hidraw!VendorFits(i)
    BY <1>1, <1>5, <2>1, <2>2, HidAdds DEF HidLists, HidScan, HidTurn
  <2>3. CASE Hidraw!VendorFits(i)
    <3>1. /\ Chained(root', next', HidList') /\ Len(HidList') = Len(HidList) + 1
          /\ HidList'[Len(HidList) + 1] = i
          /\ \A k \in 1 .. Len(HidList) : HidList'[k] = HidList[k]
          /\ cur' = i /\ prev' = cur /\ pc' \in {"usb", "next"}
      BY <1>5, <2>3, HidAdds
    <3>2. /\ Len(HidList) \in Nat /\ Len(HidList) # 0 => Len(HidList) \in 1 .. Len(HidList)
          /\ \A k \in 1 .. Len(HidList) : HidList[k] < i
          /\ cur = IF Len(HidList) = 0 THEN 0 ELSE HidList[Len(HidList)]
      BY <2>1, HidListFacts DEF HidLinked, HidLists, HidScan, HidTurn
    <3>3. \A k \in 1 .. Len(HidList') : k \in 1 .. Len(HidList) \/ k = Len(HidList) + 1
      BY <3>1, <3>2
    <3>4. \A k \in 1 .. Len(HidList') : HidList'[k] < i \/ HidList'[k] = i
      BY <3>1, <3>2, <3>3
    <3>5. /\ Len(HidList') # 0 /\ Len(HidList') > 0 /\ Len(HidList') - 1 = Len(HidList)
          /\ Len(HidList') = 1 <=> Len(HidList) = 0
      BY <3>1, <3>2
    <3>6. prev' = IF Len(HidList') = 1 THEN 0 ELSE HidList'[Len(HidList') - 1]
      BY <3>1, <3>2, <3>5
    <3> QED
      BY <2>1, <3>1, <3>4, <3>5, <3>6 DEF HidLinked
  <2> QED
    BY <2>2, <2>3
<1>6. CASE Hidraw!FindUsb
  <2>1. pc = "usb" /\ pc' = "next" /\ UNCHANGED <<i, prev>>
    BY <1>6, HidFindsUsb
  <2>2. CASE UNCHANGED <<root, cur, next>>
    BY <1>1, <2>1, <2>2 DEF HidLists, HidScan, HidTurn
  <2>3. ASSUME Chained(root', next', HidList'), Len(HidList') = Len(HidList) - 1,
               \A k \in 1 .. Len(HidList') : HidList'[k] = HidList[k],
               cur' = IF Len(HidList') = 0 THEN 0 ELSE HidList'[Len(HidList')]
        PROVE  HidLinked'
    <3>1. Len(HidList) \in Nat
      BY <2>1, HidListFacts DEF HidLists, HidScan, HidTurn
    <3>2. \A k \in 1 .. Len(HidList') : k \in 1 .. Len(HidList)
      BY <2>3, <3>1
    <3>3. \A k \in 1 .. Len(HidList) : HidList[k] < i \/ HidList[k] = i
      BY <2>1 DEF HidLinked, HidLists, HidScan, HidTurn
    <3> QED
      BY <2>1, <2>3, <3>2, <3>3 DEF HidLinked
  <2> QED
    BY <1>6, <2>2, <2>3, HidFindsUsb
<1>7. CASE Hidraw!NextDevice
  <2>1. /\ pc = "next" /\ pc' = "take" /\ UNCHANGED <<root, cur, prev, next>> /\ i' = i + 1
        /\ i \in Nat
    BY <1>7, HidConstants DEF Hidraw!NextDevice, HidTyped
  <2>2. HidList' = HidList
    BY <2>1, HidListSame
  <2>3. /\ Chained(root, next, HidList)
        /\ \A k \in 1 .. Len(HidList) : HidList[k] < i \/ HidList[k] = i
        /\ \A k \in 1 .. Len(HidList) : HidList[k] \in Nat
        /\ cur = IF Len(HidList) = 0 THEN 0 ELSE HidList[Len(HidList)]
    BY <2>1, HidListFacts, HidConstants DEF HidLinked, HidLists, HidScan, HidTurn
  <2>4. \A k \in 1 .. Len(HidList) : HidList[k] < i + 1
    BY <2>1, <2>3
  <2> QED
    BY <2>1, <2>2, <2>3, <2>4 DEF HidLinked
<1>8. CASE Hidraw!EndEnumerate
  BY <1>1, <1>8 DEF Hidraw!EndEnumerate, HidLists, HidScan, HidTurn
<1>9. CASE Hidraw!Choose
  BY <1>1, <1>9 DEF Hidraw!Choose, HidLists, HidScan, HidTurn
<1>10. CASE Hidraw!OpenPath
  BY <1>1, <1>10 DEF Hidraw!OpenPath, HidLists, HidScan, HidTurn
<1>11. CASE Hidraw!FreeEnumeration \/ Hidraw!GetString \/ Hidraw!Close
  <2>1. pc' \in {"done", "opened"}
    BY <1>11 DEF Hidraw!FreeEnumeration, Hidraw!GetString, Hidraw!Close
  <2> QED
    BY <2>1 DEF HidLinked, HidLists, HidScan, HidTurn
<1>12. ASSUME NEW e \in Hidraw!Devices, Hidraw!Unplug(e) PROVE HidLinked'
  BY <1>1, <1>12 DEF Hidraw!Unplug
<1> QED
  BY <1>2, <1>3, <1>4, <1>5, <1>6, <1>7, <1>8, <1>9, <1>10, <1>11, <1>12 DEF Hidraw!Next,
     Hidraw!Program

(* Of a block, the device it hangs off and the field.                      *)
LEMMA HidBlock ==
    ASSUME NEW x \in HidBlocks, NEW e, NEW T
    PROVE  x \in Hidraw!Blocks(e, T) <=> x[1] = e /\ x[2] \in T
BY DEF HidBlocks, Hidraw!Blocks

LEMMA HidNames ==
    /\ HidFields \cap HidStrings = {} /\ {"node", "path", "serial"} \subseteq HidFields
    /\ \A x \in HidBlocks : x[1] \in Hidraw!Devices /\ (x[2] \in HidFields \/ x[2] \in HidStrings)
BY DEF HidFields, HidStrings, HidBlocks

LEMMA HidHeldKept ==
    ASSUME HidTyped, HidAt, HidLinked, HidHeld, HidChosen, Hidraw!Next
    PROVE  HidHeld'
<1> USE DEF Hidraw!memory, Hidraw!enumeration, Hidraw!opening
<1>0. /\ heap \subseteq HidBlocks
      /\ \A e \in Hidraw!Devices : fields[e] \subseteq HidFields
      /\ fields \in [Hidraw!Devices -> SUBSET HidFields]
  BY DEF HidTyped
<1>1. ASSUME UNCHANGED <<root, next, i, fields, heap, misuse>>, pc' \in HidLists => pc \in HidLists,
             pc \in {"add", "usb", "next"} /\ pc' \in HidLists => pc' \in {"add", "usb", "next"},
             pc' = "usb" => pc = "usb", pc' \in {"opened", "done"} => pc \in {"opened", "done"}
      PROVE  HidHeld'
  <2>1. HidList' = HidList /\ \A e : HidIn(e)' <=> HidIn(e)
    BY <1>1, HidListSame
  <2> QED
    BY <1>1, <2>1 DEF HidHeld
<1>2. CASE Hidraw!Take
  BY <1>1, <1>2 DEF Hidraw!Take, HidLists, HidScan, HidTurn
<1>3. CASE Hidraw!FindHid
  BY <1>1, <1>3 DEF Hidraw!FindHid, HidLists, HidScan, HidTurn
<1>4. CASE Hidraw!ParseUevent
  <2>1. /\ pc = "parse" /\ i \in Hidraw!Devices /\ UNCHANGED <<root, next, i, fields, misuse>>
    BY <1>4 DEF Hidraw!ParseUevent, HidAt, HidTurn
  <2>2. HidList' = HidList /\ \A e : HidIn(e)' <=> HidIn(e)
    BY <2>1, HidListSame
  <2>3. CASE pc' = "crashed"
    BY <2>1, <2>3 DEF HidHeld, HidLists, HidScan, HidTurn
  <2>4. CASE pc' # "crashed"
    <3>1. heap' = heap \cup Hidraw!UeventBlocks(i) /\ pc' \in {"add", "next"}
      BY <1>4, <2>4 DEF Hidraw!ParseUevent
    <3>2. /\ Hidraw!UeventBlocks(i) \subseteq HidBlocks
          /\ \A x \in Hidraw!UeventBlocks(i) : x[1] = i /\ x[2] \in HidStrings
      BY <2>1 DEF Hidraw!UeventBlocks, Hidraw!Blocks, HidBlocks, HidStrings
    <3>3. \A x \in HidBlocks : x[2] \in HidFields => (x \in heap' <=> x \in heap)
      BY <3>1, <3>2, HidNames
    <3>4. \A x \in heap' : x[2] \in HidStrings => x[1] = i
      BY <2>1, <3>1, <3>2 DEF HidHeld, HidLists, HidScan, HidTurn
    <3> QED
      BY <2>1, <2>2, <3>1, <3>3, <3>4 DEF HidHeld, HidLists, HidScan, HidTurn
  <2> QED
    BY <2>3, <2>4
<1>5. CASE Hidraw!AddEntry
  <2>1. /\ pc = "add" /\ i \in Hidraw!Devices /\ UNCHANGED <<i, misuse, kind>>
        /\ pc' \in {"usb", "next"}
    BY <1>5, HidAdds
  <2>2. CASE ~Hidraw!VendorFits(i)
    BY <1>1, <1>5, <2>1, <2>2, HidAdds DEF HidLists, HidScan, HidTurn
  <2>3. CASE Hidraw!VendorFits(i)
    <3>1. /\ Len(HidList') = Len(HidList) + 1
          /\ HidList'[Len(HidList) + 1] = i
          /\ \A k \in 1 .. Len(HidList) : HidList'[k] = HidList[k]
          /\ \A e : HidIn(e)' <=> HidIn(e) \/ e = i
          /\ ~HidIn(i) /\ (pc' = "usb" <=> kind[i].bus = "usb")
      BY <1>5, <2>3, HidAdds
    <3>2. PICK own \in SUBSET HidFields :
             /\ own = {"node", "path", "serial"} \cup
                   (IF kind[i].bus = "usb" THEN {} ELSE {"manufacturer", "product"})
             /\ fields' = [fields EXCEPT ![i] = own]
             /\ heap' = heap \cup Hidraw!Blocks(i, own)
      BY <1>5, <2>3, HidAdds
    <3>3. fields'[i] = own /\ \A e \in Hidraw!Devices : e # i => fields'[e] = fields[e]
      BY <1>0, <2>1, <3>2
    <3>4. \A x \in HidBlocks : x[2] \in HidFields =>
             (x \in heap' <=> (HidIn(x[1]) /\ x[2] \in fields[x[1]]) \/ (x[1] = i /\ x[2] \in own))
      BY <2>1, <3>2, HidBlock DEF HidHeld, HidLists, HidScan, HidTurn
    <3>5. \A x \in HidBlocks : x[2] \in HidFields =>
             (x \in heap' <=> HidIn(x[1])' /\ x[2] \in fields'[x[1]])
      BY <3>1, <3>3, <3>4, HidNames
    <3>6. Hidraw!Blocks(i, own) \subseteq HidBlocks
      BY <2>1 DEF Hidraw!Blocks, HidBlocks
    <3>7. \A x \in heap' : x[2] \in HidStrings => x[1] = i
      <4>1. \A x \in Hidraw!Blocks(i, own) : x[2] \notin HidStrings
        BY <3>6, HidBlock, HidNames
      <4> QED
        BY <2>1, <3>2, <4>1 DEF HidHeld, HidLists, HidScan, HidTurn
    <3>8. \A k \in 1 .. Len(HidList') : {"node", "path", "serial"} \subseteq fields'[HidList'[k]]
      <4>1. Len(HidList) \in Nat /\ \A k \in 1 .. Len(HidList) : HidList[k] \in Hidraw!Devices
        BY <2>1, HidListFacts DEF HidLists, HidScan, HidTurn
      <4>2. \A k \in 1 .. Len(HidList') : k \in 1 .. Len(HidList) \/ k = Len(HidList) + 1
        BY <3>1, <4>1
      <4>3. \A k \in 1 .. Len(HidList) : HidList[k] # i
        BY <3>1 DEF HidIn
      <4>4. \A k \in 1 .. Len(HidList) : {"node", "path", "serial"} \subseteq fields[HidList[k]]
        BY <2>1 DEF HidHeld, HidLists, HidScan, HidTurn
      <4>5. \A k \in 1 .. Len(HidList) : fields'[HidList'[k]] = fields[HidList[k]]
        BY <3>1, <3>3, <4>1, <4>3
      <4>6. {"node", "path", "serial"} \subseteq own
        BY <3>2
      <4> QED
        BY <3>1, <3>3, <4>2, <4>4, <4>5, <4>6
    <3>9. pc' = "usb" => fields'[i] = {"node", "path", "serial"}
      BY <3>1, <3>2, <3>3
    <3> QED
      BY <2>1, <3>5, <3>7, <3>8, <3>9 DEF HidHeld
  <2> QED
    BY <2>2, <2>3
<1>6. CASE Hidraw!FindUsb
  <2>1. /\ pc = "usb" /\ pc' = "next" /\ i \in Hidraw!Devices /\ UNCHANGED <<i, misuse>>
        /\ \A k \in 1 .. Len(HidList) : {"node", "path", "serial"} \subseteq fields[HidList[k]]
        /\ \A x \in heap : x[2] \in HidStrings => x[1] = i
        /\ \A x \in HidBlocks : x[2] \in HidFields =>
               (x \in heap <=> HidIn(x[1]) /\ x[2] \in fields[x[1]])
        /\ fields[i] = {"node", "path", "serial"}
    BY <1>6, HidFindsUsb DEF HidHeld, HidLists, HidScan, HidTurn
  <2>2. /\ Len(HidList) \in Nat /\ HidIn(i)
        /\ \A k \in 1 .. Len(HidList) : HidList[k] \in Hidraw!Devices
    <3>1. Len(HidList) > 0 /\ HidList[Len(HidList)] = i /\ Len(HidList) \in Nat
          /\ \A k \in 1 .. Len(HidList) : HidList[k] \in Hidraw!Devices
      BY <2>1, HidListFacts DEF HidLinked, HidLists, HidScan, HidTurn
    <3>2. Len(HidList) \in 1 .. Len(HidList)
      BY <3>1, Indices
    <3> QED
      BY <3>1, <3>2 DEF HidIn
  <2>3. ASSUME NEW own \in SUBSET HidFields, fields' = [fields EXCEPT ![i] = fields[i] \cup own],
               heap' = heap \cup Hidraw!Blocks(i, own), UNCHANGED <<root, next>>
        PROVE  HidHeld'
    <3>1. HidList' = HidList /\ \A e : HidIn(e)' <=> HidIn(e)
      BY <2>3, HidListSame
    <3>2. fields'[i] = fields[i] \cup own /\ \A e \in Hidraw!Devices : e # i => fields'[e] = fields[e]
      BY <1>0, <2>1, <2>3
    <3>3. \A x \in HidBlocks : x[2] \in HidFields =>
             (x \in heap' <=> (HidIn(x[1]) /\ x[2] \in fields[x[1]]) \/ (x[1] = i /\ x[2] \in own))
      BY <2>1, <2>3, HidBlock
    <3>4. \A x \in HidBlocks : x[2] \in HidFields =>
             (x \in heap' <=> HidIn(x[1])' /\ x[2] \in fields'[x[1]])
      BY <2>2, <3>1, <3>2, <3>3, HidNames
    <3>5. \A x \in heap' : x[2] \in HidStrings => x[1] = i
      <4>1. Hidraw!Blocks(i, own) \subseteq HidBlocks
        BY <2>1 DEF Hidraw!Blocks, HidBlocks
      <4>2. \A x \in Hidraw!Blocks(i, own) : x[2] \notin HidStrings
        BY <4>1, HidBlock, HidNames
      <4> QED
        BY <2>1, <2>3, <4>2
    <3>6. \A k \in 1 .. Len(HidList') : {"node", "path", "serial"} \subseteq fields'[HidList'[k]]
      BY <2>1, <2>2, <3>1, <3>2
    <3> QED
      BY <2>1, <3>4, <3>5, <3>6 DEF HidHeld
  <2>4. ASSUME UNCHANGED fields, Len(HidList') = Len(HidList) - 1,
               \A k \in 1 .. Len(HidList') : HidList'[k] = HidList[k],
               \A e : HidIn(e)' <=> HidIn(e) /\ e # i,
               heap' = heap \ Hidraw!Blocks(i, {"node", "path", "serial"})
        PROVE  HidHeld'
    <3>1. \A x \in HidBlocks : x[2] \in HidFields =>
             (x \in heap' <=> HidIn(x[1])' /\ x[2] \in fields'[x[1]])
      BY <2>1, <2>2, <2>4, HidBlock
    <3>2. \A x \in heap' : x[2] \in HidStrings => x[1] = i
      BY <2>1, <2>4
    <3>3. \A k \in 1 .. Len(HidList') : k \in 1 .. Len(HidList)
      BY <2>2, <2>4
    <3>4. \A k \in 1 .. Len(HidList') : {"node", "path", "serial"} \subseteq fields'[HidList'[k]]
      BY <2>1, <2>4, <3>3
    <3> QED
      BY <2>1, <3>1, <3>2, <3>4 DEF HidHeld
  <2> QED
    BY <1>6, <2>3, <2>4, HidFindsUsb
<1>7. CASE Hidraw!NextDevice
  <2>1. /\ pc = "next" /\ pc' = "take" /\ UNCHANGED <<root, next, fields>>
        /\ heap' = heap \ (heap \cap Hidraw!Blocks(i, HidStrings))
        /\ misuse' = (misuse \/ ~(heap \cap Hidraw!Blocks(i, HidStrings) \subseteq heap))
    <3>1. {"name_utf8", "serial_utf8"} = HidStrings
      BY DEF HidStrings
    <3> QED
      BY <1>7, <3>1 DEF Hidraw!NextDevice, Hidraw!Free
  <2>2. HidList' = HidList /\ \A e : HidIn(e)' <=> HidIn(e)
    BY <2>1, HidListSame
  <2>3. \A x \in HidBlocks : x[2] \in HidFields => (x \in heap' <=> x \in heap)
    BY <2>1, HidBlock, HidNames
  <2>4. \A x \in heap' : x[2] \notin HidStrings
    BY <1>0, <2>1, HidBlock DEF HidHeld, HidLists, HidScan, HidTurn
  <2>5. misuse' = FALSE
    BY <2>1 DEF HidHeld
  <2> QED
    BY <2>1, <2>2, <2>3, <2>4, <2>5 DEF HidHeld, HidLists, HidScan, HidTurn
<1>8. CASE Hidraw!EndEnumerate
  BY <1>1, <1>8 DEF Hidraw!EndEnumerate, HidLists, HidScan, HidTurn
<1>9. CASE Hidraw!Choose
  BY <1>1, <1>9 DEF Hidraw!Choose, HidLists, HidScan, HidTurn
<1>10. CASE Hidraw!OpenPath
  <2>1. /\ pc = "open" /\ pc' = "free" /\ UNCHANGED <<root, next, i, fields, heap>>
        /\ misuse' = (misuse \/ (path # 0 /\ <<path, "path">> \notin heap))
    BY <1>10 DEF Hidraw!OpenPath
  <2>2. path # 0 => <<path, "path">> \in heap
    <3> SUFFICES ASSUME path # 0 PROVE <<path, "path">> \in heap
      OBVIOUS
    <3>1. HidIn(path) /\ path \in Hidraw!Devices
      BY <2>1, HidListFacts DEF HidChosen, HidLists
    <3>2. "path" \in fields[path]
      BY <2>1, <3>1 DEF HidHeld, HidIn, HidLists
    <3>3. <<path, "path">> \in HidBlocks /\ "path" \in HidFields
      BY <3>1 DEF HidBlocks, HidFields
    <3>4. <<path, "path">>[1] = path /\ <<path, "path">>[2] = "path"
      OBVIOUS
    <3> QED
      BY <2>1, <3>1, <3>2, <3>3, <3>4 DEF HidHeld, HidLists
  <2>3. misuse' = misuse
    BY <2>1, <2>2 DEF HidHeld
  <2> QED
    BY <1>1, <2>1, <2>3 DEF HidLists, HidScan, HidTurn
<1>11. CASE Hidraw!FreeEnumeration
  <2>1. /\ pc \in {"listed", "free"} /\ pc' \in {"done", "opened"}
        /\ heap' = heap \ Hidraw!BlocksOf(HidList)
        /\ misuse' = (misuse \/ ~(Hidraw!BlocksOf(HidList) \subseteq heap))
    BY <1>11 DEF Hidraw!FreeEnumeration, Hidraw!Free, HidList
  <2>2. /\ DOMAIN HidList = 1 .. Len(HidList)
        /\ \A k \in 1 .. Len(HidList) : HidList[k] \in Hidraw!Devices
    BY <2>1, HidListFacts DEF HidLists
  <2>3. \A x : x \in Hidraw!BlocksOf(HidList) <=>
           \E k \in 1 .. Len(HidList) : x \in Hidraw!Blocks(HidList[k], fields[HidList[k]])
    BY <2>2 DEF Hidraw!BlocksOf
  <2>4. \A k \in 1 .. Len(HidList) : Hidraw!Blocks(HidList[k], fields[HidList[k]]) \subseteq HidBlocks
    BY <1>0, <2>2 DEF Hidraw!Blocks, HidBlocks
  <2>5. \A x \in HidBlocks : x \in Hidraw!BlocksOf(HidList) <=> HidIn(x[1]) /\ x[2] \in fields[x[1]]
    BY <2>3, HidBlock DEF HidIn
  <2>6. \A x \in heap : x[2] \in HidFields
    BY <1>0, <2>1, HidNames DEF HidHeld, HidLists
  <2>7. \A x \in heap : x \in Hidraw!BlocksOf(HidList)
    BY <1>0, <2>1, <2>5, <2>6 DEF HidHeld, HidLists
  <2>8. \A x \in Hidraw!BlocksOf(HidList) : x \in HidBlocks
    BY <2>3, <2>4
  <2>9. \A x \in Hidraw!BlocksOf(HidList) : x[2] \in HidFields
    BY <1>0, <2>5, <2>8, HidNames
  <2>10. \A x \in Hidraw!BlocksOf(HidList) : x \in heap
    BY <2>1, <2>5, <2>8, <2>9 DEF HidHeld, HidLists
  <2>11. heap' = {} /\ misuse' = FALSE
    BY <2>1, <2>7, <2>10 DEF HidHeld
  <2> QED
    BY <2>1, <2>11 DEF HidHeld, HidLists, HidScan, HidTurn
<1>12. CASE Hidraw!GetString \/ Hidraw!Close
  BY <1>12 DEF Hidraw!GetString, Hidraw!Close, HidHeld, HidLists, HidScan, HidTurn
<1>13. ASSUME NEW e \in Hidraw!Devices, Hidraw!Unplug(e) PROVE HidHeld'
  BY <1>1, <1>13 DEF Hidraw!Unplug
<1> QED
  BY <1>2, <1>3, <1>4, <1>5, <1>6, <1>7, <1>8, <1>9, <1>10, <1>11, <1>12, <1>13
     DEF Hidraw!Next, Hidraw!Program

LEMMA HidKnown ==
    ASSUME UNCHANGED <<kind, caller>>
    PROVE  \A e : /\ Hidraw!Listable(e)' <=> Hidraw!Listable(e)
                  /\ Hidraw!Fits(e)' <=> Hidraw!Fits(e)
BY DEF Hidraw!Listable, Hidraw!Fits, Hidraw!UeventFound, Hidraw!VendorFits

LEMMA HidMadeKept ==
    ASSUME HidTyped, HidAt, HidLinked, HidHeld, HidMade, Hidraw!Next
    PROVE  HidMade'
<1> USE DEF Hidraw!memory, Hidraw!enumeration, Hidraw!opening
<1>1. ASSUME UNCHANGED <<root, next, i, kind, caller>>, plugged' \subseteq plugged,
             pc' \in HidLists => pc \in HidLists,
             pc = "usb" /\ pc' \in HidLists => pc' = "usb",
             pc' = "next" => pc = "next" \/ ~(i \in plugged /\ Hidraw!Listable(i))
      PROVE  HidMade'
  <2>1. /\ \A e : HidIn(e)' <=> HidIn(e)
        /\ \A e : Hidraw!Listable(e)' <=> Hidraw!Listable(e)
    BY <1>1, HidListSame, HidKnown
  <2> QED
    BY <1>1, <2>1 DEF HidMade
<1>2. CASE Hidraw!Take
  <2>1. pc' = "next" => ~(i \in plugged /\ Hidraw!Listable(i))
    BY <1>2 DEF Hidraw!Take, Hidraw!Listable
  <2> QED
    BY <1>1, <1>2, <2>1 DEF Hidraw!Take, HidLists, HidScan, HidTurn
<1>3. CASE Hidraw!FindHid
  <2>1. pc' = "next" => ~(i \in plugged /\ Hidraw!Listable(i))
    BY <1>3 DEF Hidraw!FindHid, Hidraw!Listable
  <2> QED
    BY <1>1, <1>3, <2>1 DEF Hidraw!FindHid, HidLists, HidScan, HidTurn
<1>4. CASE Hidraw!ParseUevent
  <2>1. pc' = "next" => ~(i \in plugged /\ Hidraw!Listable(i))
    BY <1>4 DEF Hidraw!ParseUevent, Hidraw!Listable
  <2> QED
    BY <1>1, <1>4, <2>1 DEF Hidraw!ParseUevent, HidLists, HidScan, HidTurn
<1>5. CASE Hidraw!AddEntry
  <2>1. pc = "add" /\ i \in Hidraw!Devices /\ UNCHANGED <<i, kind, caller, plugged>>
    BY <1>5, HidAdds
  <2>2. CASE ~Hidraw!VendorFits(i)
    <3>1. ~Hidraw!Listable(i)
      BY <2>2 DEF Hidraw!Listable
    <3> QED
      BY <1>1, <1>5, <2>1, <2>2, <3>1, HidAdds DEF HidLists, HidScan, HidTurn
  <2>3. CASE Hidraw!VendorFits(i)
    <3>1. /\ \A e : HidIn(e)' <=> HidIn(e) \/ e = i
          /\ pc' = IF kind[i].bus = "usb" THEN "usb" ELSE "next"
      BY <1>5, <2>3, HidAdds
    <3>2. Hidraw!Listable(i) \/ pc' = "usb"
      BY <2>1, <2>3, <3>1 DEF HidAt, HidTurn, Hidraw!Listable
    <3>3. \A e : Hidraw!Listable(e)' <=> Hidraw!Listable(e)
      BY <2>1, HidKnown
    <3>4. /\ \A e \in Hidraw!Devices : HidIn(e) => Hidraw!Listable(e)
          /\ \A e \in plugged : Hidraw!Listable(e) /\ e < i => HidIn(e)
      BY <2>1 DEF HidMade, HidLists, HidScan, HidTurn
    <3> QED
      BY <2>1, <3>1, <3>2, <3>3, <3>4 DEF HidMade
  <2> QED
    BY <2>2, <2>3
<1>6. CASE Hidraw!FindUsb
  <2>1. /\ pc = "usb" /\ pc' = "next" /\ i \in Hidraw!Devices
        /\ UNCHANGED <<i, kind, caller, plugged>>
    BY <1>6, HidFindsUsb
  <2>2. \A e : Hidraw!Listable(e)' <=> Hidraw!Listable(e)
    BY <2>1, HidKnown
  <2>3. /\ \A e \in Hidraw!Devices : HidIn(e) => Hidraw!Listable(e) \/ e = i
        /\ \A e \in plugged : Hidraw!Listable(e) /\ e < i => HidIn(e)
    BY <2>1 DEF HidMade, HidLists, HidScan, HidTurn
  <2>4. Hidraw!Listable(i) <=> kind[i].usb # "none"
    BY <2>1 DEF HidAt, HidTurn, Hidraw!Listable
  <2>5. HidIn(i)
    <3>1. Len(HidList) > 0 /\ HidList[Len(HidList)] = i /\ Len(HidList) \in Nat
      BY <2>1, HidListFacts DEF HidLinked, HidLists, HidScan, HidTurn
    <3>2. Len(HidList) \in 1 .. Len(HidList)
      BY <3>1, Indices
    <3> QED
      BY <3>1, <3>2 DEF HidIn
  <2>6. CASE i \in plugged /\ kind[i].usb # "none"
    <3>1. UNCHANGED <<root, next>>
      BY <1>6, <2>6, HidFindsUsb
    <3>2. \A e : HidIn(e)' <=> HidIn(e)
      BY <3>1, HidListSame
    <3> QED
      BY <2>1, <2>2, <2>3, <2>4, <2>5, <2>6, <3>2 DEF HidMade
  <2>7. CASE ~(i \in plugged /\ kind[i].usb # "none")
    <3>1. \A e : HidIn(e)' <=> HidIn(e) /\ e # i
      BY <1>6, <2>7, HidFindsUsb
    <3>2. \A e \in plugged : e < i => e # i
      BY <2>1, HidConstants DEF HidTyped
    <3> QED
      BY <2>1, <2>2, <2>3, <2>4, <2>7, <3>1, <3>2 DEF HidMade
  <2> QED
    BY <2>6, <2>7
<1>7. CASE Hidraw!NextDevice
  <2>1. pc = "next" /\ pc' = "take" /\ i' = i + 1 /\ UNCHANGED <<kind, caller, plugged, root, next>>
    BY <1>7 DEF Hidraw!NextDevice
  <2>2. /\ \A e : HidIn(e)' <=> HidIn(e)
        /\ \A e : Hidraw!Listable(e)' <=> Hidraw!Listable(e)
    BY <2>1, HidListSame, HidKnown
  <2>3. \A e \in plugged : e < i + 1 => e < i \/ e = i
    BY HidConstants DEF HidTyped
  <2>4. \A e \in plugged : Hidraw!Listable(e) /\ (e < i \/ e = i) => HidIn(e)
    BY <2>1 DEF HidMade, HidLists, HidScan, HidTurn
  <2>5. \A e \in Hidraw!Devices : HidIn(e) => Hidraw!Listable(e)
    BY <2>1 DEF HidMade, HidLists, HidScan, HidTurn
  <2> QED
    BY <2>1, <2>2, <2>3, <2>4, <2>5 DEF HidMade
<1>8. CASE Hidraw!EndEnumerate
  BY <1>1, <1>8 DEF Hidraw!EndEnumerate, HidLists, HidScan, HidTurn
<1>9. CASE Hidraw!Choose
  BY <1>1, <1>9 DEF Hidraw!Choose, HidLists, HidScan, HidTurn
<1>10. CASE Hidraw!OpenPath
  BY <1>1, <1>10 DEF Hidraw!OpenPath, HidLists, HidScan, HidTurn
<1>11. CASE Hidraw!FreeEnumeration \/ Hidraw!GetString \/ Hidraw!Close
  <2>1. pc' \in {"done", "opened"}
    BY <1>11 DEF Hidraw!FreeEnumeration, Hidraw!GetString, Hidraw!Close
  <2> QED
    BY <2>1 DEF HidMade, HidLists, HidScan, HidTurn
<1>12. ASSUME NEW e \in Hidraw!Devices, Hidraw!Unplug(e) PROVE HidMade'
  <2>1. UNCHANGED <<root, next, i, kind, caller, pc>> /\ plugged' \subseteq plugged
    BY <1>12 DEF Hidraw!Unplug
  <2> QED
    BY <1>1, <2>1
<1> QED
  BY <1>2, <1>3, <1>4, <1>5, <1>6, <1>7, <1>8, <1>9, <1>10, <1>11, <1>12 DEF Hidraw!Next,
     Hidraw!Program

LEMMA HidChosenKept ==
    ASSUME HidTyped, HidAt, HidLinked, HidMade, HidHeld, HidChosen, Hidraw!Next
    PROVE  HidChosen'
<1> USE DEF Hidraw!memory, Hidraw!enumeration, Hidraw!opening
<1>1. ASSUME UNCHANGED <<kind, caller, path, handle>>, plugged' \subseteq plugged,
             pc' \in HidScan \cup {"listed", "choose"} => pc \in HidScan \cup {"listed", "choose"},
             pc' = "open" => pc = "open" /\ UNCHANGED <<root, next>>
      PROVE  HidChosen'
  <2>1. /\ \A e : Hidraw!Listable(e)' <=> Hidraw!Listable(e)
        /\ \A e : Hidraw!Fits(e)' <=> Hidraw!Fits(e)
    BY <1>1, HidKnown
  <2>2. pc' = "open" => \A e : HidIn(e)' <=> HidIn(e)
    BY <1>1, HidListSame
  <2> QED
    BY <1>1, <2>1, <2>2 DEF HidChosen
<1>2. CASE Hidraw!Take \/ Hidraw!FindHid \/ Hidraw!ParseUevent \/ Hidraw!NextDevice \/ Hidraw!EndEnumerate
  <2>1. /\ UNCHANGED <<kind, caller, path, handle, plugged>>
        /\ pc \in HidScan /\ pc' # "open"
    BY <1>2 DEF Hidraw!Take, Hidraw!FindHid, Hidraw!ParseUevent, Hidraw!NextDevice,
       Hidraw!EndEnumerate, HidScan, HidTurn
  <2> QED
    BY <1>1, <2>1
<1>3. CASE Hidraw!AddEntry
  BY <1>1, <1>3, HidAdds DEF HidScan, HidTurn
<1>4. CASE Hidraw!FindUsb
  BY <1>1, <1>4, HidFindsUsb DEF HidScan, HidTurn
<1>5. CASE Hidraw!Choose
  <2>1. /\ pc = "choose" /\ pc' = "open" /\ UNCHANGED <<kind, caller, plugged, root, next, handle>>
        /\ handle = 0
    BY <1>5, HidChooses DEF HidChosen
  <2>2. /\ \A e : Hidraw!Listable(e)' <=> Hidraw!Listable(e)
        /\ \A e : Hidraw!Fits(e)' <=> Hidraw!Fits(e)
        /\ \A e : HidIn(e)' <=> HidIn(e)
    BY <2>1, HidKnown, HidListSame
  <2>3. CASE path' = 0
    BY <2>1, <2>3 DEF HidChosen, HidScan, HidTurn
  <2>4. ASSUME NEW k \in 1 .. Len(HidList), path' = HidList[k], Hidraw!Fits(HidList[k]),
               path' \in Hidraw!Devices,
               \A m \in 1 .. Len(HidList) : Hidraw!Fits(HidList[m]) => HidList[k] <= HidList[m]
        PROVE  HidChosen'
    <3>1. HidIn(path') /\ Hidraw!Listable(path')
      BY <2>1, <2>4 DEF HidMade, HidIn, HidLists
    <3>2. ASSUME NEW e \in plugged, Hidraw!Fits(e), Hidraw!Listable(e) PROVE path' <= e
      <4>1. e < i
        BY <2>1, HidConstants DEF HidAt, HidTyped
      <4>2. HidIn(e)
        BY <2>1, <3>2, <4>1 DEF HidMade, HidLists
      <4> QED
        BY <2>4, <3>2, <4>2 DEF HidIn
    <3>3. path # 0 => path' # 0
      BY <2>1 DEF HidChosen
    <3> QED
      BY <2>1, <2>2, <2>4, <3>1, <3>2 DEF HidChosen, HidScan, HidTurn
  <2> QED
    BY <1>5, <2>3, <2>4, HidChooses
<1>6. CASE Hidraw!OpenPath
  <2>1. /\ pc = "open" /\ pc' = "free" /\ UNCHANGED <<kind, caller, plugged, path>>
        /\ handle' \in {0, path}
    BY <1>6 DEF Hidraw!OpenPath
  <2>2. /\ \A e : Hidraw!Listable(e)' <=> Hidraw!Listable(e)
        /\ \A e : Hidraw!Fits(e)' <=> Hidraw!Fits(e)
    BY <2>1, HidKnown
  <2> QED
    BY <2>1, <2>2 DEF HidChosen, HidScan, HidTurn
<1>7. CASE Hidraw!FreeEnumeration \/ Hidraw!GetString
  <2>1. /\ UNCHANGED <<kind, caller, plugged, path, handle>> /\ pc' \in {"done", "opened"}
    BY <1>7 DEF Hidraw!FreeEnumeration, Hidraw!GetString
  <2> QED
    BY <1>1, <2>1 DEF HidScan, HidTurn
<1>8. CASE Hidraw!Close
  <2>1. /\ pc' = "done" /\ UNCHANGED <<kind, caller, plugged, path>> /\ handle' = 0
    BY <1>8 DEF Hidraw!Close
  <2>2. /\ \A e : Hidraw!Listable(e)' <=> Hidraw!Listable(e)
        /\ \A e : Hidraw!Fits(e)' <=> Hidraw!Fits(e)
    BY <2>1, HidKnown
  <2> QED
    BY <2>1, <2>2 DEF HidChosen, HidScan, HidTurn
<1>9. ASSUME NEW e \in Hidraw!Devices, Hidraw!Unplug(e) PROVE HidChosen'
  <2>1. UNCHANGED <<root, next, kind, caller, pc, path, handle>> /\ plugged' \subseteq plugged
    BY <1>9 DEF Hidraw!Unplug
  <2> QED
    BY <1>1, <2>1
<1> QED
  BY <1>2, <1>3, <1>4, <1>5, <1>6, <1>7, <1>8, <1>9 DEF Hidraw!Next, Hidraw!Program

LEMMA HidSteps == HidInv /\ [Next]_vars => HidInv'
<1> SUFFICES ASSUME HidInv, [Next]_vars, part = "hidraw"
             PROVE  HidInv'
  BY OnlyPart DEF HidInv
<1>1. /\ HidrawNext \/ UNCHANGED vars
      /\ HidTyped /\ HidAt /\ HidLinked /\ HidHeld /\ HidMade /\ HidChosen
  BY OnlyPart DEF HidInv
<1>2. CASE HidrawNext
  <2>1. Hidraw!Next
    BY <1>2 DEF HidrawNext
  <2> QED
    BY <1>1, <2>1, HidTypedKept, HidAtKept, HidLinkedKept, HidHeldKept, HidMadeKept,
       HidChosenKept DEF HidInv
<1>3. CASE UNCHANGED vars
  <2>1. /\ UNCHANGED <<kind, caller, plugged, pc, i, path, handle>>
        /\ UNCHANGED <<root, cur, prev, next, fields, heap, refs, misuse, string>>
    BY <1>3 DEF vars, shared, hidrawOwn
  <2>2. HidList' = HidList /\ \A e : HidIn(e)' <=> HidIn(e)
    BY <2>1, HidListSame
  <2>3. /\ \A e : Hidraw!Listable(e)' <=> Hidraw!Listable(e)
        /\ \A e : Hidraw!Fits(e)' <=> Hidraw!Fits(e)
    BY <2>1, HidKnown
  <2>4. HidTyped'
    BY <1>1, <2>1 DEF HidTyped
  <2>5. HidAt'
    BY <1>1, <2>1 DEF HidAt, Hidraw!UeventFound, Hidraw!VendorFits
  <2>6. HidLinked'
    BY <1>1, <2>1, <2>2 DEF HidLinked, Chained
  <2>7. HidHeld'
    BY <1>1, <2>1, <2>2 DEF HidHeld
  <2>8. HidMade' /\ HidChosen'
    BY <1>1, <2>1, <2>2, <2>3 DEF HidMade, HidChosen
  <2> QED
    BY <2>4, <2>5, <2>6, <2>7, <2>8 DEF HidInv
<1> QED
  BY <1>1, <1>2, <1>3

LEMMA HidFine ==
    ASSUME HidInv, part = "hidraw"
    PROVE  /\ Hidraw!TypeOK /\ Hidraw!ListExact /\ Hidraw!ListSound
           /\ Hidraw!NoMisuse /\ Hidraw!NothingLeft /\ Hidraw!OpensFirst
<1>1. HidTyped /\ HidAt /\ HidLinked /\ HidHeld /\ HidMade /\ HidChosen
  BY DEF HidInv
<1>2. Hidraw!TypeOK
  <2>1. heap \subseteq Hidraw!Devices \X {"node", "path", "serial", "manufacturer", "product",
                                          "serial_utf8", "name_utf8"}
    BY <1>1 DEF HidTyped, HidBlocks, HidFields, HidStrings
  <2>2. misuse \in BOOLEAN
    BY <1>1 DEF HidHeld
  <2>3. {root, cur, prev, path, handle} \subseteq 0 .. HidrawCount
    BY <1>1 DEF HidTyped
  <2> QED
    BY <1>1, <2>1, <2>2, <2>3 DEF Hidraw!TypeOK, HidTyped, HidPcs, HidFields
<1>3. Hidraw!ListExact
  <2> SUFFICES ASSUME pc \in {"listed", "choose"} PROVE Hidraw!ListExact
    BY DEF Hidraw!ListExact
  <2>1. /\ Len(HidList) \in Nat /\ DOMAIN HidList = 1 .. Len(HidList)
        /\ \A e : HidIn(e) => e \in Hidraw!Devices
        /\ Chained(root, next, HidList)
    BY <1>1, HidListFacts DEF HidLists, HidLinked
  <2>2. \A e : e \in {HidList[k] : k \in DOMAIN HidList} <=> HidIn(e)
    BY <2>1 DEF HidIn
  <2>3. {HidList[k] : k \in DOMAIN HidList} \subseteq {e \in Hidraw!Devices : Hidraw!Listable(e)}
    BY <1>1, <2>1, <2>2 DEF HidMade, HidLists
  <2>4. \A e \in plugged : e < i
    BY <1>1, HidConstants DEF HidAt, HidTyped
  <2>5. {e \in plugged : Hidraw!Listable(e)} \subseteq {HidList[k] : k \in DOMAIN HidList}
    BY <1>1, <2>2, <2>4 DEF HidMade, HidLists
  <2>6. \A k \in 2 .. Len(HidList) : k - 1 \in 1 .. Len(HidList) /\ k \in 1 .. Len(HidList) /\ k - 1 < k
    BY <2>1
  <2>7. \A k \in 2 .. Len(HidList) : HidList[k - 1] < HidList[k]
    BY <2>1, <2>6 DEF Chained
  <2> QED
    BY <2>3, <2>5, <2>7 DEF Hidraw!ListExact, HidList
<1>4. Hidraw!ListSound
  <2> SUFFICES ASSUME pc \in {"take", "hid", "parse", "add", "next"} PROVE Hidraw!ListSound
    BY DEF Hidraw!ListSound
  <2>1. /\ Len(HidList) \in Nat /\ DOMAIN HidList = 1 .. Len(HidList)
        /\ \A k \in 1 .. Len(HidList) : HidList[k] \in Hidraw!Devices
        /\ cur = IF Len(HidList) = 0 THEN 0 ELSE HidList[Len(HidList)]
        /\ HidList \in Seq(Hidraw!Devices)
    BY <1>1, HidListFacts DEF HidLists, HidScan, HidTurn, HidLinked, Chained
  <2>2. HidList = <<>> <=> Len(HidList) = 0
    BY <2>1, EmptySeq
  <2>3. ASSUME NEW k \in 1 .. Len(HidList) PROVE <<HidList[k], "node">> \in heap
    <3>1. <<HidList[k], "node">> \in HidBlocks /\ "node" \in HidFields
      BY <2>1 DEF HidBlocks, HidFields
    <3>2. HidIn(HidList[k]) /\ "node" \in fields[HidList[k]]
      BY <1>1 DEF HidIn, HidHeld, HidLists, HidScan, HidTurn
    <3>3. <<HidList[k], "node">>[1] = HidList[k] /\ <<HidList[k], "node">>[2] = "node"
      OBVIOUS
    <3> QED
      BY <1>1, <3>1, <3>2, <3>3 DEF HidHeld, HidLists, HidScan, HidTurn
  <2> QED
    BY <2>1, <2>2, <2>3 DEF Hidraw!ListSound, HidList
<1>5. Hidraw!NoMisuse /\ Hidraw!NothingLeft
  BY <1>1 DEF Hidraw!NoMisuse, Hidraw!NothingLeft, HidHeld, HidAt, HidTurn
<1>6. Hidraw!OpensFirst
  BY <1>1 DEF Hidraw!OpensFirst, HidChosen
<1> QED
  BY <1>2, <1>3, <1>4, <1>5, <1>6

-----------------------------------------------------------------------------
(* The backends and the walks together: one of them runs, and what is kept *)
(* of the others holds as well.                                            *)
AllInv == HidInv /\ WinInv /\ UsbInv /\ DescriptorInv /\ DescriptorWell

LEMMA AllHolds == Spec => []AllInv
<1>1. Init => AllInv
  BY HidInitially, WinInitially, UsbInitially, DescriptorInitially, WellInitially DEF AllInv
<1>2. AllInv /\ [Next]_vars => AllInv'
  BY HidSteps, WinSteps, UsbSteps, DescriptorSteps, WellSteps DEF AllInv
<1> QED
  BY <1>1, <1>2, PTL DEF Spec

(* The variables of the backends and of the walks have their types: every  *)
(* entry, path and string is that of a device, every pointer one to it.    *)
THEOREM TypeOKAlways == Spec => []TypeOK
<1>1. AllInv => TypeOK
  <2> SUFFICES ASSUME AllInv PROVE TypeOK
    OBVIOUS
  <2>1. HidInv /\ WinInv /\ UsbInv /\ DescriptorInv /\ DescriptorWell
    BY DEF AllInv
  <2>2. part = "hidraw" => Hidraw!TypeOK
    BY <2>1, HidFine
  <2>3. part = "win" => Win!TypeOK
    BY <2>1, WinFine
  <2>4. part = "libusb" => Libusb!TypeOK
    BY <2>1, UsbFine
  <2>5. part = "descriptor" => Descriptor!TypeOK
    BY <2>1, WellFine
  <2> QED
    BY <2>2, <2>3, <2>4, <2>5 DEF TypeOK
<1> QED
  BY <1>1, AllHolds, PTL

(* For any number of devices: hid_enumerate of hidraw and libusb returns   *)
(* just the ones that can be listed, those that stayed plugged among them, *)
(* once and in order, although entries are taken off a list of pointers.   *)
(* That of Windows returns only ones that could be opened, those that      *)
(* stayed with their own vendor and serial number; none if no device has a *)
(* driver bound, and all that have one and are wanted if every device has  *)
(* a class.                                                                *)
THEOREM ListExactAlways == Spec => []ListExact
<1>1. AllInv => ListExact
  <2> SUFFICES ASSUME AllInv PROVE ListExact
    OBVIOUS
  <2>1. HidInv /\ WinInv /\ UsbInv
    BY DEF AllInv
  <2>2. part = "hidraw" => Hidraw!ListExact /\ Hidraw!ListSound
    BY <2>1, HidFine
  <2>3. part = "win" => Win!ListExact
    BY <2>1, WinFine
  <2>4. part = "libusb" => Libusb!ListExact
    BY <2>1, UsbFine
  <2> QED
    BY <2>2, <2>3, <2>4 DEF ListExact
<1> QED
  BY <1>1, AllHolds, PTL

(* hid_open of each backend opens a device of the vendor and with the      *)
(* serial number that were asked for, and with libusb one interface of it, *)
(* if no interface has two altsettings of class HID (OneSetting).          *)
THEOREM OpensWantedAlways == Spec => [](OneSetting => OpensWanted)
<1>1. AllInv => (OneSetting => OpensWanted)
  <2> SUFFICES ASSUME AllInv, OneSetting PROVE OpensWanted
    OBVIOUS
  <2>1. HidInv /\ WinInv /\ UsbInv
    BY DEF AllInv
  <2>2. part = "hidraw" => Hidraw!OpensFirst
    BY <2>1, HidFine
  <2>3. part = "win" => Win!OpensWanted
    BY <2>1, WinFine
  <2>4. part = "libusb" => Libusb!OpensOne /\ Libusb!SerialFits
    BY <2>1, UsbFine
  <2> QED
    BY <2>2, <2>3, <2>4 DEF OpensWanted
<1> QED
  BY <1>1, AllHolds, PTL

(* Each backend gives back what it allocated, opened, claimed or started,  *)
(* once, wherever a call failed or the device was unplugged: nothing is    *)
(* freed twice or used after it, nothing of a device that did not open is  *)
(* held, and hid_close releases the rest.                                  *)
THEOREM NothingLeftAlways == Spec => [](OneSetting => NothingLeft)
<1>1. AllInv => (OneSetting => NothingLeft)
  <2> SUFFICES ASSUME AllInv, OneSetting PROVE NothingLeft
    OBVIOUS
  <2>1. HidInv /\ WinInv /\ UsbInv
    BY DEF AllInv
  <2>2. part = "hidraw" => Hidraw!NoMisuse /\ Hidraw!NothingLeft
    BY <2>1, HidFine
  <2>3. part = "win" => Win!OneHandle /\ Win!NothingLeft
    BY <2>1, WinFine
  <2>4. part = "libusb" =>
            Libusb!NullOpensNothing /\ Libusb!CloseReleases /\ Libusb!CountsNumber
    BY <2>1, UsbFine
  <2> QED
    BY <2>2, <2>3, <2>4 DEF NothingLeft
<1> QED
  BY <1>1, AllHolds, PTL

=============================================================================
