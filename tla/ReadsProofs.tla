----------------------------- MODULE ReadsProofs ------------------------------
(***************************************************************************)
(* Proofs about the reads of one device (MCCalls): with Windows, macOS and *)
(* libusb, that the last two keep what ReportQueue promises, and, of       *)
(* ReportQueue itself, what follows from that for any capacity.            *)
(***************************************************************************)
EXTENDS MCCalls, SequenceTheorems, TLAPS

-----------------------------------------------------------------------------
(* The queue keeps the newest reports.                                     *)
LEMMA NewestFits ==
  ASSUME NEW n \in Nat, NEW m \in Nat, NEW s \in Seq(1 .. m), Len(s) <= n + 2, NEW r \in 1 .. m,
         NEW t, t = IF Len(Append(s, r)) > n + 2 THEN Tail(Append(s, r)) ELSE Append(s, r)
  PROVE  t \in Seq(1 .. m) /\ Len(t) <= n + 2
<1>1. Append(s, r) \in Seq(1 .. m) /\ Len(Append(s, r)) = Len(s) + 1 /\ Len(s) \in Nat
  BY AppendProperties, LenProperties
<1>2. CASE Len(Append(s, r)) > n + 2
  <2>1. Append(s, r) # <<>>
    BY <1>1, EmptySeq
  <2>2. Tail(Append(s, r)) \in Seq(1 .. m) /\ Len(Tail(Append(s, r))) = Len(Append(s, r)) - 1
    BY <1>1, <2>1, HeadTailProperties
  <2> QED
    BY <1>1, <1>2, <2>2
<1>3. CASE ~(Len(Append(s, r)) > n + 2)
  BY <1>1, <1>3
<1> QED
  BY <1>2, <1>3

LEMMA TakenFits ==
  ASSUME NEW n \in Nat, NEW m \in Nat, NEW s \in Seq(1 .. m), Len(s) <= n + 2, s # <<>>
  PROVE  /\ Head(s) \in 1 .. m
         /\ Tail(s) \in Seq(1 .. m) /\ Len(Tail(s)) <= n + 2
<1>1. /\ Head(s) = s[1] /\ Tail(s) \in Seq(1 .. m) /\ Len(Tail(s)) = Len(s) - 1
      /\ Len(s) \in Nat
  BY HeadTailProperties, LenProperties
<1>2. Len(s) # 0
  BY EmptySeq
<1>3. s[1] \in 1 .. m
  BY <1>1, <1>2, ElementOfSeq
<1> QED
  BY <1>1, <1>3

-----------------------------------------------------------------------------
(* Reads with Windows.  What was handed out is older than what waits in    *)
(* the buffer of the device, and that than what the kernel keeps.          *)
WinReportsFit ==
    /\ ring \in Seq(1 .. WinReports) /\ Len(ring) <= RingSize
    /\ \A i \in 1 .. Len(ring) : ring[i] \in 1 .. arrived
    /\ dropped \subseteq 1 .. arrived
    /\ taken \in Seq(1 .. arrived)

WinTyped ==
    /\ pc \in {"idle", "wait", "get"}
    /\ blocking \in BOOLEAN /\ milliseconds \in {-1, 0}
    /\ read_pending \in BOOLEAN /\ event \in BOOLEAN
    /\ read_buf \in 0 .. WinReports
    /\ io \in {"none", "pending", "done", "error"}
    /\ gone \in BOOLEAN
    /\ arrived \in 0 .. WinReports
    /\ WinReportsFit
    /\ io = "pending" => ring = <<>>
    /\ io = "done" => read_buf \in 1 .. arrived
    /\ started = IF io = "pending" THEN 1 ELSE 0
    /\ read_pending = (io # "none")

InOrder ==
    /\ \A k \in 1 .. Len(taken) - 1 : taken[k] < taken[k + 1]
    /\ \A i \in 1 .. Len(ring) : \A j \in 1 .. Len(ring) : i < j => ring[i] < ring[j]
    /\ \A k \in 1 .. Len(taken) :
          /\ io = "done" => taken[k] < read_buf
          /\ \A i \in 1 .. Len(ring) : taken[k] < ring[i]
    /\ io = "done" => \A i \in 1 .. Len(ring) : read_buf < ring[i]

Kept ==
    \A r \in 1 .. arrived :
        \/ \E k \in 1 .. Len(taken) : taken[k] = r
        \/ io = "done" /\ read_buf = r
        \/ \E i \in 1 .. Len(ring) : ring[i] = r
        \/ r \in dropped

WinInv == part = "win" => WinTyped /\ InOrder /\ Kept

LEMMA WinConstants == RingSize \in Nat \ {0} /\ WinReports \in Nat
BY CallsAssumption DEF Win!WinReaderAssumption

LEMMA WinInitially == Init => WinInv
<1> SUFFICES ASSUME WinInit PROVE WinInv
  BY DEF Init, TransportInit, OperationsInit, BuildInit, WireInit, LibusbInit, MacInit,
         WinInv
<1>1. Win!Init
  BY DEF WinInit
<1> USE <1>1, WinConstants
<1>2. Len(ring) = 0 /\ Len(taken) = 0 /\ ring = <<>> /\ taken = <<>> /\ arrived = 0
  BY DEF Win!Init
<1>3. WinReportsFit
  <2>1. <<>> \in Seq(1 .. WinReports) /\ <<>> \in Seq(1 .. arrived)
    BY EmptySeq
  <2> QED
    BY <1>2, <2>1 DEF Win!Init, WinReportsFit
<1>4. InOrder /\ Kept
  BY <1>2 DEF Win!Init, InOrder, Kept
<1>5. WinTyped
  <2>1. read_pending = FALSE /\ io = "none"
    BY DEF Win!Init
  <2>2. read_pending = (io # "none")
    BY <2>1
  <2> QED
    <3>1. /\ pc = "idle" /\ blocking = TRUE /\ milliseconds = -1 /\ event = FALSE
          /\ read_buf = 0 /\ started = 0 /\ gone = FALSE /\ arrived = 0
      BY DEF Win!Init
    <3>2. read_buf \in 0 .. WinReports /\ arrived \in 0 .. WinReports
      BY <3>1
    <3> QED
      BY <1>3, <2>1, <2>2, <3>1, <3>2 DEF WinTyped
<1> QED
  BY <1>4, <1>5 DEF WinInv

LEMMA WinStutter ==
  ASSUME WinInv, UNCHANGED <<part, Win!vars>>
  PROVE  WinInv'
BY DEF WinInv, Win!vars, WinTyped, WinReportsFit, InOrder, Kept

(* A read begins, with a report of the ring if there is one.               *)
LEMMA WinStartRead ==
  ASSUME WinTyped, InOrder, Kept, NEW ms \in {-1, 0},
         pc = "idle", ~read_pending, Win!StartRead(ms),
         UNCHANGED <<blocking, gone, arrived, dropped, taken>>
  PROVE  WinTyped' /\ InOrder' /\ Kept'
<1> USE WinConstants
<1>1. io = "none" /\ started = 0
  BY DEF WinTyped
<1>2. CASE gone \/ ring = <<>>
  <2>1. /\ UNCHANGED ring /\ io' \in {"none", "pending"} /\ read_buf' = 0
        /\ event' \in BOOLEAN /\ milliseconds' = ms /\ pc' \in {"idle", "wait", "get"}
        /\ read_pending' \in BOOLEAN /\ read_pending' = (io' # "none")
        /\ io' = "pending" => ring = <<>>
        /\ started' = IF io' = "pending" THEN 1 ELSE 0
    <3>1. CASE gone
      <4>1. /\ UNCHANGED <<ring, io, started>> /\ read_buf' = 0 /\ event' = FALSE
            /\ milliseconds' = ms /\ pc' = "idle" /\ read_pending' = FALSE
        BY <3>1 DEF Win!StartRead, Win!AfterFailure
      <4> QED
        BY <1>1, <4>1
    <3>2. CASE ~gone /\ ring = <<>>
      <4>1. /\ ring' = ring /\ io' = "pending" /\ started' = started + 1
            /\ read_buf' = 0 /\ event' = FALSE
            /\ milliseconds' = ms /\ pc' \in {"wait", "get"} /\ read_pending' = TRUE
        BY <3>2 DEF Win!StartRead, Win!Limited
      <4> QED
        <5>1. read_pending' = (io' # "none")
          BY <4>1
        <5>2. started' = IF io' = "pending" THEN 1 ELSE 0
          BY <1>1, <4>1
        <5> QED
          BY <3>2, <4>1, <5>1, <5>2
    <3> QED
      BY <1>2, <3>1, <3>2
  <2>2. WinReportsFit'
    BY <2>1 DEF WinReportsFit, WinTyped
  <2>3. WinTyped'
    BY <1>1, <2>1, <2>2 DEF WinTyped
  <2>4. InOrder' /\ Kept'
    BY <1>1, <2>1 DEF InOrder, Kept
  <2> QED
    BY <2>3, <2>4
<1>3. CASE ~gone /\ ring # <<>>
  <2>1. /\ ring \in Seq(1 .. WinReports) /\ Len(ring) \in Nat \ {0} /\ Len(ring) <= RingSize
        /\ Head(ring) = ring[1]
        /\ Tail(ring) \in Seq(1 .. WinReports) /\ Len(Tail(ring)) = Len(ring) - 1
        /\ \A i \in 1 .. Len(ring) - 1 : Tail(ring)[i] = ring[i + 1]
    BY <1>3, HeadTailProperties, EmptySeq DEF WinTyped, WinReportsFit
  <2>2. /\ ring' = Tail(ring) /\ read_buf' = ring[1] /\ io' = "done" /\ read_pending' = TRUE
        /\ started' = started /\ event' = TRUE /\ pc' \in {"wait", "get"}
        /\ milliseconds' = ms
    <3>1. started' = started + 0
      BY <1>3 DEF Win!StartRead
    <3>2. /\ ring' = Tail(ring) /\ read_buf' = Head(ring) /\ io' = "done"
          /\ read_pending' = TRUE /\ event' = TRUE /\ pc' \in {"wait", "get"}
          /\ milliseconds' = ms
      BY <1>3, Zenon DEF Win!StartRead, Win!Limited
    <3> QED
      BY <1>1, <2>1, <3>1, <3>2
  <2>3. ring[1] \in 1 .. arrived /\ arrived \in 0 .. WinReports
    BY <2>1 DEF WinTyped, WinReportsFit
  <2>4. WinTyped'
    <3>1. WinReportsFit'
      BY <2>1, <2>2 DEF WinTyped, WinReportsFit
    <3> QED
      <4>1. read_pending' = (io' # "none")
        BY <2>2
      <4>2. pc' \in {"idle", "wait", "get"} /\ read_buf' \in 0 .. WinReports
            /\ read_buf' \in 1 .. arrived
        BY <2>2, <2>3
      <4> QED
        BY <1>1, <2>2, <3>1, <4>1, <4>2 DEF WinTyped
  <2>5. InOrder'
    BY <2>1, <2>2, <2>3 DEF InOrder
  <2>6. \A i \in 1 .. Len(ring) : i = 1 \/ (i - 1 \in 1 .. Len(ring') /\ ring'[i - 1] = ring[i])
    BY <2>1, <2>2
  <2>7. Kept'
    <3> SUFFICES ASSUME NEW r \in 1 .. arrived
                 PROVE  \/ \E k \in 1 .. Len(taken) : taken[k] = r
                        \/ read_buf' = r
                        \/ \E i \in 1 .. Len(ring') : ring'[i] = r
                        \/ r \in dropped
      BY <2>2 DEF Kept
    <3>1. ASSUME NEW i \in 1 .. Len(ring), ring[i] = r
          PROVE  read_buf' = r \/ \E j \in 1 .. Len(ring') : ring'[j] = r
      BY <2>2, <2>6, <3>1
    <3> QED
      BY <1>1, <3>1 DEF Kept
  <2> QED
    BY <2>4, <2>5, <2>7
<1> QED
  BY <1>2, <1>3

LEMMA WinCall ==
  ASSUME WinTyped, InOrder, Kept, Win!Call
  PROVE  WinTyped' /\ InOrder' /\ Kept'
<1>1. CASE \E b \in BOOLEAN : Win!SetNonblocking(b)
  BY <1>1 DEF Win!SetNonblocking, Win!kernel, WinTyped, WinReportsFit, InOrder, Kept
<1>2. ASSUME NEW ms \in {-1, 0}, Win!ReadTimeout(ms)
      PROVE  WinTyped' /\ InOrder' /\ Kept'
  <2>1. CASE read_pending
    BY <1>2, <2>1
       DEF Win!ReadTimeout, Win!Running, Win!TakeUp, Win!Limited, WinTyped, WinReportsFit, InOrder, Kept
  <2>2. CASE ~read_pending
    BY <1>2, <2>2, WinStartRead DEF Win!ReadTimeout, Win!Running
  <2> QED
    BY <2>1, <2>2
<1> QED
  BY <1>1, <1>2 DEF Win!Call, Win!Read

LEMMA WinReturn ==
  ASSUME WinTyped, InOrder, Kept, Win!Return
  PROVE  WinTyped' /\ InOrder' /\ Kept'
<1>1. CASE Win!Signalled \/ Win!Timeout
  BY <1>1
     DEF Win!Signalled, Win!Timeout, Win!kernel, WinTyped, WinReportsFit, InOrder, Kept
<1>2. CASE Win!GetResult /\ io # "done"
  BY <1>2 DEF Win!GetResult, Win!kernel, WinTyped, WinReportsFit, InOrder, Kept
<1>3. CASE Win!GetResult /\ io = "done"
  <2>1. /\ taken' = Append(taken, read_buf) /\ io' = "none" /\ read_pending' = FALSE /\ pc' = "idle"
        /\ UNCHANGED <<blocking, milliseconds, read_buf, event, started, ring, gone, arrived,
                       dropped>>
    BY <1>3 DEF Win!GetResult, Win!kernel, WinTyped
  <2>2. read_buf \in 1 .. arrived /\ taken \in Seq(1 .. arrived) /\ arrived \in Nat
    BY <1>3 DEF WinTyped, WinReportsFit
  <2>3. /\ taken' \in Seq(1 .. arrived) /\ Len(taken') = Len(taken) + 1
        /\ \A k \in 1 .. Len(taken) : taken'[k] = taken[k]
        /\ taken'[Len(taken) + 1] = read_buf
        /\ Len(taken) \in Nat
    BY <2>1, <2>2, AppendProperties, LenProperties
  <2>4. WinTyped'
    <3>1. WinReportsFit'
      BY <2>1, <2>3 DEF WinTyped, WinReportsFit
    <3> QED
      BY <1>3, <2>1, <3>1 DEF WinTyped
  <2>5. InOrder'
    <3>1. \A k \in 1 .. Len(taken') - 1 : taken'[k] < taken'[k + 1]
      BY <1>3, <2>3 DEF InOrder
    <3>2. \A k \in 1 .. Len(taken') : \A i \in 1 .. Len(ring) : taken'[k] < ring[i]
      BY <1>3, <2>3 DEF InOrder
    <3> QED
      BY <2>1, <3>1, <3>2 DEF InOrder
  <2>6. Kept'
    BY <2>1, <2>3 DEF Kept
  <2> QED
    BY <2>4, <2>5, <2>6
<1> QED
  BY <1>1, <1>2, <1>3 DEF Win!Return

LEMMA WinArrive ==
  ASSUME WinTyped, InOrder, Kept, Win!Arrive
  PROVE  WinTyped' /\ InOrder' /\ Kept'
<1> USE WinConstants
<1>1. /\ arrived' = arrived + 1 /\ arrived \in Nat /\ arrived' <= WinReports
      /\ UNCHANGED <<pc, blocking, milliseconds, read_pending, gone, taken>>
  BY DEF Win!Arrive, WinTyped
<1>2. /\ taken \in Seq(1 .. arrived) /\ Len(taken) \in Nat
      /\ \A k \in 1 .. Len(taken) : taken[k] \in 1 .. arrived
  BY LenProperties, ElementOfSeq DEF WinTyped, WinReportsFit
<1>3. taken' \in Seq(1 .. arrived')
  BY <1>1, <1>2
<1>4. /\ ring \in Seq(1 .. WinReports) /\ Len(ring) \in Nat /\ Len(ring) <= RingSize
      /\ \A i \in 1 .. Len(ring) : ring[i] \in 1 .. arrived
  BY LenProperties DEF WinTyped, WinReportsFit
<1>5. CASE io = "pending"
  <2>1. /\ io' = "done" /\ event' = TRUE /\ read_buf' = arrived' /\ started' = started - 1
        /\ UNCHANGED <<ring, dropped>> /\ ring = <<>>
    BY <1>5 DEF Win!Arrive, WinTyped
  <2>2. WinTyped'
    <3>1. WinReportsFit'
      BY <1>1, <1>3, <1>4, <2>1 DEF WinReportsFit, WinTyped
    <3> QED
      BY <1>1, <1>5, <2>1, <3>1 DEF WinTyped
  <2>3. InOrder'
    BY <1>1, <1>2, <2>1 DEF InOrder
  <2>4. Kept'
    BY <1>1, <1>5, <2>1 DEF Kept
  <2> QED
    BY <2>2, <2>3, <2>4
<1>6. CASE io # "pending"
  <2> DEFINE rest == IF Len(ring) = RingSize THEN Tail(ring) ELSE ring
             d == Len(ring) - Len(rest)
  <2>1. /\ ring' = Append(rest, arrived')
        /\ dropped' = dropped \cup (IF Len(ring) = RingSize THEN {Head(ring)} ELSE {})
        /\ UNCHANGED <<io, event, read_buf, started>>
    BY <1>6 DEF Win!Arrive
  <2>2. /\ rest \in Seq(1 .. WinReports) /\ Len(rest) \in 0 .. RingSize - 1
        /\ d = IF Len(ring) = RingSize THEN 1 ELSE 0
        /\ \A i \in 1 .. Len(rest) : i + d \in 1 .. Len(ring) /\ rest[i] = ring[i + d]
        /\ Len(ring) = RingSize => Head(ring) = ring[1] /\ 1 \in 1 .. Len(ring)
    <3>1. CASE Len(ring) = RingSize
      <4>1. ring # <<>>
        BY <3>1, EmptySeq
      <4>2. /\ Tail(ring) \in Seq(1 .. WinReports) /\ Len(Tail(ring)) = Len(ring) - 1
            /\ \A i \in 1 .. Len(ring) - 1 : Tail(ring)[i] = ring[i + 1]
            /\ Head(ring) = ring[1]
        BY <1>4, <4>1, HeadTailProperties
      <4> QED
        BY <1>4, <3>1, <4>2
    <3>2. CASE Len(ring) # RingSize
      <4>1. rest = ring
        BY <3>2
      <4> HIDE DEF rest
      <4> QED
        BY <1>4, <3>2, <4>1
    <3> QED
      BY <3>1, <3>2
  <2>3. arrived' \in 1 .. WinReports
    BY <1>1
  <2> HIDE DEF rest
  <2>4. /\ ring' \in Seq(1 .. WinReports) /\ Len(ring') = Len(rest) + 1
        /\ \A i \in 1 .. Len(rest) : ring'[i] = rest[i]
        /\ ring'[Len(rest) + 1] = arrived'
    BY <2>1, <2>2, <2>3, AppendProperties
  <2>5. \A i \in 1 .. Len(ring') :
            \/ i = Len(ring') /\ ring'[i] = arrived + 1
            \/ i \in 1 .. Len(rest) /\ ring'[i] = ring[i + d] /\ i + d \in 1 .. Len(ring)
    BY <1>1, <2>2, <2>4
  <2>6. d \in {0, 1}
    BY <2>2
  <2> HIDE DEF d
  <2>7. WinTyped'
    <3>1. dropped' \subseteq 1 .. arrived'
      <4>1. dropped \subseteq 1 .. arrived
        BY DEF WinTyped, WinReportsFit
      <4>2. Len(ring) = RingSize => Head(ring) \in 1 .. arrived
        BY <1>4, <2>2
      <4> QED
        <5>1. 1 .. arrived \subseteq 1 .. arrived'
          BY <1>1
        <5>2. dropped' \subseteq 1 .. arrived
          BY <2>1, <4>1, <4>2
        <5> QED
          BY <5>1, <5>2
    <3>2. \A i \in 1 .. Len(ring') : ring'[i] \in 1 .. arrived'
      BY <1>1, <1>4, <2>5
    <3>3. io' # "pending"
      BY <1>6, <2>1
    <3>4. WinReportsFit'
      BY <1>3, <2>2, <2>4, <3>1, <3>2 DEF WinReportsFit
    <3>5. io = "done" => read_buf \in 1 .. arrived'
      BY <1>1 DEF WinTyped
    <3> QED
      BY <1>1, <2>1, <3>3, <3>4, <3>5 DEF WinTyped
  <2>8. InOrder'
    <3>1. \A i \in 1 .. Len(ring') : \A j \in 1 .. Len(ring') : i < j => ring'[i] < ring'[j]
      <4> SUFFICES ASSUME NEW i \in 1 .. Len(ring'), NEW j \in 1 .. Len(ring'), i < j
                   PROVE  ring'[i] < ring'[j]
        OBVIOUS
      <4>1. i \in 1 .. Len(rest) /\ ring'[i] = ring[i + d] /\ i + d \in 1 .. Len(ring)
        BY <2>2, <2>4, <2>5, SMTT(20)
      <4>2. CASE j = Len(ring') /\ ring'[j] = arrived + 1
        BY <1>1, <1>4, <4>1, <4>2
      <4>3. CASE j \in 1 .. Len(rest) /\ ring'[j] = ring[j + d] /\ j + d \in 1 .. Len(ring)
        <5>1. i + d < j + d
          BY <2>6
        <5> QED
          BY <4>1, <4>3, <5>1 DEF InOrder
      <4> QED
        BY <2>5, <4>2, <4>3
    <3>2. ASSUME NEW k \in 1 .. Len(taken), NEW i \in 1 .. Len(ring')
          PROVE  taken[k] < ring'[i]
      <4>1. taken[k] \in 1 .. arrived
        BY <1>2
      <4>2. CASE ring'[i] = arrived + 1
        BY <1>1, <4>1, <4>2
      <4>3. CASE ring'[i] = ring[i + d] /\ i + d \in 1 .. Len(ring)
        BY <4>3 DEF InOrder
      <4> QED
        BY <2>5, <4>2, <4>3
    <3>3. ASSUME io = "done", NEW i \in 1 .. Len(ring')
          PROVE  read_buf < ring'[i]
      <4>1. read_buf \in 1 .. arrived
        BY <3>3 DEF WinTyped
      <4>2. CASE ring'[i] = arrived + 1
        BY <1>1, <4>1, <4>2
      <4>3. CASE ring'[i] = ring[i + d] /\ i + d \in 1 .. Len(ring)
        BY <3>3, <4>3 DEF InOrder
      <4> QED
        BY <2>5, <4>2, <4>3
    <3> QED
      BY <1>1, <2>1, <3>1, <3>2, <3>3 DEF InOrder
  <2>9. Kept'
    <3> SUFFICES ASSUME NEW r \in 1 .. arrived'
                 PROVE  \/ \E k \in 1 .. Len(taken') : taken'[k] = r
                        \/ io' = "done" /\ read_buf' = r
                        \/ \E i \in 1 .. Len(ring') : ring'[i] = r
                        \/ r \in dropped'
      BY DEF Kept
    <3>1. CASE r = arrived'
      BY <2>2, <2>4, <3>1
    <3>2. ASSUME NEW i \in 1 .. Len(ring), ring[i] = r
          PROVE  r \in dropped' \/ \E j \in 1 .. Len(ring') : ring'[j] = r
      <4>1. CASE i - d \in 1 .. Len(rest)
        <5>1. rest[i - d] = ring[(i - d) + d] /\ (i - d) + d = i
          BY <2>2, <2>6, <4>1
        <5>2. Len(ring') = Len(rest) + 1 /\ Len(rest) \in Nat
          BY <2>2, <2>4
        <5>3. i - d \in 1 .. Len(ring')
          BY <4>1, <5>2
        <5>4. ring'[i - d] = rest[i - d]
          BY <2>4, <4>1
        <5> QED
          BY <3>2, <5>1, <5>3, <5>4
      <4>2. CASE i - d \notin 1 .. Len(rest)
        <5>1. d = 1 /\ i = 1
          BY <1>4, <2>6, <4>2 DEF d
        <5> QED
          BY <2>1, <2>2, <3>2, <5>1
      <4> QED
        BY <4>1, <4>2
    <3>3. CASE r \in 1 .. arrived
      BY <1>1, <2>1, <3>2, <3>3 DEF Kept
    <3> QED
      BY <1>1, <3>1, <3>3
  <2> QED
    BY <2>7, <2>8, <2>9
<1> QED
  BY <1>5, <1>6

LEMMA WinUnplug ==
  ASSUME WinTyped, InOrder, Kept, Win!Unplug
  PROVE  WinTyped' /\ InOrder' /\ Kept'
<1>1. /\ gone' = TRUE /\ ring' = <<>>
      /\ dropped' = dropped \cup {ring[k] : k \in DOMAIN ring}
      /\ UNCHANGED <<pc, blocking, milliseconds, read_pending, read_buf, arrived, taken>>
      /\ \/ io = "pending" /\ io' = "error" /\ event' = TRUE /\ started' = started - 1
         \/ io # "pending" /\ UNCHANGED <<io, event, started>>
  BY DEF Win!Unplug
<1>2. DOMAIN ring = 1 .. Len(ring) /\ Len(ring') = 0 /\ ring' \in Seq(1 .. WinReports)
  BY <1>1, LenProperties, EmptySeq DEF WinTyped, WinReportsFit
<1>3. WinTyped'
  <2>1. WinReportsFit'
    <3>1. {ring[k] : k \in DOMAIN ring} \subseteq 1 .. arrived
      BY <1>2 DEF WinTyped, WinReportsFit
    <3> QED
      <4>1. dropped' \subseteq 1 .. arrived'
        BY <1>1, <3>1 DEF WinTyped, WinReportsFit
      <4>2. Len(ring') <= RingSize /\ taken' \in Seq(1 .. arrived')
        BY <1>1, <1>2, WinConstants DEF WinTyped, WinReportsFit
      <4> QED
        BY <1>2, <4>1, <4>2 DEF WinReportsFit
  <2> QED
    <3>1. read_pending' = (io' # "none")
      BY <1>1 DEF WinTyped
    <3>2. started' = IF io' = "pending" THEN 1 ELSE 0
      BY <1>1 DEF WinTyped
    <3> QED
      BY <1>1, <2>1, <3>1, <3>2 DEF WinTyped
<1>4. InOrder'
  BY <1>1, <1>2 DEF InOrder
<1>5. Kept'
  BY <1>1, <1>2 DEF Kept
<1> QED
  BY <1>3, <1>4, <1>5

LEMMA WinStep ==
  ASSUME WinInv, [Next]_vars
  PROVE  WinInv'
<1> SUFFICES ASSUME part' = "win" PROVE WinInv'
  BY DEF WinInv
<1>1. part = "win"
  BY DEF Next, vars, TransportAlone, OperationsAlone, BuildAlone, WireAlone, LibusbAlone,
         MacAlone, WinAlone
<1>2. CASE Win!Next
  BY <1>1, <1>2, WinCall, WinReturn, WinArrive, WinUnplug DEF Win!Next, WinInv
<1>3. CASE UNCHANGED vars
  BY <1>3, WinStutter DEF vars, shared, winOwn, Win!vars
<1> QED
  BY <1>1, <1>2, <1>3
     DEF Next, TransportAlone, OperationsAlone, BuildAlone, WireAlone, LibusbAlone,
         MacAlone, WinAlone

LEMMA WinFine ==
  ASSUME WinInv, part = "win"
  PROVE  Win!TypeOK /\ Win!NoneLost /\ Win!OneRead
<1>1. WinTyped /\ InOrder /\ Kept
  BY DEF WinInv
<1>2. Win!TypeOK
  BY <1>1 DEF Win!TypeOK, WinTyped, WinReportsFit
<1>3. Win!OneRead
  <2>1. started = 1 => read_pending = TRUE
    <3>1. started = 1 => io = "pending"
      BY <1>1 DEF WinTyped
    <3>2. read_pending = (io # "none")
      BY <1>1 DEF WinTyped
    <3> QED
      BY <3>1, <3>2
  <2>2. started <= 1
    BY <1>1 DEF WinTyped
  <2>3. read_pending <=> io # "none"
    BY <1>1, Zenon DEF WinTyped
  <2> QED
    BY <2>1, <2>2, <2>3, Zenon DEF Win!OneRead
<1>4. Win!NoneLost
  <2>1. /\ taken \in Seq(1 .. arrived) /\ ring \in Seq(1 .. WinReports)
        /\ Len(taken) \in Nat /\ Len(ring) \in Nat
        /\ DOMAIN taken = 1 .. Len(taken) /\ DOMAIN ring = 1 .. Len(ring)
        /\ \A k \in 1 .. Len(taken) : taken[k] \in 1 .. arrived
        /\ \A i \in 1 .. Len(ring) : ring[i] \in 1 .. arrived
        /\ dropped \subseteq 1 .. arrived
    BY <1>1, LenProperties, ElementOfSeq DEF WinTyped, WinReportsFit
  <2>2. \A k \in 2 .. Len(taken) : taken[k - 1] < taken[k]
    <3> SUFFICES ASSUME NEW k \in 2 .. Len(taken) PROVE taken[k - 1] < taken[k]
      OBVIOUS
    <3>1. k - 1 \in 1 .. Len(taken) - 1 /\ (k - 1) + 1 = k
      BY <2>1
    <3>2. taken[k - 1] < taken[(k - 1) + 1]
      BY <1>1, <3>1 DEF InOrder
    <3> QED
      BY <3>1, <3>2
  <2>3. /\ Win!Reports(taken) = {taken[k] : k \in 1 .. Len(taken)}
        /\ Win!Reports(ring) = {ring[i] : i \in 1 .. Len(ring)}
        /\ Win!Buffered = IF io = "done" THEN {read_buf} ELSE {}
    BY <2>1 DEF Win!Reports, Win!Buffered
  <2>4. ASSUME NEW r \in 1 .. arrived
        PROVE  r \in Win!Reports(taken) \cup Win!Buffered \cup Win!Reports(ring) \cup dropped
    BY <1>1, <2>3 DEF Kept
  <2>5. ASSUME NEW r \in Win!Reports(taken) \cup Win!Buffered \cup Win!Reports(ring) \cup dropped
        PROVE  r \in 1 .. arrived
    BY <1>1, <2>1, <2>3 DEF WinTyped
  <2> QED
    BY <2>2, <2>4, <2>5 DEF Win!NoneLost
<1> QED
  BY <1>2, <1>3, <1>4

-----------------------------------------------------------------------------
(* Reads with macOS.  The run loop is set once the thread has come to the  *)
(* first barrier, which one of the two has still to come to ...            *)
MacStarts ==
    /\ thread = "none" => caller = "new" /\ count["start"] = 0
    /\ caller = "new" => thread = "none"
    /\ caller = "created" /\ thread = "start" => count["start"] = 0
    /\ caller # "created" /\ thread = "start" => count["start"] = 1
    /\ thread \notin {"none", "start"} => runLoop

(* ... and so it is with the second.                                       *)
ThreadAtEnd == thread \in {"at shutdown", "ended"}
CallerAtEnd == caller \in {"at shutdown", "join", "freed"}

MacEnds ==
    /\ ThreadAtEnd /\ CallerAtEnd => count["shutdown"] = 0
    /\ ~ThreadAtEnd /\ ~CallerAtEnd => count["shutdown"] = 0
    /\ ThreadAtEnd /\ ~CallerAtEnd => count["shutdown"] = 1
    /\ ~ThreadAtEnd /\ CallerAtEnd => count["shutdown"] = 1

(* When the flags are set no report comes any more.                        *)
MacGone ==
    /\ disconnected => ~plugged
    /\ caller \in {"unregistered", "signal", "at shutdown", "join", "freed"}
          => ~registered \/ disconnected
    /\ caller \in {"signal", "at shutdown", "join", "freed"} => shutdown
    /\ shutdown =>
          \/ thread \in {"wake", "at shutdown", "ended"}
          \/ caller \in {"signal", "at shutdown", "join", "freed", "crashed"}

MacQueue ==
    /\ queue \in Seq(1 .. MaxReports) /\ Len(queue) <= QueueLimit + 2
    /\ arrived \in 0 .. MaxReports /\ taken \in 0 .. MaxReports

MacBarriers ==
    /\ count \in [Mac!Barriers -> 0 .. 1]
    /\ passed \subseteq Mac!Barriers \X {"thread", "caller"}

MacFlags ==
    /\ plugged \in BOOLEAN /\ runLoop \in BOOLEAN /\ signalled \in BOOLEAN
    /\ registered \in BOOLEAN /\ disconnected \in BOOLEAN /\ shutdown \in BOOLEAN
    /\ failed \in BOOLEAN

MacPlaces ==
    /\ thread \in {"none", "start", "loop", "run", "wake",
                   "at start", "at shutdown", "ended"}
    /\ caller \in {"new", "created", "at start", "idle", "waiting", "woken",
                   "unregistered", "signal", "at shutdown", "join", "freed", "crashed"}
    /\ mode \in {"blocking", "timed", "none"}
    /\ closedHandle \in {"no", "in", "out"}

MacScalars == MacFlags /\ MacPlaces

MacTyped == MacScalars /\ MacQueue /\ MacBarriers

MacInv == part = "mac" => MacTyped /\ MacStarts /\ MacEnds /\ MacGone

LEMMA MacConstants == QueueLimit \in Nat /\ MaxReports \in Nat
BY CallsAssumption DEF Mac!MacAssumption

LEMMA MacInitially == Init => MacInv
<1> SUFFICES ASSUME MacInit PROVE MacInv
  BY DEF Init, TransportInit, OperationsInit, BuildInit, WireInit, LibusbInit, MacInit,
         WinInit, MacInv
<1>1. Mac!Init
  BY DEF MacInit
<1> USE <1>1, MacConstants DEF Mac!Init
<1>2. MacTyped
  <2>1. queue \in Seq(1 .. MaxReports) /\ Len(queue) <= QueueLimit + 2
    BY EmptySeq
  <2>2. count \in [Mac!Barriers -> 0 .. 1]
    OBVIOUS
  <2>3. arrived \in 0 .. MaxReports /\ taken \in 0 .. MaxReports
    OBVIOUS
  <2> QED
    BY <2>1, <2>2, <2>3 DEF MacTyped, MacScalars, MacFlags, MacPlaces, MacQueue, MacBarriers
<1>3. MacStarts
  BY DEF MacStarts, Mac!Barriers
<1>4. MacEnds
  BY DEF MacEnds, ThreadAtEnd, CallerAtEnd, Mac!Barriers
<1>5. MacGone
  BY DEF MacGone
<1> QED
  BY <1>2, <1>3, <1>4, <1>5 DEF MacInv

LEMMA MacStutter ==
  ASSUME MacInv, UNCHANGED <<part, Mac!vars>>
  PROVE  MacInv'
BY DEF MacInv, Mac!vars, Mac!flags, Mac!barriers, Mac!history, MacTyped, MacScalars, MacFlags,
       MacPlaces, MacQueue, MacBarriers, MacStarts, MacEnds, ThreadAtEnd, CallerAtEnd, MacGone

(* The barriers: the second to come lets both pass.                        *)
LEMMA MacArrives ==
  ASSUME count \in [Mac!Barriers -> 0 .. 1], passed \subseteq Mac!Barriers \X {"thread", "caller"},
         NEW b \in Mac!Barriers, NEW who \in {"thread", "caller"}, Mac!Arrive(b, who)
  PROVE  /\ count' \in [Mac!Barriers -> 0 .. 1]
         /\ passed' \subseteq Mac!Barriers \X {"thread", "caller"}
         /\ count'[b] = 1 - count[b]
         /\ count[b] = 0 => passed' = passed
         /\ \A c \in Mac!Barriers : c # b =>
               /\ count'[c] = count[c]
               /\ \A w \in {"thread", "caller"} : <<c, w>> \in passed' => <<c, w>> \in passed
<1>1. CASE count[b] = 1
  <2>1. count' = [count EXCEPT ![b] = 0]
    BY <1>1 DEF Mac!Arrive
  <2>2. passed' = passed \cup {<<b, who>>, <<b, Mac!Partner(who)>>}
    BY <1>1 DEF Mac!Arrive
  <2>3. Mac!Partner(who) \in {"thread", "caller"}
    BY DEF Mac!Partner
  <2>4. passed' \subseteq Mac!Barriers \X {"thread", "caller"}
    BY <2>2, <2>3
  <2>5. \A c \in Mac!Barriers : c # b =>
            \A w \in {"thread", "caller"} : <<c, w>> \in passed' => <<c, w>> \in passed
    BY <2>2
  <2> QED
    BY <1>1, <2>1, <2>4, <2>5
<1>2. CASE count[b] # 1
  <2>1. count' = [count EXCEPT ![b] = 1] /\ passed' = passed /\ count[b] = 0
    BY <1>2 DEF Mac!Arrive
  <2> QED
    BY <2>1
<1> QED
  BY <1>1, <1>2

LEMMA MacPasses ==
  ASSUME passed \subseteq Mac!Barriers \X {"thread", "caller"},
         NEW b \in Mac!Barriers, NEW who \in {"thread", "caller"}, Mac!Pass(b, who)
  PROVE  passed' \subseteq passed /\ UNCHANGED count
BY DEF Mac!Pass

LEMMA MacWakeUps ==
  ASSUME passed \subseteq Mac!Barriers \X {"thread", "caller"},
         NEW b \in Mac!Barriers, NEW who \in {"thread", "caller"}, Mac!WakeUp(b, who)
  PROVE  /\ passed' \subseteq Mac!Barriers \X {"thread", "caller"}
         /\ UNCHANGED <<plugged, thread, runLoop, signalled, registered, disconnected, shutdown,
                        queue, count, caller, mode, closedHandle, arrived, taken, failed>>
BY DEF Mac!WakeUp, Mac!flags, Mac!history

LEMMA MacScalarsKept ==
  ASSUME MacScalars, Mac!Next
  PROVE  MacScalars'
<1> USE DEF MacScalars, MacFlags, MacPlaces, Mac!Modes, Mac!flags, Mac!barriers, Mac!history
<1>1. CASE Mac!Unplug
  <2>1. /\ UNCHANGED <<thread, runLoop, signalled, registered, disconnected, shutdown, caller,
                       mode, closedHandle, failed>>
        /\ plugged' = FALSE
    BY <1>1 DEF Mac!Unplug
  <2>2. MacFlags'
    BY <2>1
  <2>3. MacPlaces'
    BY <2>1
  <2> QED
    BY <2>2, <2>3
<1>2. CASE Mac!StartThread \/ Mac!ThreadIsUp \/ Mac!Loop \/ Mac!RunTimeout \/ Mac!EndThread
  BY <1>2
     DEF Mac!StartThread, Mac!ThreadIsUp, Mac!Loop, Mac!RunTimeout, Mac!EndThread
<1>3. CASE Mac!RemovalCallback \/ Mac!RunFinished
  BY <1>3 DEF Mac!RemovalCallback, Mac!RunFinished, Mac!StopsLoop
<1>4. CASE Mac!SignalCallback
  BY <1>4, ZenonT(20) DEF Mac!SignalCallback, Mac!StopsLoop
<1>5. CASE Mac!Broadcast
  BY <1>5 DEF Mac!Broadcast, Mac!Woken, Mac!WakeCaller
<1>6. CASE Mac!ReportCallback
  BY <1>6 DEF Mac!ReportCallback, Mac!WakeCaller
<1>7. CASE Mac!Open \/ Mac!OpenMeet \/ Mac!Opened
  BY <1>7, ZenonT(20) DEF Mac!Open, Mac!OpenMeet, Mac!Opened
<1>8. CASE Mac!ReadOn
  <2>1. /\ UNCHANGED <<plugged, thread, runLoop, signalled, registered, disconnected, shutdown,
                       mode, closedHandle>>
        /\ caller' \in {"idle", "waiting"} /\ (failed' = failed \/ failed' = TRUE)
    BY <1>8 DEF Mac!ReadOn, Mac!ReturnData, Mac!ReturnError
  <2>2. MacFlags'
    BY <2>1
  <2>3. MacPlaces'
    BY <2>1
  <2> QED
    BY <2>2, <2>3
<1>9. ASSUME NEW m \in Mac!Modes, Mac!Read(m)
      PROVE  MacScalars'
  <2>1. /\ UNCHANGED <<plugged, thread, runLoop, signalled, registered, disconnected, shutdown,
                       closedHandle>>
        /\ caller' \in {"idle", "waiting"} /\ (mode' = mode \/ mode' = m)
        /\ failed' = failed \/ failed' = TRUE
    BY <1>9 DEF Mac!Read, Mac!ReturnData, Mac!ReturnError
  <2>2. MacFlags'
    BY <2>1
  <2>3. MacPlaces'
    BY <2>1
  <2> QED
    BY <2>2, <2>3
<1>10. CASE Mac!ReadTimeout
  <2>1. /\ UNCHANGED <<plugged, thread, runLoop, signalled, registered, disconnected, shutdown,
                       mode, closedHandle, failed>>
        /\ caller' \in {"idle", "woken"}
    BY <1>10 DEF Mac!ReadTimeout
  <2>2. MacFlags'
    BY <2>1
  <2>3. MacPlaces'
    BY <2>1
  <2> QED
    BY <2>2, <2>3
<1>11. CASE Mac!CloseUnregister
  <2>1. registered' \in BOOLEAN
    BY <1>11 DEF Mac!CloseUnregister
  <2> QED
    BY <1>11, <2>1, ZenonT(20) DEF Mac!CloseUnregister
<1>12. CASE Mac!CloseFlag \/ Mac!CloseSignal
  <2>1. /\ UNCHANGED <<plugged, thread, runLoop, registered, disconnected, mode, closedHandle,
                       failed>>
        /\ caller' \in {"signal", "at shutdown", "crashed"}
        /\ shutdown' \in {shutdown, TRUE} /\ signalled' \in {signalled, TRUE}
    BY <1>12 DEF Mac!CloseFlag, Mac!CloseSignal, Mac!Signalled, Mac!history
  <2>2. MacFlags'
    BY <2>1
  <2>3. MacPlaces'
    BY <2>1
  <2> QED
    BY <2>2, <2>3
<1>13. CASE Mac!CloseMeet \/ Mac!CloseJoin
  <2>1. /\ UNCHANGED <<plugged, thread, runLoop, signalled, registered, disconnected, shutdown,
                       mode, failed>>
        /\ caller' \in {"join", "freed"} /\ closedHandle' \in {closedHandle, "no", "in", "out"}
    BY <1>13 DEF Mac!CloseMeet, Mac!CloseJoin
  <2>2. MacFlags'
    BY <2>1
  <2>3. MacPlaces'
    BY <2>1
  <2> QED
    BY <2>2, <2>3
<1>14. ASSUME NEW b \in Mac!Barriers, NEW who \in {"thread", "caller"}, Mac!WakeUp(b, who)
       PROVE  MacScalars'
  <2>1. UNCHANGED <<plugged, thread, runLoop, signalled, registered, disconnected, shutdown,
                    caller, mode, closedHandle, failed>>
    BY <1>14 DEF Mac!WakeUp
  <2>2. MacFlags'
    BY <2>1
  <2>3. MacPlaces'
    BY <2>1
  <2> QED
    BY <2>2, <2>3
<1> QED
  BY <1>1, <1>2, <1>3, <1>4, <1>5, <1>6, <1>7, <1>8, <1>9, <1>10, <1>11, <1>12, <1>13, <1>14
     DEF Mac!Next, Mac!ThreadStep, Mac!CloseStep

(* What becomes of the queue.                                              *)
MacEnding == disconnected \/ shutdown => disconnected' \/ shutdown'

LEMMA MacQueues ==
  ASSUME Mac!Next
  PROVE  \/ Mac!Runs /\ Mac!ReportCallback
         \/ Mac!ReturnData /\ UNCHANGED <<arrived, disconnected, shutdown>>
         \/ Mac!ReturnError /\ UNCHANGED <<arrived, disconnected, shutdown>>
         \/ Mac!CloseJoin
         \/ UNCHANGED <<queue, arrived, taken, failed>> /\ MacEnding
<1>1. CASE Mac!ReadOn
  BY <1>1 DEF Mac!ReadOn, Mac!flags, MacEnding
<1>2. ASSUME NEW m \in Mac!Modes, Mac!Read(m)
      PROVE  \/ Mac!ReturnData /\ UNCHANGED <<arrived, disconnected, shutdown>>
             \/ Mac!ReturnError /\ UNCHANGED <<arrived, disconnected, shutdown>>
             \/ UNCHANGED <<queue, arrived, taken, failed>> /\ MacEnding
  BY <1>2 DEF Mac!Read, Mac!flags, MacEnding
<1>3. CASE Mac!ThreadStep
  <2>1. CASE Mac!StartThread \/ Mac!ThreadIsUp \/ Mac!Loop \/ Mac!Broadcast \/ Mac!EndThread
    BY <2>1
       DEF Mac!StartThread, Mac!ThreadIsUp, Mac!Loop, Mac!Broadcast, Mac!EndThread, Mac!history,
           Mac!flags, MacEnding
  <2>2. CASE Mac!RemovalCallback \/ Mac!SignalCallback
    BY <2>2
       DEF Mac!RemovalCallback, Mac!SignalCallback, Mac!StopsLoop, Mac!history, MacEnding
  <2> QED
    BY <1>3, <2>1, <2>2 DEF Mac!ThreadStep
<1>4. CASE Mac!Unplug \/ Mac!RunTimeout \/ Mac!RunFinished \/ Mac!Open \/ Mac!OpenMeet
           \/ Mac!Opened \/ Mac!ReadTimeout \/ Mac!CloseUnregister
  BY <1>4
     DEF Mac!Unplug, Mac!RunTimeout, Mac!RunFinished, Mac!Open, Mac!OpenMeet, Mac!Opened,
         Mac!ReadTimeout, Mac!CloseUnregister, Mac!history, Mac!flags, MacEnding
<1>5. CASE Mac!CloseStep
  BY <1>5
     DEF Mac!CloseStep, Mac!CloseFlag, Mac!CloseSignal, Mac!CloseMeet, Mac!history, Mac!flags,
         MacEnding
<1>6. ASSUME NEW b \in Mac!Barriers, NEW who \in {"thread", "caller"}, Mac!WakeUp(b, who)
      PROVE  UNCHANGED <<queue, arrived, taken, failed>> /\ MacEnding
  BY <1>6 DEF Mac!WakeUp, Mac!history, Mac!flags, MacEnding
<1> QED
  BY <1>1, <1>2, <1>3, <1>4, <1>5, <1>6 DEF Mac!Next

LEMMA MacQueueKept ==
  ASSUME MacQueue, Mac!Next
  PROVE  MacQueue'
<1> USE MacConstants
<1>1. CASE Mac!ReportCallback
  <2>1. arrived' \in 1 .. MaxReports /\ UNCHANGED taken
    BY <1>1 DEF Mac!ReportCallback, MacQueue
  <2>2. queue' = IF Len(Append(queue, arrived')) > QueueLimit + 2
                 THEN Tail(Append(queue, arrived')) ELSE Append(queue, arrived')
    BY <1>1 DEF Mac!ReportCallback, Mac!Queued, Mac!KeepNewest
  <2>3. queue' \in Seq(1 .. MaxReports) /\ Len(queue') <= QueueLimit + 2
    BY <2>1, <2>2, NewestFits DEF MacQueue
  <2> QED
    BY <2>1, <2>3 DEF MacQueue
<1>2. CASE Mac!ReturnData /\ UNCHANGED arrived
  <2>1. queue # <<>> /\ taken' = Head(queue) /\ queue' = Tail(queue)
    BY <1>2 DEF Mac!ReturnData
  <2>2. taken' \in 1 .. MaxReports /\ queue' \in Seq(1 .. MaxReports)
        /\ Len(queue') <= QueueLimit + 2
    BY <2>1, TakenFits DEF MacQueue
  <2> QED
    BY <1>2, <2>2 DEF MacQueue
<1>3. CASE Mac!CloseJoin
  <2>1. queue' = <<>> /\ UNCHANGED <<arrived, taken>>
    BY <1>3 DEF Mac!CloseJoin, Mac!history
  <2> QED
    BY <2>1, EmptySeq DEF MacQueue
<1>4. CASE UNCHANGED <<queue, arrived, taken>>
  BY <1>4 DEF MacQueue
<1>5. CASE Mac!ReturnError /\ UNCHANGED arrived
  BY <1>4, <1>5 DEF Mac!ReturnError
<1> QED
  BY <1>1, <1>2, <1>3, <1>4, <1>5, MacQueues

LEMMA MacBarriersKept ==
  ASSUME MacBarriers, Mac!Next
  PROVE  MacBarriers'
<1>b. "start" \in Mac!Barriers /\ "shutdown" \in Mac!Barriers
  BY DEF Mac!Barriers
<1>1. ASSUME NEW b \in Mac!Barriers, NEW who \in {"thread", "caller"},
             Mac!Arrive(b, who) \/ Mac!Pass(b, who) \/ Mac!WakeUp(b, who)
      PROVE  MacBarriers'
  BY <1>1, MacArrives, MacPasses, MacWakeUps DEF MacBarriers
<1>2. CASE Mac!StartThread \/ Mac!Broadcast \/ Mac!ThreadIsUp \/ Mac!EndThread
  BY <1>2, <1>b, <1>1 DEF Mac!StartThread, Mac!Broadcast, Mac!ThreadIsUp, Mac!EndThread
<1>4. CASE UNCHANGED <<count, passed>>
  BY <1>4 DEF MacBarriers
<1>3. CASE Mac!OpenMeet \/ Mac!Opened \/ Mac!CloseSignal \/ Mac!CloseMeet
  BY <1>3, <1>b, <1>1, <1>4
     DEF Mac!OpenMeet, Mac!Opened, Mac!CloseSignal, Mac!CloseMeet, Mac!barriers
<1>5. CASE Mac!Unplug \/ Mac!Loop \/ Mac!RunTimeout \/ Mac!RunFinished \/ Mac!ReportCallback
           \/ Mac!RemovalCallback \/ Mac!SignalCallback \/ Mac!Open
  BY <1>4, <1>5
     DEF Mac!Unplug, Mac!Loop, Mac!RunTimeout, Mac!RunFinished, Mac!ReportCallback,
         Mac!RemovalCallback, Mac!SignalCallback, Mac!Open, Mac!barriers
<1>6. CASE Mac!ReadOn \/ Mac!ReadTimeout \/ Mac!CloseUnregister \/ Mac!CloseFlag
           \/ Mac!CloseJoin \/ \E m \in Mac!Modes : Mac!Read(m)
  BY <1>4, <1>6
     DEF Mac!ReadOn, Mac!Read, Mac!ReadTimeout, Mac!CloseUnregister, Mac!CloseFlag,
         Mac!CloseJoin, Mac!barriers
<1> QED
  BY <1>1, <1>2, <1>3, <1>5, <1>6 DEF Mac!Next, Mac!ThreadStep, Mac!CloseStep

LEMMA MacStartsKept ==
  ASSUME MacBarriers, MacStarts, Mac!Next
  PROVE  MacStarts'
<1>b. "start" \in Mac!Barriers /\ "shutdown" \in Mac!Barriers /\ "start" # "shutdown"
  BY DEF Mac!Barriers
<1>c. count \in [Mac!Barriers -> 0 .. 1] /\ passed \subseteq Mac!Barriers \X {"thread", "caller"}
  BY DEF MacBarriers
<1>1. CASE Mac!Open
  BY <1>1 DEF Mac!Open, Mac!barriers, MacStarts
<1>2. CASE Mac!StartThread
  BY <1>2 DEF Mac!StartThread, MacStarts
<1>3. CASE Mac!OpenMeet
  <2>1. caller = "created" /\ caller' = "at start" /\ Mac!Arrive("start", "caller")
        /\ UNCHANGED <<thread, runLoop>>
    BY <1>3 DEF Mac!OpenMeet
  <2>2. count["start"] = 0 => count'["start"] = 1
    <3>1. count'["start"] = 1 - count["start"]
      BY <1>b, <1>c, <2>1, MacArrives
    <3> QED
      BY <3>1
  <2> QED
    BY <2>1, <2>2 DEF MacStarts
<1>4. CASE Mac!ThreadIsUp \/ Mac!EndThread \/ Mac!Opened \/ Mac!CloseMeet
  <2>1. UNCHANGED count
    BY <1>4 DEF Mac!ThreadIsUp, Mac!EndThread, Mac!Opened, Mac!CloseMeet, Mac!Pass
  <2> QED
    BY <1>4, <2>1 DEF Mac!ThreadIsUp, Mac!EndThread, Mac!Opened, Mac!CloseMeet, MacStarts
<1>5. CASE Mac!Broadcast \/ Mac!CloseSignal
  <2>1. count'["start"] = count["start"]
    <3>1. Mac!Arrive("shutdown", "thread") \/ Mac!Arrive("shutdown", "caller")
          \/ UNCHANGED <<count, passed>>
      BY <1>5 DEF Mac!Broadcast, Mac!CloseSignal, Mac!barriers
    <3> QED
      BY <1>b, <1>c, <3>1, MacArrives
  <2> QED
    BY <1>5, <2>1 DEF Mac!Broadcast, Mac!CloseSignal, Mac!Woken, Mac!WakeCaller, MacStarts
<1>6. CASE Mac!Unplug \/ Mac!Loop \/ Mac!RunTimeout \/ Mac!RunFinished \/ Mac!RemovalCallback
           \/ Mac!SignalCallback
  BY <1>6
     DEF Mac!Unplug, Mac!Loop, Mac!RunTimeout, Mac!RunFinished, Mac!RemovalCallback,
         Mac!SignalCallback, Mac!StopsLoop, Mac!barriers, MacStarts
<1>7. CASE Mac!ReportCallback \/ Mac!ReadTimeout \/ Mac!CloseUnregister \/ Mac!CloseFlag
           \/ Mac!CloseJoin
  BY <1>7
     DEF Mac!ReportCallback, Mac!WakeCaller, Mac!ReadTimeout, Mac!CloseUnregister,
         Mac!CloseFlag, Mac!CloseJoin, Mac!barriers, MacStarts
<1>8. CASE Mac!ReadOn \/ \E m \in Mac!Modes : Mac!Read(m)
  <2>1. caller \in {"idle", "woken"} /\ caller' \in {"idle", "waiting"}
        /\ UNCHANGED <<thread, runLoop, count, passed>>
    BY <1>8 DEF Mac!ReadOn, Mac!Read, Mac!ReturnData, Mac!ReturnError, Mac!barriers
  <2> QED
    BY <2>1 DEF MacStarts
<1>9. ASSUME NEW b \in Mac!Barriers, NEW who \in {"thread", "caller"}, Mac!WakeUp(b, who)
      PROVE  MacStarts'
  BY <1>c, <1>9, MacWakeUps DEF MacStarts
<1> QED
  BY <1>1, <1>2, <1>3, <1>4, <1>5, <1>6, <1>7, <1>8, <1>9
     DEF Mac!Next, Mac!ThreadStep, Mac!CloseStep

LEMMA MacEndsKept ==
  ASSUME MacBarriers, MacStarts, MacEnds, Mac!Next
  PROVE  MacEnds'
<1>b. "start" \in Mac!Barriers /\ "shutdown" \in Mac!Barriers /\ "start" # "shutdown"
  BY DEF Mac!Barriers
<1>c. count \in [Mac!Barriers -> 0 .. 1] /\ passed \subseteq Mac!Barriers \X {"thread", "caller"}
  BY DEF MacBarriers
<1>s. ASSUME ThreadAtEnd' <=> ThreadAtEnd, CallerAtEnd' <=> CallerAtEnd,
             count'["shutdown"] = count["shutdown"]
      PROVE  MacEnds'
  BY <1>s DEF MacEnds
<1> USE DEF ThreadAtEnd, CallerAtEnd
<1>1. CASE Mac!Broadcast \/ (Mac!CloseSignal /\ caller' = "at shutdown")
  <2>1. \/ /\ thread = "wake" /\ thread' = "at shutdown"
           /\ caller' = caller \/ (caller = "waiting" /\ caller' = "woken")
        \/ caller = "signal" /\ caller' = "at shutdown" /\ thread' = thread
    <3>1. CASE Mac!Broadcast
      BY <3>1 DEF Mac!Broadcast, Mac!Woken, Mac!WakeCaller
    <3>2. CASE Mac!CloseSignal /\ caller' = "at shutdown"
      BY <3>2 DEF Mac!CloseSignal
    <3> QED
      BY <1>1, <3>1, <3>2
  <2>2. Mac!Arrive("shutdown", "thread") \/ Mac!Arrive("shutdown", "caller")
    BY <1>1 DEF Mac!Broadcast, Mac!CloseSignal
  <2>3. /\ count["shutdown"] = 0 => count'["shutdown"] = 1
        /\ count["shutdown"] = 1 => count'["shutdown"] = 0
    <3>1. count'["shutdown"] = 1 - count["shutdown"]
      BY <1>b, <1>c, <2>2, MacArrives
    <3> QED
      BY <3>1
  <2> QED
    BY <2>1, <2>3 DEF MacEnds
<1>2. CASE Mac!EndThread \/ Mac!CloseMeet \/ Mac!ThreadIsUp \/ Mac!Opened
  <2>1. UNCHANGED count
    BY <1>2 DEF Mac!EndThread, Mac!CloseMeet, Mac!ThreadIsUp, Mac!Opened, Mac!Pass
  <2> QED
    BY <1>2, <2>1, <1>s DEF Mac!EndThread, Mac!CloseMeet, Mac!ThreadIsUp, Mac!Opened
<1>3. CASE Mac!CloseSignal /\ caller' = "crashed"
  BY <1>3, <1>s DEF Mac!CloseSignal, Mac!barriers
<1>4. CASE Mac!StartThread \/ Mac!OpenMeet
  <2>1. Mac!Arrive("start", "thread") \/ Mac!Arrive("start", "caller")
    BY <1>4 DEF Mac!StartThread, Mac!OpenMeet
  <2>2. count'["shutdown"] = count["shutdown"]
    BY <1>b, <1>c, <2>1, MacArrives
  <2> QED
    BY <1>4, <2>2, <1>s DEF Mac!StartThread, Mac!OpenMeet
<1>5. CASE Mac!Unplug \/ Mac!Loop \/ Mac!RunTimeout \/ Mac!RunFinished \/ Mac!RemovalCallback
           \/ Mac!SignalCallback
  BY <1>5, <1>s
     DEF Mac!Unplug, Mac!Loop, Mac!RunTimeout, Mac!RunFinished, Mac!RemovalCallback,
         Mac!SignalCallback, Mac!StopsLoop, Mac!barriers
<1>6. CASE Mac!ReportCallback \/ Mac!ReadTimeout \/ Mac!CloseUnregister \/ Mac!CloseFlag
           \/ Mac!CloseJoin
  BY <1>6, <1>s
     DEF Mac!ReportCallback, Mac!WakeCaller, Mac!ReadTimeout, Mac!CloseUnregister,
         Mac!CloseFlag, Mac!CloseJoin, Mac!barriers
<1>7. CASE Mac!ReadOn \/ \E m \in Mac!Modes : Mac!Read(m)
  <2>1. caller \in {"idle", "woken"} /\ caller' \in {"idle", "waiting"}
        /\ UNCHANGED <<thread, count, passed>>
    BY <1>7 DEF Mac!ReadOn, Mac!Read, Mac!ReturnData, Mac!ReturnError, Mac!barriers
  <2> QED
    BY <2>1, <1>s
<1>8. CASE Mac!Open
  <2>1. thread = "none" /\ thread' = "start" /\ caller = "new" /\ caller' = "created"
        /\ UNCHANGED count
    BY <1>8 DEF Mac!Open, MacStarts, Mac!barriers
  <2> QED
    BY <2>1, <1>s
<1>9. ASSUME NEW b \in Mac!Barriers, NEW who \in {"thread", "caller"}, Mac!WakeUp(b, who)
      PROVE  MacEnds'
  BY <1>c, <1>9, <1>s, MacWakeUps
<1>10. Mac!CloseSignal => caller' \in {"at shutdown", "crashed"}
  BY DEF Mac!CloseSignal
<1> QED
  BY <1>1, <1>2, <1>3, <1>4, <1>5, <1>6, <1>7, <1>8, <1>9, <1>10
     DEF Mac!Next, Mac!ThreadStep, Mac!CloseStep

LEMMA MacGoneKept ==
  ASSUME MacScalars, MacBarriers, MacStarts, MacGone, Mac!Next
  PROVE  MacGone'
<1> USE DEF MacGone, MacScalars, MacFlags, MacPlaces, Mac!flags, Mac!barriers
<1>1. CASE Mac!Unplug
  BY <1>1 DEF Mac!Unplug
<1>2. CASE Mac!StartThread \/ Mac!ThreadIsUp \/ Mac!Loop \/ Mac!RunTimeout \/ Mac!EndThread
  <2>1. /\ UNCHANGED <<plugged, Mac!flags, caller>>
        /\ thread \in {"wake", "at shutdown", "ended"} => thread' \in {"wake", "at shutdown", "ended"}
    BY <1>2
       DEF Mac!StartThread, Mac!ThreadIsUp, Mac!Loop, Mac!RunTimeout, Mac!EndThread
  <2> QED
    BY <2>1
<1>3. CASE Mac!RemovalCallback
  BY <1>3 DEF Mac!RemovalCallback, Mac!StopsLoop
<1>4. CASE Mac!SignalCallback
  BY <1>4 DEF Mac!SignalCallback, Mac!StopsLoop
<1>5. CASE Mac!Broadcast \/ Mac!ReportCallback
  <2>1. /\ UNCHANGED <<plugged, disconnected, shutdown, registered>>
        /\ caller' = caller \/ (caller = "waiting" /\ caller' = "woken")
        /\ thread' = thread \/ (thread = "wake" /\ thread' = "at shutdown")
    BY <1>5 DEF Mac!Broadcast, Mac!ReportCallback, Mac!Woken, Mac!WakeCaller
  <2> QED
    BY <2>1
<1>6. CASE Mac!Open \/ Mac!OpenMeet \/ Mac!Opened
  <2>1. /\ UNCHANGED <<plugged, disconnected, shutdown>>
        /\ caller \in {"new", "created", "at start"}
        /\ caller' \in {"created", "at start", "idle"}
        /\ thread' = thread \/ (caller = "new" /\ thread' = "start")
    BY <1>6 DEF Mac!Open, Mac!OpenMeet, Mac!Opened
  <2>2. caller = "new" => thread = "none"
    BY DEF MacStarts
  <2> QED
    BY <2>1, <2>2
<1>7. CASE Mac!ReadOn \/ \E m \in Mac!Modes : Mac!Read(m)
  <2>1. caller \in {"idle", "woken"} /\ caller' \in {"idle", "waiting"}
        /\ UNCHANGED <<thread, plugged, Mac!flags>>
    BY <1>7 DEF Mac!ReadOn, Mac!Read, Mac!ReturnData, Mac!ReturnError
  <2> QED
    BY <2>1
<1>8. CASE Mac!ReadTimeout
  BY <1>8 DEF Mac!ReadTimeout
<1>9. CASE Mac!CloseUnregister
  <2>1. ~registered' \/ disconnected'
    BY <1>9 DEF Mac!CloseUnregister
  <2> QED
    BY <1>9, <2>1 DEF Mac!CloseUnregister
<1>10. CASE Mac!CloseStep
  <2>1. /\ UNCHANGED <<plugged, thread, disconnected, registered>>
        /\ \/ caller = "unregistered" /\ caller' = "signal" /\ shutdown' = TRUE
           \/ /\ caller \in {"signal", "at shutdown", "join"} /\ UNCHANGED shutdown
              /\ caller' \in {"at shutdown", "join", "freed", "crashed"}
    BY <1>10
       DEF Mac!CloseStep, Mac!CloseFlag, Mac!CloseSignal, Mac!CloseMeet, Mac!CloseJoin
  <2> QED
    BY <2>1
<1>11. CASE Mac!RunFinished
  BY <1>11 DEF Mac!RunFinished
<1>12. ASSUME NEW b \in Mac!Barriers, NEW who \in {"thread", "caller"}, Mac!WakeUp(b, who)
       PROVE  MacGone'
  BY <1>12 DEF Mac!WakeUp
<1> QED
  BY <1>1, <1>2, <1>3, <1>4, <1>5, <1>6, <1>7, <1>8, <1>9, <1>10, <1>11, <1>12
     DEF Mac!Next, Mac!ThreadStep

LEMMA MacStep ==
  ASSUME MacInv, [Next]_vars
  PROVE  MacInv'
<1> SUFFICES ASSUME part' = "mac" PROVE MacInv'
  BY DEF MacInv
<1>1. part = "mac"
  BY DEF Next, vars, TransportAlone, OperationsAlone, BuildAlone, WireAlone, LibusbAlone,
         MacAlone, WinAlone
<1>2. CASE Mac!Next
  BY <1>1, <1>2, MacScalarsKept, MacQueueKept, MacBarriersKept, MacStartsKept, MacEndsKept,
     MacGoneKept
     DEF MacInv, MacTyped
<1>3. CASE UNCHANGED vars
  BY <1>3, MacStutter DEF vars, shared, macOwn, Mac!vars, Mac!flags, Mac!barriers, Mac!history
<1> QED
  BY <1>1, <1>2, <1>3
     DEF Next, TransportAlone, OperationsAlone, BuildAlone, WireAlone, LibusbAlone,
         MacAlone, WinAlone

LEMMA MacFine ==
  ASSUME MacInv, part = "mac"
  PROVE  Mac!TypeOK /\ Mac!SequencesKept
<1>1. MacTyped /\ MacStarts /\ MacEnds
  BY DEF MacInv
<1>2. Mac!TypeOK
  BY <1>1 DEF MacTyped, MacScalars, MacFlags, MacPlaces, MacQueue, MacBarriers, Mac!TypeOK,
         Mac!Modes
<1>3. ASSUME ~Mac!StartupOrdered
      PROVE  Mac!WentAlone("start")
  <2>1. caller \notin {"new", "created", "at start"} /\ ~runLoop
    BY <1>3 DEF Mac!StartupOrdered
  <2>2. thread = "start" /\ count["start"] = 1
    BY <1>1, <2>1 DEF MacStarts
  <2> QED
    BY <2>1, <2>2 DEF Mac!WentAlone, Mac!Waits, Mac!Place
<1>4. ASSUME ~Mac!ShutdownOrdered
      PROVE  Mac!WentAlone("shutdown")
  <2>1. thread = "ended" /\ caller \notin {"at shutdown", "join", "freed"}
    BY <1>4 DEF Mac!ShutdownOrdered
  <2>2. count["shutdown"] = 1
    BY <1>1, <2>1 DEF MacEnds, ThreadAtEnd, CallerAtEnd
  <2> QED
    BY <2>1, <2>2 DEF Mac!WentAlone, Mac!Waits, Mac!Place
<1> QED
  BY <1>2, <1>3, <1>4 DEF Mac!SequencesKept

(* A step of the reader is one of ReportQueue's, or none.                  *)
LEMMA MacReports ==
  ASSUME MacGone, Mac!Next
  PROVE  Mac!ReportsStep
<1>1. CASE Mac!Runs /\ Mac!ReportCallback
  <2>1. ~disconnected /\ ~shutdown /\ UNCHANGED <<taken, disconnected, shutdown>>
    BY <1>1 DEF Mac!ReportCallback, Mac!flags, MacGone, Mac!Runs
  <2>2. Mac!Reports!Arrive
    BY <1>1, <2>1
       DEF Mac!ReportCallback, Mac!Queued, Mac!KeepNewest, Mac!Reports!Arrive,
           Mac!Reports!Newest
  <2> QED
    BY <2>2 DEF Mac!ReportsStep, Mac!Reports!Next
<1>2. CASE Mac!ReturnData /\ UNCHANGED <<arrived, disconnected, shutdown>>
  <2>1. Mac!Reports!HandOut
    BY <1>2 DEF Mac!ReturnData, Mac!Reports!HandOut
  <2> QED
    BY <2>1 DEF Mac!ReportsStep, Mac!Reports!Next
<1>3. CASE Mac!CloseJoin
  <2>1. shutdown
    BY <1>3 DEF Mac!CloseJoin, MacGone
  <2>2. Mac!Reports!Clear
    BY <1>3, <2>1 DEF Mac!CloseJoin, Mac!flags, Mac!history, Mac!Reports!Clear
  <2> QED
    BY <2>2 DEF Mac!ReportsStep, Mac!Reports!Next
<1>4. CASE Mac!ReturnError /\ UNCHANGED <<arrived, disconnected, shutdown>>
  <2>1. Mac!Reports!Fail
    BY <1>4 DEF Mac!ReturnError, Mac!Reports!Fail
  <2> QED
    BY <2>1 DEF Mac!ReportsStep, Mac!Reports!Next
<1>5. CASE UNCHANGED <<queue, arrived, taken, failed>> /\ MacEnding
  <2>1. CASE disconnected' \/ shutdown'
    <3>1. Mac!Reports!Leave
      BY <1>5, <2>1 DEF Mac!Reports!Leave
    <3> QED
      BY <3>1 DEF Mac!ReportsStep, Mac!Reports!Next
  <2>2. CASE ~(disconnected' \/ shutdown')
    <3>1. ~(disconnected \/ shutdown)
      BY <1>5, <2>2 DEF MacEnding
    <3>2. UNCHANGED Mac!Reports!vars
      BY <1>5, <2>2, <3>1 DEF Mac!Reports!vars
    <3> QED
      BY <3>2 DEF Mac!ReportsStep
  <2> QED
    BY <2>1, <2>2
<1> QED
  BY <1>1, <1>2, <1>3, <1>4, <1>5, MacQueues

-----------------------------------------------------------------------------
(* Reads with libusb.  Types: the functions have one device.               *)
LibusbFunctions ==
    /\ thread \in [{"d"} -> {"none", "start", "barrier", "loop", "events",
                             "cancel", "drain", "wake", "ended"}]
    /\ transfer \in [{"d"} -> {"none", "idle", "flight", "cancelling"}]
    /\ arrived \in [{"d"} -> 0 .. MaxReports]
    /\ taken \in [{"d"} -> 0 .. MaxReports]

LibusbQueue ==
    /\ queue["d"] \in Seq(1 .. MaxReports)
    /\ Len(queue["d"]) <= QueueLimit + 2
    /\ DOMAIN queue = {"d"} /\ queue = [x \in {"d"} |-> queue[x]]

LibusbSets ==
    /\ plugged \subseteq {"d"} /\ freed \subseteq {"d"} /\ failed \subseteq {"d"}
    /\ shutdown \subseteq {"d"} /\ cancelled \subseteq shutdown
    /\ handler \in {"d", None} /\ callback \in {"d", None}

LibusbCaller ==
    /\ caller \in [at: {"idle", "opening", "waiting", "woken", "cancel", "join"},
                   dev: {"d", None}, mode: Libusb!Modes]
    /\ caller.at = "idle" => caller = Libusb!Idle
    /\ caller.at # "idle" => caller.dev = "d"

(* A callback runs for a transfer that is not in flight and was not        *)
(* cancelled; the transfer of a device that was cancelled stays idle, so   *)
(* nothing arrives any more; and its thread has ended when it is freed.    *)
LibusbStops ==
    /\ handler # None =>
          callback = "d" /\ transfer["d"] = "idle" /\ "d" \notin cancelled
    /\ thread["d"] \in {"none", "start"} => transfer["d"] = "none" /\ "d" \notin cancelled
    /\ "d" \in cancelled => transfer["d"] \in {"idle", "none"}
    /\ thread["d"] \in {"wake", "ended"} => "d" \in cancelled
    /\ "d" \in shutdown => "d" \in cancelled \/ caller.at \in {"cancel", "join"}

LibusbInv ==
    part = "libusb" =>
        LibusbFunctions /\ LibusbQueue /\ LibusbSets /\ LibusbCaller /\ LibusbStops

LEMMA LibusbConstants == QueueLimit \in Nat /\ MaxReports \in Nat
BY CallsAssumption DEF Libusb!LibusbAssumption

LEMMA LibusbInitially == Init => LibusbInv
<1> SUFFICES ASSUME LibusbInit PROVE LibusbInv
  BY DEF Init, TransportInit, OperationsInit, BuildInit, WireInit, LibusbInit, MacInit,
         WinInit, LibusbInv
<1>1. Libusb!Init
  BY DEF LibusbInit
<1> USE <1>1, LibusbConstants DEF Libusb!Init
<1>2. LibusbFunctions
  BY DEF LibusbFunctions
<1>3. LibusbQueue
  BY EmptySeq DEF LibusbQueue
<1>4. LibusbSets
  BY DEF LibusbSets, None
<1>5. LibusbCaller
  BY DEF LibusbCaller, Libusb!Idle, Libusb!Modes
<1>6. LibusbStops
  BY DEF LibusbStops, None
<1> QED
  BY <1>2, <1>3, <1>4, <1>5, <1>6 DEF LibusbInv

LEMMA LibusbStutter ==
  ASSUME LibusbInv, UNCHANGED <<part, Libusb!vars>>
  PROVE  LibusbInv'
BY DEF LibusbInv, Libusb!vars, Libusb!deviceVars, Libusb!history, LibusbFunctions, LibusbQueue,
       LibusbSets, LibusbCaller, LibusbStops, Libusb!Idle, Libusb!Modes, None

(* The actions, with their one device.                                     *)
Actions ==
    \/ Libusb!Unplug("d") \/ Libusb!Start("d") \/ Libusb!Loop("d") \/ Libusb!CancelPending("d")
    \/ Libusb!EndDrain("d") \/ Libusb!Broadcast("d") \/ Libusb!ReturnEmpty("d")
    \/ Libusb!Resubmit("d") \/ Libusb!Received("d", "d") \/ Libusb!Stopped("d", "d")
    \/ Libusb!MeetAtBarrier("d") \/ Libusb!ReadOn("d") \/ Libusb!Open("d")
    \/ Libusb!CloseFlag("d") \/ (\E mode_1 \in Libusb!Modes : Libusb!Read("d", mode_1))
    \/ Libusb!ReadTimeout \/ Libusb!CloseCancel \/ Libusb!CloseFree

LEMMA LibusbActions ==
  ASSUME Libusb!Next
  PROVE  Actions
BY DEF Libusb!Next, Libusb!ThreadStep, Libusb!Complete, Libusb!CallerStep, Libusb!Close, Actions

(* What becomes of the reports of the device.                              *)
Data ==
    /\ queue["d"] # <<>>
    /\ taken' = [taken EXCEPT !["d"] = Head(queue["d"])]
    /\ queue' = [queue EXCEPT !["d"] = Tail(queue["d"])]
    /\ UNCHANGED <<arrived, cancelled, failed>>

Report ==
    /\ "d" \in plugged /\ transfer["d"] = "flight"
    /\ arrived["d"] < MaxReports
    /\ arrived' = [arrived EXCEPT !["d"] = arrived["d"] + 1]
    /\ queue' = [queue EXCEPT !["d"] =
                    IF Len(Append(queue["d"], arrived'["d"])) > QueueLimit + 2
                    THEN Tail(Append(queue["d"], arrived'["d"]))
                    ELSE Append(queue["d"], arrived'["d"])]
    /\ UNCHANGED <<taken, cancelled, failed>>

Failure ==
    /\ queue["d"] = <<>> /\ "d" \in shutdown /\ caller.at \in {"idle", "woken"}
    /\ failed' = failed \cup {"d"}
    /\ UNCHANGED <<queue, arrived, taken, cancelled>>

Freeing ==
    /\ thread["d"] = "ended"
    /\ queue' = [queue EXCEPT !["d"] = <<>>]
    /\ UNCHANGED <<arrived, taken, cancelled, failed>>

Stopping ==
    /\ cancelled' = cancelled \cup {"d"}
    /\ UNCHANGED <<queue, arrived, taken, failed>>

LEMMA LibusbQueues ==
  ASSUME LibusbFunctions, LibusbSets, LibusbCaller, LibusbStops, Actions
  PROVE  \/ Data \/ Report \/ Failure \/ Freeing \/ Stopping
         \/ UNCHANGED <<queue, arrived, taken, cancelled, failed>>
<1> USE DEF Libusb!deviceVars, Libusb!history
<1>1. CASE Libusb!Unplug("d") \/ Libusb!Start("d") \/ Libusb!Loop("d") \/ Libusb!CancelPending("d")
  BY <1>1 DEF Libusb!Unplug, Libusb!Start, Libusb!Loop, Libusb!CancelPending
<1>2. CASE Libusb!EndDrain("d") \/ Libusb!Broadcast("d") \/ Libusb!ReturnEmpty("d")
  BY <1>2 DEF Libusb!EndDrain, Libusb!Broadcast, Libusb!ReturnEmpty
<1>3. CASE Libusb!Resubmit("d")
  <2>1. callback = "d"
    BY <1>3 DEF Libusb!Resubmit, LibusbStops, LibusbSets, None
  <2> QED
    BY <1>3, <2>1 DEF Libusb!Resubmit, Libusb!FlagsSet, Stopping
<1>4. CASE Libusb!Stopped("d", "d")
  BY <1>4 DEF Libusb!Stopped, Libusb!FlagsSet, Stopping
<1>5. CASE Libusb!Received("d", "d")
  <2>1. CASE UNCHANGED <<arrived, queue>>
    BY <1>5, <2>1 DEF Libusb!Received
  <2>2. CASE ~UNCHANGED <<arrived, queue>>
    BY <1>5, <2>2 DEF Libusb!Received, Libusb!KeepNewest, Libusb!Queued, Report
  <2> QED
    BY <2>1, <2>2
<1>6. CASE Libusb!MeetAtBarrier("d") \/ Libusb!Open("d") \/ Libusb!CloseFlag("d")
           \/ Libusb!ReadTimeout \/ Libusb!CloseCancel
  BY <1>6
     DEF Libusb!MeetAtBarrier, Libusb!Open, Libusb!CloseFlag, Libusb!ReadTimeout,
         Libusb!CloseCancel
<1>7. ASSUME Libusb!ReadOn("d") \/ \E m \in Libusb!Modes : Libusb!Read("d", m)
      PROVE  Data \/ Failure \/ UNCHANGED <<queue, arrived, taken, cancelled, failed>>
  <2>1. /\ caller.at \in {"idle", "woken"} /\ UNCHANGED <<arrived, cancelled>>
        /\ Libusb!ReturnData("d") \/ Libusb!ReturnError("d") \/ UNCHANGED <<queue, taken, failed>>
    BY <1>7 DEF Libusb!ReadOn, Libusb!Read, Libusb!Sleep, Libusb!Idle
  <2>2. CASE Libusb!ReturnData("d")
    BY <2>1, <2>2 DEF Libusb!ReturnData, Data
  <2>3. CASE Libusb!ReturnError("d")
    BY <2>1, <2>3 DEF Libusb!ReturnError, Libusb!ReadsOver, Failure
  <2> QED
    BY <2>1, <2>2, <2>3
<1>8. CASE Libusb!CloseFree
  <2>1. caller.dev = "d"
    BY <1>8 DEF Libusb!CloseFree, LibusbCaller
  <2> QED
    BY <1>8, <2>1 DEF Libusb!CloseFree, Freeing
<1> QED
  BY <1>1, <1>2, <1>3, <1>4, <1>5, <1>6, <1>7, <1>8 DEF Actions

LEMMA LibusbQueueKept ==
  ASSUME LibusbFunctions, LibusbQueue, LibusbSets, LibusbCaller, LibusbStops, Actions
  PROVE  LibusbQueue' /\ arrived' \in [{"d"} -> 0 .. MaxReports]
                      /\ taken' \in [{"d"} -> 0 .. MaxReports]
<1> USE LibusbConstants
<1>q. /\ queue["d"] \in Seq(1 .. MaxReports) /\ Len(queue["d"]) <= QueueLimit + 2
      /\ DOMAIN queue = {"d"}
  BY DEF LibusbQueue
<1>t. arrived \in [{"d"} -> 0 .. MaxReports] /\ taken \in [{"d"} -> 0 .. MaxReports]
  BY DEF LibusbFunctions
<1>s. ASSUME NEW s \in Seq(1 .. MaxReports), Len(s) <= QueueLimit + 2,
             queue' = [queue EXCEPT !["d"] = s]
      PROVE  LibusbQueue'
  <2>1. queue' = [x \in {"d"} |-> s]
    BY <1>q, <1>s
  <2> QED
    BY <1>s, <2>1 DEF LibusbQueue
<1>1. CASE Data
  <2>1. /\ Head(queue["d"]) \in 1 .. MaxReports
        /\ Tail(queue["d"]) \in Seq(1 .. MaxReports) /\ Len(Tail(queue["d"])) <= QueueLimit + 2
    BY <1>1, <1>q, TakenFits DEF Data
  <2>2. LibusbQueue'
    BY <1>1, <1>s, <2>1 DEF Data
  <2>3. taken' \in [{"d"} -> 0 .. MaxReports]
    BY <1>1, <1>t, <2>1 DEF Data
  <2> QED
    BY <1>1, <1>t, <2>2, <2>3 DEF Data
<1>2. CASE Report
  <2>1. arrived'["d"] \in 1 .. MaxReports /\ arrived' \in [{"d"} -> 0 .. MaxReports]
    BY <1>2, <1>t DEF Report
  <2> DEFINE s == IF Len(Append(queue["d"], arrived'["d"])) > QueueLimit + 2
                  THEN Tail(Append(queue["d"], arrived'["d"]))
                  ELSE Append(queue["d"], arrived'["d"])
  <2>2. s \in Seq(1 .. MaxReports) /\ Len(s) <= QueueLimit + 2
    BY <1>q, <2>1, NewestFits
  <2>3. queue' = [queue EXCEPT !["d"] = s] /\ UNCHANGED taken
    BY <1>2 DEF Report
  <2> HIDE DEF s
  <2> QED
    BY <1>s, <1>t, <2>1, <2>2, <2>3
<1>3. CASE Failure \/ Stopping \/ UNCHANGED <<queue, arrived, taken>>
  BY <1>3, <1>t DEF Failure, Stopping, LibusbQueue
<1>4. CASE Freeing
  <2>1. <<>> \in Seq(1 .. MaxReports) /\ Len(<<>>) <= QueueLimit + 2
    BY EmptySeq
  <2> QED
    BY <1>4, <1>s, <1>t, <2>1 DEF Freeing
<1> QED
  BY <1>1, <1>2, <1>3, <1>4, LibusbQueues

LEMMA LibusbCallerKept ==
  ASSUME LibusbSets, LibusbCaller, Actions
  PROVE  LibusbCaller'
<1> USE DEF LibusbCaller, Libusb!Idle, Libusb!Modes
<1>1. CASE Libusb!Unplug("d") \/ Libusb!Start("d") \/ Libusb!Loop("d") \/ Libusb!CancelPending("d")
           \/ Libusb!EndDrain("d") \/ Libusb!ReturnEmpty("d") \/ Libusb!Resubmit("d")
           \/ Libusb!Stopped("d", "d")
  <2>1. UNCHANGED caller
    BY <1>1
       DEF Libusb!Unplug, Libusb!Start, Libusb!Loop, Libusb!CancelPending, Libusb!EndDrain,
           Libusb!ReturnEmpty, Libusb!Resubmit, Libusb!Stopped
  <2> QED
    BY <2>1
<1>2. CASE Libusb!Broadcast("d") \/ Libusb!Received("d", "d")
  <2>1. UNCHANGED caller \/ (caller.at = "waiting" /\ caller' = [caller EXCEPT !.at = "woken"])
    BY <1>2 DEF Libusb!Broadcast, Libusb!Received, Libusb!Woken, Libusb!WakeCaller
  <2> QED
    BY <2>1
<1>3. CASE Libusb!MeetAtBarrier("d") \/ Libusb!Open("d") \/ Libusb!CloseFlag("d")
           \/ Libusb!CloseFree
  BY <1>3
     DEF Libusb!MeetAtBarrier, Libusb!Open, Libusb!CloseFlag, Libusb!CloseFree
<1>4. CASE Libusb!CloseCancel
  BY <1>4 DEF Libusb!CloseCancel
<1>5. CASE Libusb!ReadTimeout
  BY <1>5 DEF Libusb!ReadTimeout
<1>6. ASSUME NEW m \in Libusb!Modes,
             Libusb!ReturnData("d") \/ Libusb!ReturnError("d") \/ Libusb!Sleep("d", m)
      PROVE  LibusbCaller'
  BY <1>6 DEF Libusb!ReturnData, Libusb!ReturnError, Libusb!Sleep
<1>7. CASE Libusb!ReadOn("d") \/ \E m \in Libusb!Modes : Libusb!Read("d", m)
  <2>1. caller.mode \in Libusb!Modes
    OBVIOUS
  <2> QED
    BY <1>6, <1>7, <2>1 DEF Libusb!ReadOn, Libusb!Read
<1> QED
  BY <1>1, <1>2, <1>3, <1>4, <1>5, <1>7 DEF Actions

LEMMA LibusbFunctionsKept ==
  ASSUME LibusbFunctions, LibusbQueue, LibusbSets, LibusbCaller, LibusbStops, Actions
  PROVE  LibusbFunctions'
<1>1. arrived' \in [{"d"} -> 0 .. MaxReports] /\ taken' \in [{"d"} -> 0 .. MaxReports]
  BY LibusbQueueKept
<1>2. thread' \in [{"d"} -> {"none", "start", "barrier", "loop", "events",
                             "cancel", "drain", "wake", "ended"}]
  <2> USE DEF LibusbFunctions, Libusb!GoTo
  <2>1. CASE Libusb!Start("d") \/ Libusb!Loop("d") \/ Libusb!CancelPending("d")
             \/ Libusb!EndDrain("d") \/ Libusb!Broadcast("d") \/ Libusb!ReturnEmpty("d")
    BY <2>1
       DEF Libusb!Start, Libusb!Loop, Libusb!CancelPending, Libusb!EndDrain, Libusb!Broadcast,
           Libusb!ReturnEmpty
  <2>2. CASE Libusb!Resubmit("d") \/ Libusb!Stopped("d", "d")
    BY <2>2 DEF Libusb!Resubmit, Libusb!Stopped, Libusb!AfterEvents
  <2>3. CASE Libusb!MeetAtBarrier("d") \/ Libusb!Open("d")
    BY <2>3 DEF Libusb!MeetAtBarrier, Libusb!Open
  <2>4. CASE Libusb!Unplug("d") \/ Libusb!Received("d", "d") \/ Libusb!ReadOn("d")
             \/ Libusb!CloseFlag("d") \/ Libusb!ReadTimeout \/ Libusb!CloseCancel
             \/ Libusb!CloseFree \/ \E m \in Libusb!Modes : Libusb!Read("d", m)
    BY <2>4
       DEF Libusb!Unplug, Libusb!Received, Libusb!ReadOn, Libusb!CloseFlag, Libusb!ReadTimeout,
           Libusb!CloseCancel, Libusb!CloseFree, Libusb!Read
  <2> QED
    BY <2>1, <2>2, <2>3, <2>4 DEF Actions
<1>3. transfer' \in [{"d"} -> {"none", "idle", "flight", "cancelling"}]
  <2>1. CASE UNCHANGED transfer
    BY <2>1 DEF LibusbFunctions
  <2>2. ASSUME NEW to \in {"none", "idle", "flight", "cancelling"},
               transfer' = [transfer EXCEPT !["d"] = to]
        PROVE  transfer' \in [{"d"} -> {"none", "idle", "flight", "cancelling"}]
    BY <2>2 DEF LibusbFunctions
  <2>3. CASE Libusb!Start("d") \/ Libusb!Received("d", "d") \/ Libusb!Stopped("d", "d")
    BY <2>1, <2>2, <2>3 DEF Libusb!Start, Libusb!Received, Libusb!Stopped
  <2>4. CASE Libusb!Resubmit("d")
    <3>1. callback = "d"
      BY <2>4 DEF Libusb!Resubmit, LibusbStops, LibusbSets, None
    <3> QED
      BY <2>1, <2>2, <2>4, <3>1 DEF Libusb!Resubmit
  <2>5. CASE Libusb!CancelPending("d")
    BY <2>1, <2>2, <2>5 DEF Libusb!CancelPending, Libusb!Cancel
  <2>6. CASE Libusb!CloseCancel
    <3>1. caller.dev = "d"
      BY <2>6 DEF Libusb!CloseCancel, LibusbCaller
    <3> QED
      BY <2>1, <2>2, <2>6, <3>1 DEF Libusb!CloseCancel, Libusb!Cancel
  <2>7. CASE Libusb!CloseFree
    <3>1. caller.dev = "d"
      BY <2>7 DEF Libusb!CloseFree, LibusbCaller
    <3>2. transfer["d"] \in {"none", "idle", "flight", "cancelling"}
      BY DEF LibusbFunctions
    <3> QED
      BY <2>2, <2>7, <3>1, <3>2 DEF Libusb!CloseFree
  <2>8. CASE Libusb!Unplug("d") \/ Libusb!Loop("d") \/ Libusb!EndDrain("d") \/ Libusb!Broadcast("d")
             \/ Libusb!ReturnEmpty("d") \/ Libusb!MeetAtBarrier("d") \/ Libusb!ReadOn("d")
             \/ Libusb!Open("d") \/ Libusb!CloseFlag("d") \/ Libusb!ReadTimeout
             \/ \E m \in Libusb!Modes : Libusb!Read("d", m)
    BY <2>1, <2>8
       DEF Libusb!Unplug, Libusb!Loop, Libusb!EndDrain, Libusb!Broadcast, Libusb!ReturnEmpty,
           Libusb!MeetAtBarrier, Libusb!ReadOn, Libusb!Open, Libusb!CloseFlag,
           Libusb!ReadTimeout, Libusb!Read, Libusb!deviceVars
  <2> QED
    BY <2>3, <2>4, <2>5, <2>6, <2>7, <2>8 DEF Actions
<1> QED
  BY <1>1, <1>2, <1>3 DEF LibusbFunctions

LEMMA LibusbSetsKept ==
  ASSUME LibusbSets, LibusbCaller, LibusbStops, Actions
  PROVE  LibusbSets'
<1> USE DEF LibusbSets, None, Libusb!deviceVars, Libusb!history
<1>1. CASE Libusb!Unplug("d") \/ Libusb!Start("d") \/ Libusb!Loop("d") \/ Libusb!CancelPending("d")
  BY <1>1 DEF Libusb!Unplug, Libusb!Start, Libusb!Loop, Libusb!CancelPending
<1>2. CASE Libusb!EndDrain("d") \/ Libusb!Broadcast("d") \/ Libusb!ReturnEmpty("d")
  BY <1>2 DEF Libusb!EndDrain, Libusb!Broadcast, Libusb!ReturnEmpty
<1>3. CASE Libusb!Resubmit("d")
  <2>1. callback = "d"
    BY <1>3 DEF Libusb!Resubmit, LibusbStops
  <2> QED
    BY <1>3, <2>1 DEF Libusb!Resubmit, Libusb!FlagsSet, Libusb!AfterEvents
<1>4. CASE Libusb!Stopped("d", "d")
  BY <1>4 DEF Libusb!Stopped, Libusb!FlagsSet, Libusb!AfterEvents
<1>5. CASE Libusb!Received("d", "d")
  BY <1>5 DEF Libusb!Received
<1>6. CASE Libusb!MeetAtBarrier("d") \/ Libusb!Open("d") \/ Libusb!CloseFlag("d")
           \/ Libusb!ReadTimeout \/ Libusb!CloseCancel
  BY <1>6
     DEF Libusb!MeetAtBarrier, Libusb!Open, Libusb!CloseFlag, Libusb!ReadTimeout,
         Libusb!CloseCancel
<1>7. CASE Libusb!ReadOn("d") \/ \E m \in Libusb!Modes : Libusb!Read("d", m)
  <2>1. /\ UNCHANGED <<plugged, shutdown, cancelled, handler, callback, freed>>
        /\ failed' = failed \/ failed' = failed \cup {"d"}
    BY <1>7
       DEF Libusb!ReadOn, Libusb!Read, Libusb!ReturnData, Libusb!ReturnError, Libusb!Sleep
  <2> QED
    BY <2>1
<1>8. CASE Libusb!CloseFree
  <2>1. caller.dev = "d"
    BY <1>8 DEF Libusb!CloseFree, LibusbCaller
  <2> QED
    BY <1>8, <2>1 DEF Libusb!CloseFree
<1> QED
  BY <1>1, <1>2, <1>3, <1>4, <1>5, <1>6, <1>7, <1>8 DEF Actions

LEMMA LibusbStopsKept ==
  ASSUME LibusbFunctions, LibusbSets, LibusbCaller, LibusbStops, Actions
  PROVE  LibusbStops'
<1> USE DEF Libusb!deviceVars, Libusb!GoTo, LibusbStops
<1>t. /\ DOMAIN thread = {"d"} /\ DOMAIN transfer = {"d"}
      /\ thread = [x \in {"d"} |-> thread[x]] /\ transfer = [x \in {"d"} |-> transfer[x]]
  BY DEF LibusbFunctions
<1>1. CASE Libusb!Unplug("d")
  BY <1>1 DEF Libusb!Unplug
<1>2. CASE Libusb!Start("d")
  BY <1>2, <1>t DEF Libusb!Start, LibusbSets, None
<1>3. CASE Libusb!Loop("d")
  BY <1>3, <1>t DEF Libusb!Loop
<1>4. CASE Libusb!CancelPending("d")
  <2>1. thread'["d"] = "drain" /\ UNCHANGED <<shutdown, cancelled, handler, callback, caller>>
        /\ IF transfer["d"] = "flight" THEN transfer'["d"] = "cancelling" ELSE UNCHANGED transfer
    BY <1>4, <1>t DEF Libusb!CancelPending, Libusb!Cancel
  <2> QED
    BY <2>1
<1>5. CASE Libusb!EndDrain("d") \/ Libusb!ReturnEmpty("d")
  BY <1>5, <1>t DEF Libusb!EndDrain, Libusb!ReturnEmpty, Libusb!Drained
<1>6. CASE Libusb!Broadcast("d")
  <2>1. thread["d"] = "wake" /\ thread'["d"] = "ended"
        /\ UNCHANGED <<shutdown, cancelled, transfer, handler, callback>>
    BY <1>6, <1>t DEF Libusb!Broadcast
  <2> QED
    BY <2>1
<1>7. CASE Libusb!Resubmit("d")
  <2>1. handler = "d" /\ callback = "d" /\ transfer["d"] = "idle" /\ "d" \notin cancelled
    BY <1>7 DEF Libusb!Resubmit, None
  <2>2. thread["d"] \notin {"none", "start", "wake", "ended"}
    BY <2>1
  <2>3. thread'["d"] \in {"loop", "drain"} /\ handler' = None /\ UNCHANGED caller
        /\ \/ transfer'["d"] = "flight" /\ UNCHANGED <<shutdown, cancelled>>
           \/ UNCHANGED transfer /\ "d" \in cancelled'
    BY <1>7, <1>t, <2>1 DEF Libusb!Resubmit, Libusb!AfterEvents, Libusb!FlagsSet
  <2> QED
    BY <2>1, <2>3
<1>8. CASE Libusb!Stopped("d", "d")
  <2>1. thread'["d"] \in {"loop", "drain"} /\ handler' = None /\ transfer'["d"] = "idle"
        /\ "d" \in cancelled'
    BY <1>8, <1>t DEF Libusb!Stopped, Libusb!AfterEvents, Libusb!FlagsSet
  <2> QED
    BY <2>1
<1>9. CASE Libusb!Received("d", "d")
  <2>1. /\ transfer["d"] = "flight" /\ transfer'["d"] = "idle" /\ callback' = "d"
        /\ UNCHANGED <<thread, shutdown, cancelled>>
    BY <1>9, <1>t DEF Libusb!Received
  <2>2. caller.at \in {"cancel", "join"} => UNCHANGED caller
    BY <1>9 DEF Libusb!Received, Libusb!WakeCaller
  <2> QED
    BY <2>1, <2>2
<1>10. CASE Libusb!MeetAtBarrier("d")
  <2>1. /\ caller.at = "opening" /\ thread["d"] = "barrier" /\ thread'["d"] = "loop"
        /\ UNCHANGED <<shutdown, cancelled, transfer, handler, callback>>
    BY <1>10, <1>t DEF Libusb!MeetAtBarrier
  <2> QED
    BY <2>1
<1>11. CASE Libusb!Open("d")
  <2>1. /\ caller.at = "idle" /\ thread["d"] = "none" /\ thread'["d"] = "start"
        /\ UNCHANGED <<shutdown, cancelled, transfer, handler, callback>>
    BY <1>11, <1>t DEF Libusb!Open, Libusb!Idle
  <2> QED
    BY <2>1
<1>12. CASE Libusb!ReadOn("d") \/ \E m \in Libusb!Modes : Libusb!Read("d", m)
  <2>1. /\ caller.at \in {"idle", "woken"}
        /\ UNCHANGED <<thread, shutdown, cancelled, transfer, handler, callback>>
    BY <1>12 DEF Libusb!ReadOn, Libusb!Read, Libusb!Idle
  <2> QED
    BY <2>1
<1>13. CASE Libusb!ReadTimeout
  <2>1. /\ caller.at \in {"waiting", "woken"}
        /\ UNCHANGED <<thread, shutdown, cancelled, transfer, handler, callback>>
    BY <1>13 DEF Libusb!ReadTimeout
  <2> QED
    BY <2>1
<1>14. CASE Libusb!CloseFlag("d")
  <2>1. /\ caller'.at = "cancel"
        /\ UNCHANGED <<thread, cancelled, transfer, handler, callback>>
    BY <1>14 DEF Libusb!CloseFlag
  <2> QED
    BY <2>1
<1>15. CASE Libusb!CloseCancel
  <2>1. /\ caller.dev = "d" /\ caller'.at = "join"
        /\ UNCHANGED <<thread, shutdown, cancelled, handler, callback>>
        /\ IF transfer["d"] = "flight" THEN transfer'["d"] = "cancelling" ELSE UNCHANGED transfer
    BY <1>15, <1>t DEF Libusb!CloseCancel, Libusb!Cancel, LibusbCaller
  <2> QED
    BY <2>1
<1>16. CASE Libusb!CloseFree
  <2>1. /\ thread["d"] = "ended" /\ transfer'["d"] \in {transfer["d"], "none"}
        /\ UNCHANGED <<thread, shutdown, cancelled, handler, callback>>
    BY <1>16, <1>t DEF Libusb!CloseFree, LibusbCaller
  <2>2. "d" \in cancelled /\ handler = None
    BY <2>1
  <2> QED
    BY <2>1, <2>2
<1> QED
  BY <1>1, <1>2, <1>3, <1>4, <1>5, <1>6, <1>7, <1>8, <1>9, <1>10, <1>11, <1>12, <1>13, <1>14,
     <1>15, <1>16
     DEF Actions

LEMMA LibusbStep ==
  ASSUME LibusbInv, [Next]_vars
  PROVE  LibusbInv'
<1> SUFFICES ASSUME part' = "libusb" PROVE LibusbInv'
  BY DEF LibusbInv
<1>1. part = "libusb"
  BY DEF Next, vars, TransportAlone, OperationsAlone, BuildAlone, WireAlone, LibusbAlone,
         MacAlone, WinAlone
<1>2. CASE Libusb!Next
  BY <1>1, <1>2, LibusbActions, LibusbFunctionsKept, LibusbQueueKept, LibusbSetsKept,
     LibusbCallerKept, LibusbStopsKept
     DEF LibusbInv
<1>3. CASE UNCHANGED vars
  BY <1>3, LibusbStutter
     DEF vars, shared, libusbOwn, Libusb!vars, Libusb!deviceVars, Libusb!history
<1> QED
  BY <1>1, <1>2, <1>3
     DEF Next, TransportAlone, OperationsAlone, BuildAlone, WireAlone, LibusbAlone,
         MacAlone, WinAlone

LEMMA LibusbFine ==
  ASSUME LibusbInv, part = "libusb"
  PROVE  Libusb!TypeOK
<1>1. LibusbFunctions /\ LibusbQueue /\ LibusbSets /\ LibusbCaller
  BY DEF LibusbInv
<1> QED
  BY <1>1
     DEF LibusbFunctions, LibusbQueue, LibusbSets, LibusbCaller, Libusb!TypeOK, Libusb!Modes

(* A step of the reader is one of ReportQueue's, or none.                  *)
LEMMA LibusbReports ==
  ASSUME LibusbFunctions, LibusbQueue, LibusbSets, LibusbCaller, LibusbStops, Actions
  PROVE  Libusb!ReportsStep
<1> SUFFICES Libusb!Reports("d")!Next \/ UNCHANGED Libusb!Reports("d")!vars
  BY DEF Libusb!ReportsStep
<1>q. DOMAIN queue = {"d"} /\ DOMAIN arrived = {"d"} /\ DOMAIN taken = {"d"}
  BY DEF LibusbQueue, LibusbFunctions
<1>1. CASE Data
  <2>1. Libusb!Reports("d")!HandOut
    BY <1>1, <1>q DEF Data, Libusb!Reports!HandOut
  <2> QED
    BY <2>1 DEF Libusb!Reports!Next
<1>2. CASE Report
  <2>1. "d" \notin cancelled
    BY <1>2 DEF Report, LibusbStops
  <2>2. Libusb!Reports("d")!Arrive
    BY <1>2, <1>q, <2>1 DEF Report, Libusb!Reports!Arrive, Libusb!Reports!Newest
  <2> QED
    BY <2>2 DEF Libusb!Reports!Next
<1>3. CASE Failure
  <2>1. "d" \in cancelled
    BY <1>3 DEF Failure, LibusbStops
  <2>2. Libusb!Reports("d")!Fail
    BY <1>3, <2>1 DEF Failure, Libusb!Reports!Fail
  <2> QED
    BY <2>2 DEF Libusb!Reports!Next
<1>4. CASE Freeing
  <2>1. "d" \in cancelled
    BY <1>4 DEF Freeing, LibusbStops
  <2>2. Libusb!Reports("d")!Clear
    BY <1>4, <1>q, <2>1 DEF Freeing, Libusb!Reports!Clear
  <2> QED
    BY <2>2 DEF Libusb!Reports!Next
<1>5. CASE Stopping
  <2>1. Libusb!Reports("d")!Leave
    BY <1>5 DEF Stopping, Libusb!Reports!Leave
  <2> QED
    BY <2>1 DEF Libusb!Reports!Next
<1>6. CASE UNCHANGED <<queue, arrived, taken, cancelled, failed>>
  BY <1>6 DEF Libusb!Reports!vars
<1> QED
  BY <1>1, <1>2, <1>3, <1>4, <1>5, <1>6, LibusbQueues

-----------------------------------------------------------------------------
LEMMA ReadsInitially == Init => WinInv /\ MacInv /\ LibusbInv
BY WinInitially, MacInitially, LibusbInitially

LEMMA ReadsStep ==
  ASSUME WinInv /\ MacInv /\ LibusbInv, [Next]_vars
  PROVE  (WinInv /\ MacInv /\ LibusbInv)'
BY WinStep, MacStep, LibusbStep

(* With macOS the thread of a device is there from before hid_open returns *)
(* until hid_close wakes it up for the last time, unless the condition of  *)
(* a barrier has woken up for nothing.  With Windows each report is handed *)
(* out once and in order, however often reads time out, and the kernel has *)
(* the buffer of the device for one read at most.  For any number of       *)
(* reports, and any number that a queue or a ring keeps.                   *)
THEOREM ReadsOrderedAlways == Spec => []ReadsOrdered
<1>1. Spec => [](WinInv /\ MacInv /\ LibusbInv)
  BY ReadsInitially, ReadsStep, PTL DEF Spec
<1>2. WinInv /\ MacInv /\ LibusbInv => ReadsOrdered
  BY WinFine, MacFine, LibusbFine DEF ReadsOrdered
<1> QED
  BY <1>1, <1>2, PTL

(* With libusb and with macOS reports are queued, dropped and handed out   *)
(* as ReportQueue has it, with libusb all that are left before a read      *)
(* fails: every step of a reader is one of its steps, for any number of    *)
(* reports and any limit of the queue.                                     *)
THEOREM QueuesReportsAlways == Spec => QueuesReports
<1>1. Init => /\ part = "libusb" => Libusb!ReportsInit
              /\ part = "mac" => Mac!ReportsInit
  <2>1. CASE LibusbInit
    BY <2>1 DEF LibusbInit, Libusb!Init, Libusb!ReportsInit, Libusb!Reports!Init
  <2>2. CASE MacInit
    BY <2>2 DEF MacInit, Mac!Init, Mac!ReportsInit, Mac!Reports!Init
  <2> QED
    BY <2>1, <2>2 DEF Init, TransportInit, OperationsInit, BuildInit, WireInit, WinInit
<1>2. ASSUME WinInv /\ MacInv /\ LibusbInv, [Next]_vars
      PROVE  [/\ part = "libusb" => Libusb!ReportsStep
              /\ part = "mac" => Mac!ReportsStep]_vars
  <2>1. CASE UNCHANGED vars
    BY <2>1
  <2>2. CASE LibusbAlone /\ Libusb!Next
    BY <1>2, <2>2, LibusbActions, LibusbReports DEF LibusbAlone, LibusbInv
  <2>3. CASE MacAlone /\ Mac!Next
    BY <1>2, <2>3, MacReports DEF MacAlone, MacInv
  <2> QED
    BY <1>2, <2>1, <2>2, <2>3
       DEF Next, TransportAlone, OperationsAlone, BuildAlone, WireAlone, WinAlone
<1>3. Spec => [](WinInv /\ MacInv /\ LibusbInv)
  BY ReadsInitially, ReadsStep, PTL DEF Spec
<1> QED
  BY <1>1, <1>2, <1>3, PTL DEF Spec, QueuesReports

-----------------------------------------------------------------------------
(* What ReportQueue promises: the queue holds the n newest of the reports  *)
(* that came in, without a gap, none of which was handed out.              *)
Keeps(n, q, a, t) ==
    /\ q \in Seq(Nat) /\ a \in Nat /\ t \in Nat /\ Len(q) <= n
    /\ \A i \in 1 .. Len(q) : q[i] = a - Len(q) + i
    /\ t <= a - Len(q)

NewestOf(n, q) == IF Len(q) > n THEN Tail(q) ELSE q

(* One report comes in, one is handed out, all are dropped, or none.       *)
Moves(n, q, a, t, q2, a2, t2) ==
    \/ a2 = a + 1 /\ t2 = t /\ q2 = NewestOf(n, Append(q, a2))
    \/ q # <<>> /\ t2 = Head(q) /\ q2 = Tail(q) /\ a2 = a
    \/ q2 = <<>> /\ a2 = a /\ t2 = t
    \/ q2 = q /\ a2 = a /\ t2 = t

(* What is kept after a report has come in is what was kept, without the   *)
(* oldest if there is one too many, and the report.                        *)
Longer(n, s, r, t) ==
    /\ t \in Seq(Nat) /\ Len(t) = (IF Len(s) = n THEN n ELSE Len(s) + 1)
    /\ t[Len(t)] = r
    /\ \A i \in 1 .. Len(t) - 1 : t[i] = s[Len(s) + 1 - Len(t) + i]

LEMMA NewestKeeps ==
  ASSUME NEW n \in Nat \ {0}, NEW s \in Seq(Nat), NEW r \in Nat, Len(s) <= n
  PROVE  Longer(n, s, r, NewestOf(n, Append(s, r)))
<1>0. PICK t : t = NewestOf(n, Append(s, r))
  OBVIOUS
<1>1. PICK a : a = Append(s, r)
  OBVIOUS
<1>2. /\ a \in Seq(Nat) /\ Len(a) = Len(s) + 1 /\ a[Len(s) + 1] = r /\ Len(s) \in Nat
      /\ \A i \in 1 .. Len(s) : a[i] = s[i]
  BY <1>1, AppendProperties, LenProperties
<1>3. CASE Len(s) = n
  <2>1. t = Tail(a) /\ a # <<>>
    BY <1>0, <1>1, <1>2, <1>3, EmptySeq DEF NewestOf
  <2>2. /\ t \in Seq(Nat) /\ Len(t) = n
        /\ \A i \in 1 .. n : t[i] = a[i + 1]
    BY <1>2, <1>3, <2>1, HeadTailProperties
  <2>3. \A i \in 1 .. n - 1 : t[i] = s[i + 1]
    BY <1>2, <1>3, <2>2
  <2>4. t[n] = r
    BY <1>2, <1>3, <2>2
  <2>5. ASSUME NEW i \in 1 .. Len(t) - 1 PROVE t[i] = s[Len(s) + 1 - Len(t) + i]
    <3>1. i \in 1 .. n - 1 /\ Len(s) = n /\ Len(t) = n
      BY <1>3, <2>2, <2>5
    <3>2. n + 1 - n + i = i + 1
      BY <3>1
    <3> QED
      BY <2>3, <3>1, <3>2
  <2> QED
    BY <1>0, <1>3, <2>2, <2>4, <2>5 DEF Longer
<1>4. CASE Len(s) # n
  <2>1. t = a
    BY <1>0, <1>1, <1>2, <1>4 DEF NewestOf
  <2>2. ASSUME NEW i \in 1 .. Len(t) - 1 PROVE t[i] = s[Len(s) + 1 - Len(t) + i]
    <3>1. i \in 1 .. Len(s) /\ Len(t) = Len(s) + 1
      BY <1>2, <2>1, <2>2
    <3>2. Len(s) + 1 - Len(t) + i = i
      BY <1>2, <3>1
    <3> QED
      BY <1>2, <2>1, <3>1, <3>2
  <2>3. t \in Seq(Nat) /\ Len(t) = Len(s) + 1
    BY <1>2, <2>1
  <2>4. t[Len(t)] = r
    BY <1>2, <2>1
  <2> QED
    BY <1>0, <1>4, <2>2, <2>3, <2>4 DEF Longer
<1> QED
  BY <1>3, <1>4

LEMMA KeepsOn ==
  ASSUME NEW n \in Nat \ {0}, NEW q, NEW a, NEW t, NEW q2, NEW a2, NEW t2,
         Keeps(n, q, a, t), Moves(n, q, a, t, q2, a2, t2)
  PROVE  Keeps(n, q2, a2, t2) /\ (t2 # t => t < t2)
<1>1. /\ q \in Seq(Nat) /\ a \in Nat /\ t \in Nat /\ Len(q) <= n /\ Len(q) \in Nat
      /\ \A i \in 1 .. Len(q) : q[i] = a - Len(q) + i
      /\ t <= a - Len(q)
  BY LenProperties DEF Keeps
<1>2. CASE a2 = a + 1 /\ t2 = t /\ q2 = NewestOf(n, Append(q, a2))
  <2>1. a2 \in Nat
    BY <1>1, <1>2
  <2>2. /\ q2 \in Seq(Nat)
        /\ Len(q2) = IF Len(q) = n THEN n ELSE Len(q) + 1
        /\ q2[Len(q2)] = a2
        /\ \A i \in 1 .. Len(q2) - 1 : q2[i] = q[Len(q) + 1 - Len(q2) + i]
    <3>1. PICK r \in Nat : r = a2
      BY <2>1
    <3>2. PICK s : s = NewestOf(n, Append(q, r))
      OBVIOUS
    <3>4. q2 = s
      BY <1>2, <3>1, <3>2
    <3>3. Longer(n, q, r, s)
      BY <1>1, <3>1, <3>2, NewestKeeps
    <3> QED
      BY <3>1, <3>3, <3>4 DEF Longer
  <2>3. PICK l \in 1 .. n : l = Len(q2) /\ l <= Len(q) + 1 /\ Len(q) <= l
    BY <1>1, <2>2
  <2>4. ASSUME NEW i \in 1 .. l PROVE q2[i] = a2 - l + i
    <3>1. CASE i = l
      BY <1>1, <1>2, <2>2, <2>3, <3>1
    <3>2. CASE i \in 1 .. l - 1
      <4>1. Len(q) + 1 - l + i \in 1 .. Len(q)
        BY <1>1, <2>3, <3>2
      <4>2. q2[i] = q[Len(q) + 1 - l + i]
        BY <2>2, <2>3, <3>2
      <4>3. q[Len(q) + 1 - l + i] = a - Len(q) + (Len(q) + 1 - l + i)
        BY <1>1, <4>1
      <4>4. a - Len(q) + (Len(q) + 1 - l + i) = (a + 1) - l + i
        BY <1>1, <2>3
      <4> QED
        BY <1>2, <4>2, <4>3, <4>4
    <3> QED
      BY <2>3, <3>1, <3>2
  <2>5. t2 <= a2 - l /\ t2 \in Nat /\ t2 = t
    BY <1>1, <1>2, <2>3
  <2>6. Len(q2) <= n
    BY <2>3
  <2>7. Keeps(n, q2, a2, t2)
    BY <2>1, <2>2, <2>3, <2>4, <2>5, <2>6 DEF Keeps
  <2> QED
    BY <2>5, <2>7
<1>3. CASE q # <<>> /\ t2 = Head(q) /\ q2 = Tail(q) /\ a2 = a
  <2>1. /\ q2 \in Seq(Nat) /\ Len(q2) = Len(q) - 1 /\ t2 = q[1] /\ Len(q) # 0
        /\ \A i \in 1 .. Len(q) - 1 : q2[i] = q[i + 1]
    BY <1>1, <1>3, HeadTailProperties, EmptySeq
  <2>2. t2 = a - Len(q) + 1
    BY <1>1, <2>1
  <2> QED
    BY <1>1, <1>3, <2>1, <2>2 DEF Keeps
<1>4. CASE q2 = <<>> /\ a2 = a /\ t2 = t
  <2>1. q2 \in Seq(Nat) /\ Len(q2) = 0
    BY <1>4, EmptySeq
  <2> QED
    BY <1>1, <1>4, <2>1 DEF Keeps
<1>5. CASE q2 = q /\ a2 = a /\ t2 = t
  BY <1>5
<1> QED
  BY <1>2, <1>3, <1>4, <1>5 DEF Moves

(* ReportQueue itself, for every capacity, whether it drains or not.       *)
CONSTANTS Capacity, Drains

Reports == INSTANCE ReportQueue

QueueInv ==
    /\ Keeps(Capacity, queue, arrived, taken) /\ Reports!FailedIsOver
    /\ gone \in BOOLEAN /\ failed \in BOOLEAN

LEMMA QueueInitially ==
  ASSUME Reports!CapacityAssumption PROVE Reports!Init => QueueInv
<1> SUFFICES ASSUME Reports!Init PROVE QueueInv
  OBVIOUS
<1>1. queue = <<>> /\ arrived = 0 /\ taken = 0 /\ failed = FALSE /\ gone = FALSE
  BY DEF Reports!Init
<1>2. queue \in Seq(Nat) /\ Len(queue) = 0 /\ Capacity \in Nat
  BY <1>1, EmptySeq DEF Reports!CapacityAssumption
<1>3. Keeps(Capacity, queue, arrived, taken)
  BY <1>1, <1>2 DEF Keeps
<1>4. Reports!FailedIsOver
  BY <1>1 DEF Reports!FailedIsOver
<1> QED
  BY <1>1, <1>3, <1>4 DEF QueueInv

LEMMA QueueStep ==
  ASSUME Reports!CapacityAssumption, QueueInv, [Reports!Next]_Reports!vars
  PROVE  QueueInv' /\ (taken' # taken => taken < taken' /\ (Drains => ~failed))
<1>1. Capacity \in Nat \ {0}
  BY DEF Reports!CapacityAssumption
<1>3. Moves(Capacity, queue, arrived, taken, queue', arrived', taken')
  BY <1>1
     DEF Moves, NewestOf, Reports!Next, Reports!vars, Reports!Arrive, Reports!Newest, Reports!HandOut,
         Reports!Leave, Reports!Fail, Reports!Clear
<1>4. Keeps(Capacity, queue', arrived', taken') /\ (taken' # taken => taken < taken')
  BY <1>1, <1>3, KeepsOn DEF QueueInv
<1>5. Reports!FailedIsOver' /\ (taken' # taken => (Drains => ~failed))
  BY DEF QueueInv, Reports!FailedIsOver, Reports!Next, Reports!vars, Reports!Arrive,
         Reports!HandOut, Reports!Leave, Reports!Fail, Reports!Clear
<1>6. gone' \in BOOLEAN /\ failed' \in BOOLEAN
  BY DEF QueueInv, Reports!Next, Reports!vars, Reports!Arrive, Reports!HandOut,
         Reports!Leave, Reports!Fail, Reports!Clear
<1> QED
  BY <1>4, <1>5, <1>6 DEF QueueInv

LEMMA QueueHolds == ASSUME Reports!CapacityAssumption PROVE Reports!Spec => []QueueInv
<1>1. QueueInv /\ [Reports!Next]_Reports!vars => QueueInv'
  BY QueueStep
<1> QED
  BY <1>1, QueueInitially, PTL DEF Reports!Spec

(* Every report in the queue is one that has come in.                      *)
THEOREM QueueTypeOK ==
  ASSUME Reports!CapacityAssumption PROVE Reports!Spec => []Reports!TypeOK
<1>1. ASSUME QueueInv PROVE Reports!TypeOK
  <2>1. /\ queue \in Seq(Nat) /\ arrived \in Nat /\ taken \in Nat /\ Len(queue) \in Nat
        /\ \A k \in 1 .. Len(queue) : queue[k] = arrived - Len(queue) + k
        /\ taken <= arrived - Len(queue)
    BY <1>1, LenProperties DEF QueueInv, Keeps
  <2>2. \A k \in 1 .. Len(queue) : queue[k] \in 1 .. arrived
    BY <2>1
  <2>3. queue \in [1 .. Len(queue) -> 1 .. arrived]
    BY <2>1, <2>2, LenProperties
  <2>4. queue \in Seq(1 .. arrived)
    BY <2>1, <2>3, SeqDef
  <2> QED
    BY <1>1, <2>1, <2>4 DEF QueueInv, Reports!TypeOK
<1>2. QueueInv => Reports!TypeOK
  BY <1>1
<1> QED
  BY <1>2, QueueHolds, PTL

(* The queue is the newest reports that came in, without a gap, each of    *)
(* which is still to be handed out: for any number of reports and any      *)
(* limit.                                                                  *)
THEOREM QueueKeepsNewest ==
  ASSUME Reports!CapacityAssumption PROVE Reports!Spec => []Reports!KeepsNewest
<1>1. QueueInv => Reports!KeepsNewest
  BY DEF QueueInv, Keeps, Reports!KeepsNewest
<1> QED
  BY <1>1, QueueHolds, PTL

(* When a read has failed the device is gone and, with a backend that      *)
(* drains, nothing is left in the queue.                                   *)
THEOREM QueueFailedIsOver ==
  ASSUME Reports!CapacityAssumption PROVE Reports!Spec => []Reports!FailedIsOver
<1>1. QueueInv => Reports!FailedIsOver
  BY DEF QueueInv
<1> QED
  BY <1>1, QueueHolds, PTL

(* Each report is handed out once, in the order they came in, and with a   *)
(* backend that drains none after a read has failed.                       *)
THEOREM QueueInOrder ==
  ASSUME Reports!CapacityAssumption PROVE Reports!Spec => Reports!InOrder
<1>1. QueueInv /\ [Reports!Next]_Reports!vars =>
         [taken' # taken => taken < taken' /\ (Drains => ~failed)]_Reports!vars
  BY QueueStep
<1> QED
  BY <1>1, QueueHolds, PTL DEF Reports!Spec, Reports!InOrder

(* The readers, which implement it, keep it.                               *)
ReadersInv ==
    /\ part = "libusb" => Keeps(QueueLimit + 2, queue["d"], arrived["d"], taken["d"])
    /\ part = "mac" => Keeps(QueueLimit + 2, queue, arrived, taken)

InTurn ==
    /\ part = "libusb" /\ taken'["d"] # taken["d"] => taken["d"] < taken'["d"]
    /\ part = "mac" /\ taken' # taken => taken < taken'

ReadersStep ==
    /\ part = "libusb" => Libusb!ReportsStep
    /\ part = "mac" => Mac!ReportsStep
    /\ UNCHANGED part

LEMMA ReadersInitially ==
  ASSUME part = "libusb" => Libusb!ReportsInit, part = "mac" => Mac!ReportsInit
  PROVE  ReadersInv
<1>1. QueueLimit + 2 \in Nat /\ <<>> \in Seq(Nat) /\ Len(<<>>) = 0
  BY MacConstants, EmptySeq
<1>2. Keeps(QueueLimit + 2, <<>>, 0, 0)
  BY <1>1 DEF Keeps
<1>3. CASE part = "libusb"
  BY <1>2, <1>3 DEF Libusb!ReportsInit, Libusb!Reports!Init, ReadersInv
<1>4. CASE part = "mac"
  BY <1>2, <1>4 DEF Mac!ReportsInit, Mac!Reports!Init, ReadersInv
<1> QED
  BY <1>3, <1>4 DEF ReadersInv

LEMMA ReadersSteps ==
  ASSUME ReadersInv, [ReadersStep]_vars
  PROVE  ReadersInv' /\ InTurn
<1>1. PICK n \in Nat \ {0} : n = QueueLimit + 2
  BY MacConstants
<1>2. UNCHANGED part
  BY DEF ReadersStep, vars
<1>3. CASE part = "libusb"
  <2>1. Moves(n, queue["d"], arrived["d"], taken["d"], queue'["d"], arrived'["d"], taken'["d"])
    <3>1. CASE UNCHANGED vars
      BY <3>1 DEF vars, shared, Moves
    <3>2. CASE Libusb!ReportsStep
      BY <1>1, <3>2
         DEF Moves, NewestOf, Libusb!ReportsStep, Libusb!Reports!Next, Libusb!Reports!vars,
             Libusb!Reports!Arrive, Libusb!Reports!Newest, Libusb!Reports!HandOut,
             Libusb!Reports!Leave, Libusb!Reports!Fail, Libusb!Reports!Clear
    <3> QED
      BY <1>3, <3>1, <3>2 DEF ReadersStep
  <2>2. Keeps(n, queue["d"], arrived["d"], taken["d"])
    BY <1>1, <1>3 DEF ReadersInv
  <2>3. /\ Keeps(n, queue'["d"], arrived'["d"], taken'["d"])
        /\ taken'["d"] # taken["d"] => taken["d"] < taken'["d"]
    BY <2>1, <2>2, KeepsOn
  <2> QED
    BY <1>1, <1>2, <1>3, <2>3 DEF ReadersInv, InTurn
<1>4. CASE part = "mac"
  <2>1. Moves(n, queue, arrived, taken, queue', arrived', taken')
    <3>1. CASE UNCHANGED vars
      BY <3>1 DEF vars, shared, Moves
    <3>2. CASE Mac!ReportsStep
      BY <1>1, <3>2
         DEF Moves, NewestOf, Mac!ReportsStep, Mac!Reports!Next, Mac!Reports!vars,
             Mac!Reports!Arrive, Mac!Reports!Newest, Mac!Reports!HandOut, Mac!Reports!Leave,
             Mac!Reports!Fail, Mac!Reports!Clear
    <3> QED
      BY <1>4, <3>1, <3>2 DEF ReadersStep
  <2>2. Keeps(n, queue, arrived, taken)
    BY <1>1, <1>4 DEF ReadersInv
  <2>3. Keeps(n, queue', arrived', taken') /\ (taken' # taken => taken < taken')
    BY <2>1, <2>2, KeepsOn
  <2> QED
    BY <1>1, <1>2, <1>4, <2>3 DEF ReadersInv, InTurn
<1> QED
  BY <1>2, <1>3, <1>4 DEF ReadersInv, InTurn

LEMMA ReadersHold == Spec => []ReadersInv /\ [][ReadersStep]_vars
<1>1. [Next]_vars => UNCHANGED part
  BY DEF Next, vars, TransportAlone, OperationsAlone, BuildAlone, WireAlone, LibusbAlone,
         MacAlone, WinAlone
<1>2. ReadersInv /\ [ReadersStep]_vars => ReadersInv'
  BY ReadersSteps
<1>3. [Next]_vars /\ [/\ part = "libusb" => Libusb!ReportsStep
                      /\ part = "mac" => Mac!ReportsStep]_vars => [ReadersStep]_vars
  BY <1>1 DEF ReadersStep
<1>4. Spec => (part = "libusb" => Libusb!ReportsInit) /\ (part = "mac" => Mac!ReportsInit)
  BY QueuesReportsAlways DEF QueuesReports
<1>5. Spec => [][/\ part = "libusb" => Libusb!ReportsStep
                 /\ part = "mac" => Mac!ReportsStep]_vars
  BY QueuesReportsAlways, PTL DEF QueuesReports
<1>6. (part = "libusb" => Libusb!ReportsInit) /\ (part = "mac" => Mac!ReportsInit) => ReadersInv
  BY ReadersInitially
<1> QED
  BY <1>2, <1>3, <1>4, <1>5, <1>6, PTL DEF Spec

(* What hid_read of hid-linux-libusb.c and of hid-mac.c has not handed out *)
(* yet is the newest reports that the callback was given, none missing     *)
(* between them, up to the limit of the queue.                             *)
THEOREM ReadersKeepNewest ==
    Spec => [](/\ part = "libusb" => Libusb!Reports("d")!KeepsNewest
               /\ part = "mac" => Mac!Reports!KeepsNewest)
<1>1. ReadersInv => /\ part = "libusb" => Libusb!Reports("d")!KeepsNewest
                    /\ part = "mac" => Mac!Reports!KeepsNewest
  BY DEF ReadersInv, Keeps, Libusb!Reports!KeepsNewest, Mac!Reports!KeepsNewest
<1> QED
  BY <1>1, ReadersHold, PTL

(* They hand out each report once, in the order they came in.              *)
THEOREM ReadersInOrder == Spec => [][InTurn]_vars
<1>1. ReadersInv /\ [ReadersStep]_vars => [InTurn]_vars
  BY ReadersSteps
<1> QED
  BY <1>1, ReadersHold, PTL

=============================================================================
