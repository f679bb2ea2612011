--------------------------- MODULE TransportProofs ---------------------------
(***************************************************************************)
(* Proofs about Transport: however many programs use one device, a program *)
(* comes to share a channel only in a race for it, and on a channel of its *)
(* own it is never given the answer to another command than its last.      *)
(***************************************************************************)
EXTENDS Transport, FiniteSetTheorems, SequenceTheorems, TLAPS

(* Frames and messages: whose call they belong to, and what always holds   *)
(* of one.                                                                 *)
By(f) == f.id[1].by
Of(f) == f.id[1].no
Nth(f) == f.id[2]
Who(p) == [by |-> p, no |-> call[p].no]

Callers == [by: Programs, no: Nat]
Ids == Callers \X (Nat \ {0})

Frames ==
    {f \in [cid: Nat, id: Ids, total: Nat, cmd: Commands \cup {"CONT", "ERROR"},
            seq: Nat, new: Nat] :
        /\ f.cmd # "CONT" <=> Nth(f) = 1
        /\ f.cmd = "INIT" => f.total <= InitData}

Messages == [cid: Nat, cmd: Commands, total: Nat, have: Nat, next: Nat, of: Callers]

Typed ==
    /\ state \in [Programs -> {"closed", "new", "ready", "suspect"}]
    /\ pc \in [Programs -> {"idle", "send", "read"}]
    /\ cid \in [Programs -> Nat]
    /\ call \in [Programs -> [cmd: Commands, len: Nat, no: Nat]]
    /\ datasent \in [Programs -> Nat]
    /\ got \in [Programs -> [len: Nat, recvd: Nat, of: Seq(Ids)]]
    /\ result = [p \in Programs |-> result[p]]
    /\ queue \in [Programs -> Seq(Frames)] /\ emitting \in Seq(Frames)
    /\ jobs \in Seq(Messages) /\ inbox \subseteq Messages
    /\ channels \in Nat

(* What is under way.                                                      *)
Elements(s) == {s[k] : k \in 1 .. Len(s)}
Queued(p) == Elements(queue[p])
Emitted == Elements(emitting)
Pending(p) == Queued(p) \cup Emitted
Owed == Elements(jobs)

(* The order in which the calls of one program on one channel were made.   *)
Earlier(f, g) ==
    By(f) = By(g) /\ f.cid = g.cid => Of(f) < Of(g) \/ (Of(f) = Of(g) /\ Nth(f) < Nth(g))
Before(f, j) == By(f) = j.of.by /\ f.cid = j.cid => Of(f) < j.of.no
Sooner(i, j) == i.of.by = j.of.by /\ i.cid = j.cid => i.of.no < j.of.no

Increasing(s) == \A k \in 1 .. Len(s) : \A l \in 1 .. Len(s) : k < l => Earlier(s[k], s[l])
Rising(s) == \A k \in 1 .. Len(s) : \A l \in 1 .. Len(s) : k < l => Sooner(s[k], s[l])

Ordered ==
    /\ \A p \in Programs : Increasing(queue[p])
    /\ Increasing(emitting) /\ Rising(jobs)
    /\ \A p \in Programs : \A f \in Queued(p) : \A g \in Emitted : Earlier(f, g)
    /\ \A p \in Programs : \A f \in Pending(p) : \A j \in Owed \cup inbox : Before(f, j)
    /\ \A j \in Owed : \A m \in inbox : Sooner(j, m)

(* Nothing is newer than the call its program is in.                       *)
Made(who) ==
    /\ who.no <= call[who.by].no
    /\ pc[who.by] = "send" /\ datasent[who.by] = 0 => who.no < call[who.by].no
Counted ==
    /\ \A p \in Programs : \A f \in Pending(p) : Made(f.id[1])
    /\ \A j \in Owed \cup inbox : Made(j.of)

(* The channels that are in use or on their way were given out.            *)
Bounded ==
    /\ \A p \in Programs :
          /\ cid[p] <= channels
          /\ \A f \in Pending(p) :
                f.cid <= channels /\ (f.cmd = "INIT" => f.new \in 1 .. channels)
    /\ \A j \in Owed \cup inbox : j.cid <= channels

(* Nobody is on a channel, and nothing for it is under way.                *)
Unused(c) ==
    /\ \A p \in Programs : cid[p] # c /\ \A f \in Pending(p) : f.cid # c
    /\ \A j \in Owed \cup inbox : j.cid # c

Awaits(p, c) == state[p] = "new" /\ \E f \in Queued(p) : f.cmd = "INIT" /\ f.new = c

(* A channel that is on its way to a program is for that one only, and     *)
(* fresh - or raced for.                                                   *)
Given ==
    \A p \in Programs : \A c \in Nat \ raced : Awaits(p, c) =>
        Unused(c) /\ \A q \in Programs \ {p} : ~Awaits(q, c)

Fresh ==
    \A f \in Emitted : f.cmd = "INIT" =>
        /\ Len(emitting) = 1 /\ Unused(f.new)
        /\ \A p \in Programs : \A g \in Queued(p) : g.cmd = "INIT" => g.new # f.new

(* Two programs are on one channel only after a race.                      *)
Apart ==
    \A p, q \in Programs :
        /\ p # q /\ state[p] # "closed" /\ state[q] # "closed"
        /\ cid[p] = cid[q] /\ cid[p] # 0
        => cid[p] \in raced

(* What a program sends, in what it knows.                                 *)
SendsAt(p) ==
    /\ state[p] = "closed" => pc[p] = "idle" /\ result[p].rc # "OK"
    /\ state[p] = "new" => cid[p] = 0
    /\ state[p] \in {"ready", "suspect"} => cid[p] # 0
    /\ pc[p] # "idle" =>
          /\ state[p] = "new" => call[p].cmd = "INIT"
          /\ state[p] = "ready" => call[p].cmd \in {"PING", "MSG"}
          /\ state[p] = "suspect" => call[p].cmd = "PING"
    /\ pc[p] = "idle" => datasent[p] = 0
    /\ pc[p] = "send" => datasent[p] < call[p].len
    /\ pc[p] # "read" => got[p].of = <<>>
    /\ state[p] = "new" => got[p].of = <<>>
Sends == \A p \in Programs : SendsAt(p)

(* On a channel of its own a program meets nothing but its own, and what   *)
(* can be taken for the first frame of an answer is of the call it is in.  *)
On(p) == state[p] \in {"ready", "suspect"} /\ cid[p] \notin raced
Current(p, who) == who.no = call[p].no /\ pc[p] # "idle"
Fit(p, who, cmd) ==
    /\ who.by = p
    /\ state[p] = "ready" /\ cmd \in Commands => Current(p, who) /\ cmd = call[p].cmd
    /\ state[p] = "suspect" /\ cmd = "PING" => Current(p, who)
    /\ got[p].of # <<>> => cmd \notin Commands
PrivateAt(p) ==
    On(p) =>
        /\ \A f \in Pending(p) : f.cid = cid[p] => Fit(p, f.id[1], f.cmd)
        /\ \A j \in Owed \cup inbox : j.cid = cid[p] => Fit(p, j.of, j.cmd)
        /\ got[p].of # <<>> => got[p].of[1][1] = Who(p)
Private == \A p \in Programs : PrivateAt(p)

WholeAt(p) ==
    result[p].rc = "OK" /\ result[p].cmd # "INIT" /\ cid[p] \notin raced =>
        result[p].of[1][1] = Who(p)
Whole == \A p \in Programs : WholeAt(p)

ChannelsInv ==
    /\ Typed /\ Ordered /\ Counted /\ Bounded /\ Given /\ Fresh /\ Apart /\ Sends
    /\ Private /\ Whole

(* What is in a sequence, and in order, when one is taken or one comes.    *)
LEMMA ElementsOf ==
  ASSUME NEW S, NEW s \in Seq(S)
  PROVE  Elements(s) \subseteq S /\ Len(s) \in Nat /\ (s = <<>> => Elements(s) = {})
<1>1. Len(s) \in Nat /\ \A k \in 1 .. Len(s) : s[k] \in S
  BY LenProperties, ElementOfSeq
<1>2. s = <<>> => Len(s) = 0
  BY EmptySeq
<1> QED
  BY <1>1, <1>2 DEF Elements

LEMMA ElementsTail ==
  ASSUME NEW S, NEW s \in Seq(S), s # <<>>
  PROVE  /\ Head(s) \in S /\ Head(s) \in Elements(s) /\ Tail(s) \in Seq(S)
         /\ Elements(Tail(s)) \subseteq Elements(s)
         /\ Len(Tail(s)) = Len(s) - 1
<1>1. /\ Head(s) = s[1] /\ Tail(s) \in Seq(S) /\ Len(Tail(s)) = Len(s) - 1
      /\ \A k \in 1 .. Len(s) - 1 : Tail(s)[k] = s[k + 1]
      /\ Len(s) \in Nat /\ Len(s) # 0
  BY HeadTailProperties, LenProperties, EmptySeq
<1>2. s[1] \in S
  BY <1>1, ElementOfSeq
<1> QED
  BY <1>1, <1>2 DEF Elements

LEMMA IncreasingTail ==
  ASSUME NEW S, NEW s \in Seq(S), s # <<>>, Increasing(s)
  PROVE  Increasing(Tail(s)) /\ \A g \in Elements(Tail(s)) : Earlier(Head(s), g)
<1>1. /\ Head(s) = s[1] /\ Len(Tail(s)) = Len(s) - 1
      /\ \A k \in 1 .. Len(s) - 1 : Tail(s)[k] = s[k + 1]
      /\ Len(s) \in Nat /\ Len(s) # 0
  BY HeadTailProperties, LenProperties, EmptySeq
<1> QED
  BY <1>1 DEF Increasing, Elements

LEMMA RisingTail ==
  ASSUME NEW S, NEW s \in Seq(S), s # <<>>, Rising(s)
  PROVE  Rising(Tail(s)) /\ \A j \in Elements(Tail(s)) : Sooner(Head(s), j)
<1>1. /\ Head(s) = s[1] /\ Len(Tail(s)) = Len(s) - 1
      /\ \A k \in 1 .. Len(s) - 1 : Tail(s)[k] = s[k + 1]
      /\ Len(s) \in Nat /\ Len(s) # 0
  BY HeadTailProperties, LenProperties, EmptySeq
<1> QED
  BY <1>1 DEF Rising, Elements

LEMMA ElementsAppend ==
  ASSUME NEW S, NEW s \in Seq(S), NEW e \in S
  PROVE  /\ Append(s, e) \in Seq(S) /\ Elements(Append(s, e)) = Elements(s) \cup {e}
         /\ Len(Append(s, e)) = Len(s) + 1
<1>1. /\ Append(s, e) \in Seq(S) /\ Len(Append(s, e)) = Len(s) + 1 /\ Len(s) \in Nat
      /\ \A k \in 1 .. Len(s) : Append(s, e)[k] = s[k]
      /\ Append(s, e)[Len(s) + 1] = e
  BY AppendProperties, LenProperties
<1> HIDE DEF Elements
<1>2. \A x \in Elements(Append(s, e)) : x \in Elements(s) \cup {e}
  BY <1>1 DEF Elements
<1>3. \A x \in Elements(s) : x \in Elements(Append(s, e))
  BY <1>1 DEF Elements
<1>4. e \in Elements(Append(s, e))
  <2>1. Len(s) + 1 \in 1 .. Len(Append(s, e))
    BY <1>1
  <2> QED
    BY <1>1, <2>1 DEF Elements
<1> QED
  BY <1>1, <1>2, <1>3, <1>4

LEMMA IncreasingAppend ==
  ASSUME NEW S, NEW s \in Seq(S), NEW e \in S, Increasing(s),
         \A g \in Elements(s) : Earlier(g, e)
  PROVE  Increasing(Append(s, e))
<1>1. /\ Len(Append(s, e)) = Len(s) + 1 /\ Len(s) \in Nat
      /\ \A k \in 1 .. Len(s) : Append(s, e)[k] = s[k]
      /\ Append(s, e)[Len(s) + 1] = e
  BY AppendProperties, LenProperties
<1> SUFFICES ASSUME NEW k \in 1 .. Len(Append(s, e)), NEW l \in 1 .. Len(Append(s, e)), k < l
             PROVE  Earlier(Append(s, e)[k], Append(s, e)[l])
  BY DEF Increasing
<1>2. k \in 1 .. Len(s) /\ Append(s, e)[k] = s[k] /\ s[k] \in Elements(s)
  BY <1>1 DEF Elements
<1>3. CASE l = Len(s) + 1
  BY <1>1, <1>2, <1>3
<1>4. CASE l \in 1 .. Len(s)
  BY <1>1, <1>2, <1>4 DEF Increasing
<1> QED
  BY <1>1, <1>3, <1>4

LEMMA RisingAppend ==
  ASSUME NEW S, NEW s \in Seq(S), NEW e \in S, Rising(s),
         \A j \in Elements(s) : Sooner(j, e)
  PROVE  Rising(Append(s, e))
<1>1. /\ Len(Append(s, e)) = Len(s) + 1 /\ Len(s) \in Nat
      /\ \A k \in 1 .. Len(s) : Append(s, e)[k] = s[k]
      /\ Append(s, e)[Len(s) + 1] = e
  BY AppendProperties, LenProperties
<1> SUFFICES ASSUME NEW k \in 1 .. Len(Append(s, e)), NEW l \in 1 .. Len(Append(s, e)), k < l
             PROVE  Sooner(Append(s, e)[k], Append(s, e)[l])
  BY DEF Rising
<1>2. k \in 1 .. Len(s) /\ Append(s, e)[k] = s[k] /\ s[k] \in Elements(s)
  BY <1>1 DEF Elements
<1>3. CASE l = Len(s) + 1
  BY <1>1, <1>2, <1>3
<1>4. CASE l \in 1 .. Len(s)
  BY <1>1, <1>2, <1>4 DEF Rising
<1> QED
  BY <1>1, <1>3, <1>4

LEMMA FlowsHold ==
  ASSUME Typed
  PROVE  /\ \A p \in Programs : Queued(p) \subseteq Frames /\ Pending(p) \subseteq Frames
         /\ Emitted \subseteq Frames /\ Owed \subseteq Messages /\ inbox \subseteq Messages
         /\ \A f \in Frames : /\ f.id[1] \in Callers /\ By(f) \in Programs /\ Of(f) \in Nat
                              /\ Nth(f) \in Nat \ {0} /\ f.cid \in Nat
                              /\ f.cmd \in Commands => Nth(f) = 1
         /\ \A j \in Messages : j.of \in Callers /\ j.of.by \in Programs /\ j.of.no \in Nat
<1>1. \A p \in Programs : Queued(p) \subseteq Frames
  BY ElementsOf DEF Typed, Queued
<1>2. Emitted \subseteq Frames /\ Owed \subseteq Messages
  BY ElementsOf DEF Typed, Emitted, Owed
<1>3. ASSUME NEW f \in Frames
      PROVE  /\ f.id[1] \in Callers /\ By(f) \in Programs /\ Of(f) \in Nat
             /\ Nth(f) \in Nat \ {0} /\ f.cid \in Nat
             /\ f.cmd \in Commands => Nth(f) = 1
  <2>1. f.id \in Ids /\ f.cid \in Nat /\ (f.cmd # "CONT" <=> Nth(f) = 1)
    BY DEF Frames
  <2>2. f.id[1] \in Callers /\ f.id[2] \in Nat \ {0}
    BY <2>1 DEF Ids
  <2> QED
    BY <2>1, <2>2 DEF Callers, By, Of, Nth, Commands
<1>4. \A j \in Messages : j.of \in Callers /\ j.of.by \in Programs /\ j.of.no \in Nat
  BY DEF Messages, Callers
<1> QED
  BY <1>1, <1>2, <1>3, <1>4 DEF Pending, Typed

LEMMA InitChannels == Init => ChannelsInv
<1> SUFFICES ASSUME Init PROVE ChannelsInv
  OBVIOUS
<1>1. \A p \in Programs :
         /\ state[p] = "closed" /\ pc[p] = "idle" /\ cid[p] = 0 /\ datasent[p] = 0
         /\ got[p].of = <<>> /\ result[p].rc = "none" /\ queue[p] = <<>>
  BY DEF Init, Broadcast, NoAnswer, NoResult
<1>2. inbox = {} /\ jobs = <<>> /\ emitting = <<>> /\ channels = 0
  BY DEF Init
<1>3. Elements(<<>>) = {}
  BY EmptySeq DEF Elements
<1>4. (\A p \in Programs : Queued(p) = {} /\ Pending(p) = {}) /\ Owed = {} /\ Emitted = {}
  BY <1>1, <1>2, <1>3 DEF Pending, Owed, Queued, Emitted
<1>5. Typed
  <2>1. <<>> \in Seq(Frames) /\ <<>> \in Seq(Messages) /\ <<>> \in Seq(Ids)
    BY EmptySeq
  <2>2. NoAnswer \in [len: Nat, recvd: Nat, of: Seq(Ids)]
    BY <2>1 DEF NoAnswer
  <2>3. got \in [Programs -> [len: Nat, recvd: Nat, of: Seq(Ids)]]
    BY <2>2 DEF Init
  <2>4. result = [p \in Programs |-> result[p]]
    BY DEF Init
  <2> QED
    BY <2>1, <2>3, <2>4 DEF Init, Typed, Broadcast, Commands
<1>6. Ordered
  <2>1. \A s : s = <<>> => Increasing(s) /\ Rising(s)
    BY EmptySeq DEF Increasing, Rising
  <2> QED
    BY <1>1, <1>2, <1>4, <2>1 DEF Ordered
<1>7. Counted /\ Bounded /\ Given /\ Fresh
  BY <1>1, <1>2, <1>4 DEF Counted, Bounded, Given, Fresh, Awaits
<1>8. Apart /\ Sends /\ Private /\ Whole
  BY <1>1 DEF Apart, Sends, SendsAt, Private, PrivateAt, On, Whole, WholeAt
<1> QED
  BY <1>5, <1>6, <1>7, <1>8 DEF ChannelsInv

(* What the invariant does not speak of, the window and the sequence       *)
(* number, may change.                                                     *)
LEMMA SameState ==
  ASSUME ChannelsInv, UNCHANGED <<state, pc, cid, call, datasent, got, result, queue>>,
         UNCHANGED <<inbox, jobs, emitting, channels, raced>>
  PROVE  ChannelsInv'
<1>1. /\ \A p : Queued(p)' = Queued(p) /\ Pending(p)' = Pending(p) /\ Who(p)' = Who(p)
      /\ UNCHANGED <<Emitted, Owed>>
  BY DEF Queued, Pending, Emitted, Owed, Who
<1>2. Typed' /\ Ordered' /\ Counted' /\ Bounded'
  BY <1>1 DEF ChannelsInv, Typed, Ordered, Counted, Bounded, Made
<1>3. Given' /\ Fresh' /\ Apart' /\ Sends'
  BY <1>1 DEF ChannelsInv, Given, Awaits, Unused, Fresh, Apart, Sends, SendsAt
<1>4. Private' /\ Whole'
  BY <1>1 DEF ChannelsInv, Private, PrivateAt, On, Fit, Current, Whole, WholeAt
<1> QED
  BY <1>2, <1>3, <1>4 DEF ChannelsInv

(* What a step of one program changes of a function of the programs.       *)
LEMMA Updated ==
  ASSUME NEW S, NEW f \in [Programs -> S], NEW p \in Programs, NEW v \in S,
         NEW g, g = [f EXCEPT ![p] = v]
  PROVE  g \in [Programs -> S] /\ g[p] = v /\ \A q \in Programs \ {p} : g[q] = f[q]
OBVIOUS

(* What u2fh_sendrecv leaves when it returns.                              *)
LEMMA ReturnLeaves ==
  ASSUME Typed, NEW p \in Programs, NEW r, NEW a, Return(p, r, a)
  PROVE  /\ pc' \in [Programs -> {"idle", "send", "read"}] /\ pc'[p] = "idle"
         /\ datasent' \in [Programs -> Nat] /\ datasent'[p] = 0
         /\ got' \in [Programs -> [len: Nat, recvd: Nat, of: Seq(Ids)]] /\ got'[p].of = <<>>
         /\ state' \in [Programs -> {"closed", "new", "ready", "suspect"}]
         /\ state'[p] = StateAfter(call[p].cmd, r)
         /\ result' = [q \in Programs |-> result'[q]]
         /\ result'[p].rc = r /\ result'[p].cmd = call[p].cmd /\ result'[p].of = a.of
         /\ \A q \in Programs \ {p} :
               /\ pc'[q] = pc[q] /\ datasent'[q] = datasent[q] /\ got'[q] = got[q]
               /\ state'[q] = state[q] /\ result'[q] = result[q]
<1>1. /\ pc' \in [Programs -> {"idle", "send", "read"}] /\ pc'[p] = "idle"
      /\ \A q \in Programs \ {p} : pc'[q] = pc[q]
  BY DEF Return, Typed
<1>2. /\ datasent' \in [Programs -> Nat] /\ datasent'[p] = 0
      /\ \A q \in Programs \ {p} : datasent'[q] = datasent[q]
  BY DEF Return, Typed
<1>3. /\ got' \in [Programs -> [len: Nat, recvd: Nat, of: Seq(Ids)]] /\ got'[p].of = <<>>
      /\ \A q \in Programs \ {p} : got'[q] = got[q]
  <2>1. NoAnswer \in [len: Nat, recvd: Nat, of: Seq(Ids)] /\ NoAnswer.of = <<>>
    BY EmptySeq DEF NoAnswer
  <2>2. PICK v \in [len: Nat, recvd: Nat, of: Seq(Ids)] : v = NoAnswer
    BY <2>1
  <2>3. got' = [got EXCEPT ![p] = v] /\ got \in [Programs -> [len: Nat, recvd: Nat, of: Seq(Ids)]]
    BY <2>2 DEF Return, Typed
  <2> QED
    BY <2>1, <2>2, <2>3, Updated
<1>4. /\ state' \in [Programs -> {"closed", "new", "ready", "suspect"}]
      /\ state'[p] = StateAfter(call[p].cmd, r)
      /\ \A q \in Programs \ {p} : state'[q] = state[q]
  <2>1. PICK v \in {"closed", "new", "ready", "suspect"} : v = StateAfter(call[p].cmd, r)
    BY DEF StateAfter
  <2> QED
    BY <2>1 DEF Return, Typed
<1>5. /\ result' = [q \in Programs |-> result'[q]]
      /\ result'[p].rc = r /\ result'[p].cmd = call[p].cmd /\ result'[p].of = a.of
      /\ \A q \in Programs \ {p} : result'[q] = result[q]
  <2>1. PICK v : v = [rc |-> r, cmd |-> call[p].cmd, len |-> a.len, of |-> a.of]
    OBVIOUS
  <2>2. result' = [result EXCEPT ![p] = v] /\ result = [q \in Programs |-> result[q]]
    BY <2>1 DEF Return, Typed
  <2>3. /\ result' = [q \in Programs |-> result'[q]] /\ result'[p] = v
        /\ \A q \in Programs \ {p} : result'[q] = result[q]
    BY <2>2
  <2> QED
    BY <2>1, <2>3
<1> QED
  BY <1>1, <1>2, <1>3, <1>4, <1>5

(* When less is under way than before, what is in order stays so, and so   *)
(* does what is on its way to programs that still wait.                    *)
LEMMA FewerKeep ==
  ASSUME ChannelsInv, Typed', UNCHANGED <<emitting, jobs, inbox, channels>>,
         \A p \in Programs : Increasing(queue'[p]) /\ Queued(p)' \subseteq Queued(p),
         \A p \in Programs : \A n \in Nat :
            Made([by |-> p, no |-> n]) => Made([by |-> p, no |-> n])'
  PROVE  /\ Ordered' /\ Counted' /\ UNCHANGED <<Emitted, Owed>>
         /\ \A p \in Programs : Pending(p)' \subseteq Pending(p)
<1>1. UNCHANGED <<Emitted, Owed>> /\ \A p \in Programs : Pending(p)' \subseteq Pending(p)
  BY DEF Emitted, Owed, Pending
<1>2. Ordered'
  BY <1>1 DEF ChannelsInv, Ordered
<1>3. \A w \in Callers : w.by \in Programs /\ w.no \in Nat /\ w = [by |-> w.by, no |-> w.no]
  BY DEF Callers
<1>4. \A w \in Callers : Made(w) => Made(w)'
  BY <1>3
<1>5. Counted'
  <2>1. \A p \in Programs : \A f \in Pending(p) : f.id[1] \in Callers
    BY FlowsHold DEF ChannelsInv
  <2>2. \A j \in Owed \cup inbox : j.of \in Callers
    BY FlowsHold DEF ChannelsInv
  <2> QED
    BY <1>1, <1>4, <2>1, <2>2 DEF ChannelsInv, Counted
<1> QED
  BY <1>1, <1>2, <1>5

(* ... and what is on its way to programs that still wait, if no other     *)
(* program has come to use a channel.                                      *)
LEMMA FewerGiven ==
  ASSUME ChannelsInv, UNCHANGED <<emitting, jobs, inbox, channels, raced>>,
         \A p \in Programs : Queued(p)' \subseteq Queued(p),
         \A p \in Programs : cid'[p] \in {0, cid[p]},
         \A p \in Programs : state'[p] = "new" => state[p] = "new" \/ Queued(p)' = {}
  PROVE  Bounded' /\ Given' /\ Fresh'
<1>1. UNCHANGED <<Emitted, Owed>> /\ \A p \in Programs : Pending(p)' \subseteq Pending(p)
  BY DEF Emitted, Owed, Pending
<1>2. channels \in Nat /\ \A p \in Programs : cid[p] \in Nat
  BY DEF ChannelsInv, Typed
<1>3. Bounded'
  BY <1>1, <1>2 DEF ChannelsInv, Bounded
<1>4. \A c \in Nat \ {0} : Unused(c) => Unused(c)'
  BY <1>1 DEF Unused
<1>5. \A p \in Programs : \A c : Awaits(p, c)' => Awaits(p, c)
  BY DEF Awaits
<1>6. \A p \in Programs : \A c : Awaits(p, c) => c \in Nat \ {0}
  BY <1>2 DEF Awaits, ChannelsInv, Bounded, Pending
<1>7. Given'
  BY <1>4, <1>5, <1>6 DEF ChannelsInv, Given
<1>8. Fresh'
  <2>1. ASSUME NEW f \in Emitted, f.cmd = "INIT", NEW p \in Programs
        PROVE  f.new \in Nat \ {0}
    BY <1>2, <2>1 DEF ChannelsInv, Bounded, Pending
  <2>2. ASSUME NEW f \in Emitted, f.cmd = "INIT" PROVE Unused(f.new)'
    <3>1. Unused(f.new)
      BY <2>2 DEF ChannelsInv, Fresh
    <3>2. CASE Programs = {}
      BY <1>1, <3>1, <3>2 DEF Unused
    <3>3. CASE Programs # {}
      BY <1>4, <2>1, <2>2, <3>1, <3>3
    <3> QED
      BY <3>2, <3>3
  <2> QED
    BY <1>1, <2>2 DEF ChannelsInv, Fresh
<1> QED
  BY <1>3, <1>7, <1>8

(* A program that does not take the step knows what it knew, as long as    *)
(* nothing new is under way on its channel.                                *)
SameTo(q) ==
    /\ pc'[q] = pc[q] /\ datasent'[q] = datasent[q] /\ got'[q] = got[q]
    /\ state'[q] = state[q] /\ result'[q] = result[q]
    /\ cid'[q] = cid[q] /\ call'[q] = call[q]

LEMMA OthersKeep ==
  ASSUME ChannelsInv, NEW q \in Programs, SameTo(q), raced \subseteq raced',
         On(q) => \A f \in Pending(q)' : f.cid = cid[q] => f \in Pending(q),
         On(q) => \A j \in (Owed \cup inbox)' : j.cid = cid[q] =>
            \E i \in Owed \cup inbox : i.cid = j.cid /\ i.of = j.of /\ i.cmd = j.cmd
  PROVE  SendsAt(q)' /\ PrivateAt(q)' /\ WholeAt(q)'
<1>1. SendsAt(q) /\ PrivateAt(q) /\ WholeAt(q)
  BY DEF ChannelsInv, Sends, Private, Whole
<1>2. SendsAt(q)'
  BY <1>1 DEF SendsAt, SameTo
<1>3. On(q)' => On(q)
  BY DEF On, SameTo
<1>4. \A who, cmd : Fit(q, who, cmd) => Fit(q, who, cmd)'
  BY DEF Fit, Current, SameTo
<1>5. UNCHANGED Who(q)
  BY DEF Who, SameTo
<1>6. PrivateAt(q)'
  <2>1. ASSUME On(q) PROVE \A f \in Pending(q)' : f.cid = cid'[q] => Fit(q, f.id[1], f.cmd)'
    BY <1>1, <1>4, <2>1 DEF PrivateAt, SameTo
  <2>2. ASSUME On(q) PROVE \A j \in (Owed \cup inbox)' : j.cid = cid'[q] => Fit(q, j.of, j.cmd)'
    <3> SUFFICES ASSUME NEW j \in (Owed \cup inbox)', j.cid = cid'[q]
                 PROVE  Fit(q, j.of, j.cmd)'
      OBVIOUS
    <3>1. PICK i \in Owed \cup inbox : i.cid = j.cid /\ i.of = j.of /\ i.cmd = j.cmd
      BY <2>2 DEF SameTo
    <3>2. Fit(q, i.of, i.cmd)
      BY <1>1, <2>2, <3>1 DEF PrivateAt, SameTo
    <3>3. Fit(q, i.of, i.cmd)'
      BY <1>4, <3>2
    <3> QED
      BY <3>1, <3>3
  <2>3. ASSUME On(q) PROVE got'[q].of # <<>> => got'[q].of[1][1] = Who(q)'
    BY <1>1, <1>5, <2>3 DEF PrivateAt, SameTo
  <2> QED
    BY <1>3, <2>1, <2>2, <2>3 DEF PrivateAt
<1>7. WholeAt(q)'
  BY <1>1, <1>5 DEF WholeAt, SameTo
<1> QED
  BY <1>2, <1>6, <1>7

(* When it fails, no more is under way than before, and nothing the        *)
(* program can take for the answer to the ping it sends next.              *)
LEMMA FailKeeps ==
  ASSUME ChannelsInv, NEW p \in Programs, pc[p] # "idle", Fail(p),
         UNCHANGED <<cid, call, emitting, jobs, inbox, channels, raced>>,
         queue' \in [Programs -> Seq(Frames)],
         \A q \in Programs : Increasing(queue'[q]) /\ Queued(q)' \subseteq Queued(q)
  PROVE  ChannelsInv'
<1>1. PICK r, a : r = "TRANSPORT_ERROR" /\ a = NoAnswer
  OBVIOUS
<1>2. Return(p, r, a) /\ Typed
  BY <1>1 DEF Fail, ChannelsInv
<1>3. /\ pc' \in [Programs -> {"idle", "send", "read"}] /\ pc'[p] = "idle"
      /\ datasent' \in [Programs -> Nat] /\ datasent'[p] = 0
      /\ got' \in [Programs -> [len: Nat, recvd: Nat, of: Seq(Ids)]] /\ got'[p].of = <<>>
      /\ state' \in [Programs -> {"closed", "new", "ready", "suspect"}]
      /\ state'[p] = StateAfter(call[p].cmd, r)
      /\ result' = [q \in Programs |-> result'[q]]
      /\ result'[p].rc = r /\ result'[p].cmd = call[p].cmd /\ result'[p].of = a.of
      /\ \A q \in Programs \ {p} :
            /\ pc'[q] = pc[q] /\ datasent'[q] = datasent[q] /\ got'[q] = got[q]
            /\ state'[q] = state[q] /\ result'[q] = result[q]
  BY <1>2, ReturnLeaves
<1>4. /\ state'[p] = IF call[p].cmd = "MSG" THEN "suspect" ELSE "closed"
      /\ result'[p].rc = "TRANSPORT_ERROR"
  BY <1>1, <1>3 DEF StateAfter
<1>5. Typed'
  BY <1>2, <1>3 DEF Typed
<1>6. call[p].cmd = "MSG" => state[p] = "ready"
  BY DEF ChannelsInv, Sends, SendsAt, Typed
<1>7. \A q \in Programs : \A n \in Nat : Made([by |-> q, no |-> n]) => Made([by |-> q, no |-> n])'
  BY <1>3 DEF Made
<1>8. /\ Ordered' /\ Counted' /\ UNCHANGED <<Emitted, Owed>>
      /\ \A q \in Programs : Pending(q)' \subseteq Pending(q)
  BY <1>5, <1>7, FewerKeep
<1>9. \A q \in Programs : state'[q] = "new" => state[q] = "new"
  BY <1>3, <1>4
<1>10. Bounded' /\ Given' /\ Fresh'
  BY <1>9, FewerGiven
<1>11. \A q \in Programs : state[q] = "closed" => state'[q] = "closed"
  BY <1>3 DEF ChannelsInv, Sends, SendsAt
<1>12. Apart'
  BY <1>11 DEF ChannelsInv, Apart
<1>13. ASSUME NEW q \in Programs \ {p} PROVE SendsAt(q)' /\ PrivateAt(q)' /\ WholeAt(q)'
  <2>1. SameTo(q)
    BY <1>3 DEF SameTo
  <2> QED
    BY <1>8, <2>1, OthersKeep
<1>14. SendsAt(p)'
  BY <1>3, <1>4, <1>6 DEF ChannelsInv, Sends, SendsAt
<1>15. PrivateAt(p)'
  <2>1. ASSUME On(p)' PROVE On(p) /\ state[p] = "ready" /\ call[p].cmd = "MSG"
    BY <1>4, <1>6, <2>1 DEF On
  <2> QED
    BY <1>3, <1>4, <1>8, <2>1 DEF ChannelsInv, Private, PrivateAt, Fit, Commands
<1>16. WholeAt(p)'
  BY <1>4 DEF WholeAt
<1>17. Sends' /\ Private' /\ Whole'
  BY <1>13, <1>14, <1>15, <1>16 DEF Sends, Private, Whole
<1> QED
  BY <1>5, <1>8, <1>10, <1>12, <1>17 DEF ChannelsInv


(* hid_open_path: a handle starts with an empty queue.                     *)
LEMMA OpenKeeps ==
  ASSUME ChannelsInv, NEW p \in Programs, Open(p)
  PROVE  ChannelsInv'
<1>1. /\ state[p] = "closed" /\ state' = [state EXCEPT ![p] = "new"]
      /\ cid' = [cid EXCEPT ![p] = 0] /\ queue' = [queue EXCEPT ![p] = <<>>]
      /\ UNCHANGED <<pc, call, datasent, got, result, emitting, jobs, inbox, channels, raced>>
  BY DEF Open, FirstQueue, Broadcast, locals, devVars
<1>2. Typed
  BY DEF ChannelsInv
<1>3. /\ state' \in [Programs -> {"closed", "new", "ready", "suspect"}]
      /\ cid' \in [Programs -> Nat] /\ queue' \in [Programs -> Seq(Frames)]
      /\ state'[p] = "new" /\ cid'[p] = 0 /\ queue'[p] = <<>>
      /\ \A q \in Programs \ {p} :
            state'[q] = state[q] /\ cid'[q] = cid[q] /\ queue'[q] = queue[q]
  <2>1. <<>> \in Seq(Frames)
    BY EmptySeq
  <2>2. queue' \in [Programs -> Seq(Frames)] /\ queue'[p] = <<>>
        /\ \A q \in Programs \ {p} : queue'[q] = queue[q]
    <3>1. PICK v \in Seq(Frames) : v = <<>>
      BY <2>1
    <3>2. queue' = [queue EXCEPT ![p] = v] /\ queue \in [Programs -> Seq(Frames)]
      BY <1>1, <1>2, <3>1 DEF Typed
    <3> QED
      BY <3>1, <3>2, Updated
  <2> QED
    BY <1>1, <1>2, <2>2 DEF Typed
<1>4. Typed'
  BY <1>1, <1>2, <1>3 DEF Typed
<1>5. Queued(p)' = {} /\ Increasing(queue'[p])
  BY <1>3, EmptySeq DEF Queued, Elements, Increasing
<1>6. \A q \in Programs : Increasing(queue'[q]) /\ Queued(q)' \subseteq Queued(q)
  BY <1>3, <1>5 DEF Queued, ChannelsInv, Ordered
<1>7. /\ Ordered' /\ Counted' /\ UNCHANGED <<Emitted, Owed>>
      /\ \A q \in Programs : Pending(q)' \subseteq Pending(q)
  <2>1. \A q \in Programs : \A n \in Nat : Made([by |-> q, no |-> n]) => Made([by |-> q, no |-> n])'
    BY <1>1 DEF Made
  <2> QED
    BY <1>1, <1>4, <1>6, <2>1, FewerKeep
<1>8. Bounded' /\ Given' /\ Fresh'
  <2>1. \A q \in Programs : cid'[q] \in {0, cid[q]}
    BY <1>3
  <2>2. \A q \in Programs : state'[q] = "new" => state[q] = "new" \/ Queued(q)' = {}
    BY <1>3, <1>5
  <2> QED
    BY <1>1, <1>6, <2>1, <2>2, FewerGiven
<1>9. Apart'
  BY <1>1, <1>3 DEF ChannelsInv, Apart
<1>10. ASSUME NEW q \in Programs \ {p} PROVE SendsAt(q)' /\ PrivateAt(q)' /\ WholeAt(q)'
  <2>1. SameTo(q)
    BY <1>1, <1>3 DEF SameTo
  <2> QED
    BY <1>1, <1>7, <2>1, OthersKeep
<1>11. SendsAt(p)' /\ WholeAt(p)'
  BY <1>1, <1>3 DEF ChannelsInv, Sends, SendsAt, WholeAt
<1>12. PrivateAt(p)'
  BY <1>3 DEF PrivateAt, On
<1>13. Sends' /\ Private' /\ Whole'
  BY <1>10, <1>11, <1>12 DEF Sends, Private, Whole
<1> QED
  BY <1>4, <1>7, <1>8, <1>9, <1>13 DEF ChannelsInv

(* A call is new: nothing of it is under way when it begins.  Nothing that *)
(* a program between two calls can take for a first frame is under way.    *)
LEMMA CallKeeps ==
  ASSUME SizesAssumption, ChannelsInv, NEW p \in Programs, Call(p)
  PROVE  ChannelsInv'
<1>0. PICK cmd \in Allowed(state[p]) : \E len \in CommandLens(cmd) :
         call' = [call EXCEPT ![p] = [cmd |-> cmd, len |-> len, no |-> call[p].no + 1]]
  BY DEF Call
<1>1. PICK len \in CommandLens(cmd) :
         call' = [call EXCEPT ![p] = [cmd |-> cmd, len |-> len, no |-> call[p].no + 1]]
  BY <1>0
<1>2. /\ pc[p] = "idle"
      /\ pc' = [pc EXCEPT ![p] = IF call'[p].len > 0 THEN "send" ELSE "read"]
      /\ result' = [result EXCEPT ![p] = NoResult]
      /\ UNCHANGED <<state, cid, datasent, got, queue, emitting, jobs, inbox, channels, raced>>
  BY DEF Call, locals, devVars
<1>3. Typed
  BY DEF ChannelsInv
<1>4. cmd \in Commands /\ len \in Nat
  <2>1. Allowed(state[p]) \subseteq Commands
    BY DEF Allowed, Commands
  <2>2. CommandLens(cmd) \subseteq Nat
    BY DEF CommandLens, SizesAssumption
  <2> QED
    BY <2>1, <2>2
<1>5. /\ call' \in [Programs -> [cmd: Commands, len: Nat, no: Nat]]
      /\ call'[p].cmd = cmd /\ call'[p].len = len /\ call'[p].no = call[p].no + 1
      /\ \A q \in Programs \ {p} : call'[q] = call[q]
  <2>1. call \in [Programs -> [cmd: Commands, len: Nat, no: Nat]] /\ call[p].no \in Nat
    BY <1>3 DEF Typed
  <2>2. PICK v \in [cmd: Commands, len: Nat, no: Nat] :
           v = [cmd |-> cmd, len |-> len, no |-> call[p].no + 1]
    <3>1. [cmd |-> cmd, len |-> len, no |-> call[p].no + 1] \in [cmd: Commands, len: Nat, no: Nat]
      <4>1. PICK n \in Nat : n = call[p].no + 1
        BY <2>1
      <4> QED
        BY <1>4, <4>1
    <3> QED
      BY <3>1
  <2>3. call' = [call EXCEPT ![p] = v]
    BY <1>1, <2>2
  <2>4. /\ call' \in [Programs -> [cmd: Commands, len: Nat, no: Nat]] /\ call'[p] = v
        /\ \A q \in Programs \ {p} : call'[q] = call[q]
    BY <2>1, <2>3, Updated
  <2> QED
    BY <2>2, <2>4
<1>6. /\ pc' \in [Programs -> {"idle", "send", "read"}]
      /\ pc'[p] = (IF len > 0 THEN "send" ELSE "read")
      /\ \A q \in Programs \ {p} : pc'[q] = pc[q]
  BY <1>2, <1>3, <1>5 DEF Typed
<1>7. /\ result' = [q \in Programs |-> result'[q]] /\ result'[p].rc = "none"
      /\ \A q \in Programs \ {p} : result'[q] = result[q]
  <2>1. PICK v : v = NoResult
    OBVIOUS
  <2>2. /\ result' = [q \in Programs |-> result'[q]] /\ result'[p] = v
        /\ \A q \in Programs \ {p} : result'[q] = result[q]
    BY <1>2, <1>3, <2>1 DEF Typed
  <2> QED
    BY <2>1, <2>2 DEF NoResult
<1>8. Typed'
  BY <1>2, <1>3, <1>5, <1>6, <1>7 DEF Typed
<1>9. UNCHANGED <<Emitted, Owed>> /\ \A q : Queued(q)' = Queued(q) /\ Pending(q)' = Pending(q)
  BY <1>2 DEF Emitted, Owed, Queued, Pending
<1>10. \A n \in Nat : Made([by |-> p, no |-> n]) => n <= call[p].no
  BY DEF Made
<1>11. Ordered' /\ Counted'
  <2>1. ASSUME NEW q \in Programs, NEW n \in Nat, Made([by |-> q, no |-> n])
        PROVE  Made([by |-> q, no |-> n])'
    <3>1. CASE q = p
      <4>1. n <= call[p].no /\ call[p].no \in Nat
        BY <1>3, <1>10, <2>1, <3>1 DEF Typed
      <4>2. n < call'[p].no
        BY <1>5, <4>1
      <4> QED
        BY <1>5, <3>1, <4>1, <4>2 DEF Made
    <3>2. CASE q # p
      BY <1>2, <1>5, <1>6, <2>1, <3>2 DEF Made
    <3> QED
      BY <3>1, <3>2
  <2>2. \A q \in Programs : Increasing(queue'[q]) /\ Queued(q)' \subseteq Queued(q)
    BY <1>2, <1>9 DEF ChannelsInv, Ordered
  <2> QED
    BY <1>2, <1>8, <2>1, <2>2, FewerKeep
<1>12. Bounded' /\ Given' /\ Fresh'
  BY <1>2, <1>9, FewerGiven
<1>13. Apart'
  BY <1>2 DEF ChannelsInv, Apart
<1>14. ASSUME NEW q \in Programs \ {p} PROVE SendsAt(q)' /\ PrivateAt(q)' /\ WholeAt(q)'
  <2>1. SameTo(q)
    BY <1>2, <1>5, <1>6, <1>7 DEF SameTo
  <2> QED
    BY <1>2, <1>9, <2>1, OthersKeep
<1>15. /\ state[p] = "new" => cmd = "INIT"
       /\ state[p] = "ready" => cmd \in {"PING", "MSG"}
       /\ state[p] = "suspect" => cmd = "PING"
       /\ state[p] # "closed"
  BY DEF Allowed
<1>16. SendsAt(p) /\ PrivateAt(p)
  BY DEF ChannelsInv, Sends, Private
<1>17. SendsAt(p)'
  BY <1>2, <1>4, <1>5, <1>6, <1>7, <1>15, <1>16 DEF SendsAt
<1>18. PrivateAt(p)'
  <2>1. \A who, c : Fit(p, who, c) => Fit(p, who, c)'
    BY <1>2 DEF Fit, Current
  <2>2. On(p)' => On(p)
    BY <1>2 DEF On
  <2> QED
    BY <1>2, <1>9, <1>16, <2>1, <2>2 DEF PrivateAt, SendsAt
<1>19. WholeAt(p)'
  BY <1>7 DEF WholeAt
<1>20. Sends' /\ Private' /\ Whole'
  BY <1>14, <1>17, <1>18, <1>19 DEF Sends, Private, Whole
<1> QED
  BY <1>8, <1>11, <1>12, <1>13, <1>20 DEF ChannelsInv

(* The queues are as they were: in order.                                  *)
LEMMA SameQueues ==
  ASSUME ChannelsInv, UNCHANGED queue
  PROVE  /\ queue' \in [Programs -> Seq(Frames)]
         /\ \A q \in Programs : Increasing(queue'[q]) /\ Queued(q)' \subseteq Queued(q)
BY DEF ChannelsInv, Typed, Ordered, Queued

LEMMA TimeoutKeeps ==
  ASSUME ChannelsInv, NEW p \in Programs, ReadTimeout(p)
  PROVE  ChannelsInv'
<1>1. CASE LastWindow(p)
  <2>1. /\ Fail(p) /\ pc[p] # "idle"
        /\ UNCHANGED <<cid, call, queue, emitting, jobs, inbox, channels, raced>>
    BY <1>1 DEF ReadTimeout, devVars
  <2> QED
    BY <2>1, SameQueues, FailKeeps
<1>2. CASE ~LastWindow(p)
  <2>1. /\ UNCHANGED <<state, pc, cid, call, datasent, got, result, queue>>
        /\ UNCHANGED <<inbox, jobs, emitting, channels, raced>>
    BY <1>2 DEF ReadTimeout, devVars
  <2> QED
    BY <2>1, SameState
<1> QED
  BY <1>1, <1>2

LEMMA ReadFailsKeeps ==
  ASSUME ChannelsInv, NEW p \in Programs, ReadFails(p)
  PROVE  ChannelsInv'
<1>1. /\ Fail(p) /\ pc[p] # "idle"
      /\ UNCHANGED <<cid, call, queue, emitting, jobs, inbox, channels, raced>>
  BY DEF ReadFails, devVars
<1> QED
  BY <1>1, SameQueues, FailKeeps

(* What the device makes of a frame: nothing, or a message - that of the   *)
(* frame, or one it has begun - that is complete or is not.                *)
Grown(f, who, x) ==
    /\ x.cid = f.cid
    /\ \/ f.cmd # "CONT" /\ x.of = who /\ x.cmd = f.cmd
       \/ \E m \in inbox : m.cid = f.cid /\ x.of = m.of /\ x.cmd = m.cmd
    /\ \/ jobs' = Append(jobs, x) /\ inbox' = {m \in inbox : m.cid # f.cid}
       \/ jobs' = jobs /\ inbox' = {m \in inbox : m.cid # f.cid} \cup {x}

LEMMA Arrives ==
  ASSUME Typed, NEW who \in Callers, NEW f, Received(f, who),
         f.cid \in Nat, f.size \in Nat, f.total \in Nat, f.cmd \in Commands \cup {"CONT"}
  PROVE  \/ inbox' \subseteq inbox /\ jobs' = jobs
         \/ \E x \in Messages : Grown(f, who, x)
<1> DEFINE open == {m \in inbox : m.cid = f.cid}
           rest == {m \in inbox : m.cid # f.cid}
<1>1. inbox \ open = rest /\ rest \subseteq inbox
  OBVIOUS
<1>2. CASE f.cmd # "CONT"
  <2>1. PICK x : x = [cid |-> f.cid, cmd |-> f.cmd, total |-> f.total,
                      have |-> f.size, next |-> 0, of |-> who]
    OBVIOUS
  <2>2. x \in Messages /\ x.cid = f.cid /\ x.of = who /\ x.cmd = f.cmd
    BY <1>2, <2>1 DEF Messages
  <2>3. \/ jobs' = Append(jobs, x) /\ inbox' = rest
        \/ jobs' = jobs /\ inbox' = rest \cup {x}
    BY <1>1, <1>2, <2>1 DEF Received
  <2> QED
    BY <1>2, <2>2, <2>3 DEF Grown
<1>3. CASE f.cmd = "CONT"
  <2> DEFINE old == CHOOSE m \in open : TRUE
  <2>1. CASE open = {} \/ old.next # f.seq
    BY <1>1, <1>3, <2>1 DEF Received
  <2>2. CASE ~(open = {} \/ old.next # f.seq)
    <3>1. old \in open /\ old \in Messages
      BY <2>2 DEF Typed
    <3>2. PICK m : m = old
      OBVIOUS
    <3>3. PICK x : x = [m EXCEPT !.have = @ + f.size, !.next = @ + 1]
      OBVIOUS
    <3>4. x \in Messages /\ x.cid = m.cid /\ x.of = m.of /\ x.cmd = m.cmd
      <4>1. m \in Messages
        BY <3>1, <3>2
      <4>2. m.have + f.size \in Nat /\ m.next + 1 \in Nat
        BY <4>1 DEF Messages
      <4> QED
        BY <3>3, <4>1, <4>2 DEF Messages
    <3>5. \/ jobs' = Append(jobs, x) /\ inbox' = rest
          \/ jobs' = jobs /\ inbox' = rest \cup {x}
      BY <1>1, <1>3, <2>2, <3>2, <3>3 DEF Received
    <3> QED
      BY <3>1, <3>2, <3>4, <3>5 DEF Grown
  <2> QED
    BY <2>1, <2>2
<1> QED
  BY <1>2, <1>3

(* hid_write takes a frame that is not empty.                              *)
LEMMA FrameSent ==
  ASSUME SizesAssumption, ChannelsInv, NEW p \in Programs, pc[p] = "send"
  PROVE  /\ FrameTo(p).cid = cid[p] /\ FrameTo(p).size \in Nat \ {0}
         /\ FrameTo(p).total \in Nat
         /\ IF datasent[p] = 0 THEN FrameTo(p).cmd = call[p].cmd ELSE FrameTo(p).cmd = "CONT"
         /\ call[p].cmd \in Commands /\ call[p].cmd # "CONT"
<1>1. /\ datasent[p] \in Nat /\ call[p].len \in Nat /\ call[p].cmd \in Commands
      /\ datasent[p] < call[p].len
  BY DEF ChannelsInv, Typed, Sends, SendsAt
<1>2. \A a, b \in Nat \ {0} : Smaller(a, b) \in Nat \ {0}
  BY DEF Smaller
<1>3. CASE datasent[p] = 0
  <2>1. call[p].len \in Nat \ {0} /\ InitData \in Nat \ {0}
    BY <1>1, <1>3 DEF SizesAssumption
  <2> QED
    BY <1>1, <1>2, <1>3, <2>1 DEF FrameTo, Commands
<1>4. CASE datasent[p] # 0
  <2>1. call[p].len - datasent[p] \in Nat \ {0} /\ ContData \in Nat \ {0}
    BY <1>1 DEF SizesAssumption
  <2> QED
    BY <1>1, <1>2, <1>4, <2>1 DEF FrameTo, Commands
<1> QED
  BY <1>3, <1>4

(* What is under way with the device in the next state: what was, and the  *)
(* message of the frame.                                                   *)
LEMMA ArrivesIn ==
  ASSUME Typed, NEW f, NEW who, NEW x \in Messages, Grown(f, who, x)
  PROVE  /\ jobs' \in Seq(Messages) /\ inbox' \subseteq Messages
         /\ \A j \in (Owed \cup inbox)' : j = x \/ j \in Owed \cup inbox
         /\ \/ /\ jobs' = Append(jobs, x) /\ Owed' = Owed \cup {x}
               /\ \A m \in inbox' : m \in inbox /\ m.cid # x.cid
            \/ jobs' = jobs /\ Owed' = Owed /\ \A m \in inbox' : m = x \/ m \in inbox
<1>1. jobs \in Seq(Messages) /\ inbox \subseteq Messages
  BY DEF Typed
<1>2. CASE jobs' = Append(jobs, x) /\ inbox' = {m \in inbox : m.cid # f.cid}
  <2>1. jobs' \in Seq(Messages) /\ Owed' = Owed \cup {x}
    BY <1>1, <1>2, ElementsAppend DEF Owed
  <2> QED
    BY <1>1, <1>2, <2>1 DEF Grown
<1>3. CASE jobs' = jobs /\ inbox' = {m \in inbox : m.cid # f.cid} \cup {x}
  <2>1. Owed' = Owed
    BY <1>3 DEF Owed
  <2>2. (Owed \cup inbox)' = Owed' \cup inbox'
    OBVIOUS
  <2> QED
    BY <1>1, <1>3, <2>1, <2>2
<1> QED
  BY <1>2, <1>3 DEF Grown

(* What a frame of a program brings the device: a message on its channel,  *)
(* of its call or one that was begun; in the order of the calls.           *)
Brought(p, x) ==
    /\ x.cid = cid[p]
    /\ \/ datasent[p] = 0 /\ x.of = Who(p) /\ x.cmd = call[p].cmd
       \/ \E m \in inbox : m.cid = cid[p] /\ x.of = m.of /\ x.cmd = m.cmd

LEMMA BroughtIsLast ==
  ASSUME ChannelsInv, NEW p \in Programs, pc[p] = "send", NEW x, Brought(p, x)
  PROVE  /\ \A j \in Owed : Sooner(j, x)
         /\ \A q \in Programs : \A f \in Pending(q) : Before(f, x)
<1>1. CASE datasent[p] = 0 /\ x.of = Who(p) /\ x.cmd = call[p].cmd
  <2>1. x.of.by = p /\ x.of.no = call[p].no
    BY <1>1 DEF Who
  <2>2. \A who : who.by = p /\ Made(who) => who.no < call[p].no
    BY <1>1 DEF Made
  <2>3. \A j \in Owed : Sooner(j, x)
    BY <2>1, <2>2 DEF ChannelsInv, Counted, Sooner
  <2>4. \A q \in Programs : \A f \in Pending(q) : Before(f, x)
    <3>1. \A f : By(f) = f.id[1].by /\ Of(f) = f.id[1].no
      BY DEF By, Of
    <3> QED
      BY <2>1, <2>2, <3>1 DEF ChannelsInv, Counted, Before
  <2> QED
    BY <2>3, <2>4
<1>2. CASE \E m \in inbox : m.cid = cid[p] /\ x.of = m.of /\ x.cmd = m.cmd
  <2>1. PICK m \in inbox : m.cid = cid[p] /\ x.of = m.of
    BY <1>2
  <2>2. /\ \A j \in Owed : Sooner(j, m)
        /\ \A q \in Programs : \A f \in Pending(q) : Before(f, m)
    BY DEF ChannelsInv, Ordered
  <2> QED
    BY <2>1, <2>2 DEF Sooner, Before, Brought
<1> QED
  BY <1>1, <1>2 DEF Brought

LEMMA SendBrings ==
  ASSUME SizesAssumption, ChannelsInv, NEW p \in Programs, pc[p] = "send",
         Received(FrameTo(p), [by |-> p, no |-> call[p].no])
  PROVE  /\ jobs' \in Seq(Messages) /\ inbox' \subseteq Messages
         /\ \A j \in (Owed \cup inbox)' : j \in Owed \cup inbox \/ Brought(p, j)
         /\ Rising(jobs') /\ \A j \in Owed' : \A m \in inbox' : Sooner(j, m)
<1>1. Typed /\ jobs \in Seq(Messages) /\ inbox \subseteq Messages
  BY DEF ChannelsInv, Typed
<1>2. PICK f : f = FrameTo(p)
  OBVIOUS
<1>3. /\ f.cid = cid[p] /\ f.cid \in Nat /\ f.size \in Nat /\ f.total \in Nat
      /\ f.cmd \in Commands \cup {"CONT"} /\ (f.cmd # "CONT" => datasent[p] = 0 /\ f.cmd = call[p].cmd)
  BY <1>1, <1>2, FrameSent DEF Typed
<1>4. PICK who : who = Who(p)
  OBVIOUS
<1>5. who \in Callers /\ Received(f, who)
  BY <1>1, <1>2, <1>4 DEF Who, Callers, Typed
<1>6. Rising(jobs) /\ \A j \in Owed : \A m \in inbox : Sooner(j, m)
  BY DEF ChannelsInv, Ordered
<1>7. CASE inbox' \subseteq inbox /\ jobs' = jobs
  <2>1. Owed' = Owed
    BY <1>7 DEF Owed
  <2> QED
    BY <1>1, <1>6, <1>7, <2>1
<1>8. CASE \E x \in Messages : Grown(f, who, x)
  <2>1. PICK x \in Messages : Grown(f, who, x)
    BY <1>8
  <2>2. Brought(p, x)
    BY <1>3, <1>4, <2>1 DEF Brought, Grown
  <2>3. \A j \in Owed : Sooner(j, x)
    BY <2>2, BroughtIsLast
  <2>4. /\ jobs' \in Seq(Messages) /\ inbox' \subseteq Messages
        /\ \A j \in (Owed \cup inbox)' : j = x \/ j \in Owed \cup inbox
        /\ \/ /\ jobs' = Append(jobs, x) /\ Owed' = Owed \cup {x}
              /\ \A m \in inbox' : m \in inbox /\ m.cid # x.cid
           \/ jobs' = jobs /\ Owed' = Owed /\ \A m \in inbox' : m = x \/ m \in inbox
    BY <1>1, <2>1, ArrivesIn
  <2>5. Rising(jobs')
    <3>1. Rising(Append(jobs, x))
      BY <1>1, <1>6, <2>3, RisingAppend DEF Owed
    <3> QED
      BY <1>6, <2>4, <3>1
  <2>6. \A j \in Owed' : \A m \in inbox' : Sooner(j, m)
    <3>1. \A m : m.cid # x.cid => Sooner(x, m)
      BY DEF Sooner
    <3> QED
      BY <1>6, <2>3, <2>4, <3>1
  <2> QED
    BY <2>2, <2>4, <2>5, <2>6
<1>9. (inbox' \subseteq inbox /\ jobs' = jobs) \/ \E x \in Messages : Grown(f, who, x)
  BY <1>1, <1>3, <1>5, Arrives
<1> QED
  BY <1>7, <1>8, <1>9

LEMMA SentKeeps ==
  ASSUME SizesAssumption, ChannelsInv, NEW p \in Programs, pc[p] = "send",
         Received(FrameTo(p), [by |-> p, no |-> call[p].no]),
         datasent' = [datasent EXCEPT ![p] = @ + FrameTo(p).size],
         IF call[p].len > datasent'[p] THEN UNCHANGED pc ELSE pc' = [pc EXCEPT ![p] = "read"],
         UNCHANGED <<state, got, result, cid, call, queue, emitting, channels, raced>>
  PROVE  ChannelsInv'
<1>1. Typed
  BY DEF ChannelsInv
<1>2. /\ jobs' \in Seq(Messages) /\ inbox' \subseteq Messages
      /\ \A j \in (Owed \cup inbox)' : j \in Owed \cup inbox \/ Brought(p, j)
      /\ Rising(jobs') /\ \A j \in Owed' : \A m \in inbox' : Sooner(j, m)
  BY SendBrings
<1>3. /\ datasent' \in [Programs -> Nat] /\ datasent'[p] # 0
      /\ \A q \in Programs \ {p} : datasent'[q] = datasent[q]
  <2>1. PICK n \in Nat : n = datasent[p] + FrameTo(p).size /\ n # 0
    BY <1>1, FrameSent, SMTT(20) DEF Typed
  <2>2. datasent' = [datasent EXCEPT ![p] = n] /\ datasent \in [Programs -> Nat]
    BY <1>1, <2>1 DEF Typed
  <2> QED
    BY <2>1, <2>2, Updated
<1>4. /\ pc' \in [Programs -> {"idle", "send", "read"}]
      /\ pc'[p] \in {"send", "read"} /\ (pc'[p] = "send" => datasent'[p] < call[p].len)
      /\ \A q \in Programs \ {p} : pc'[q] = pc[q]
  <2>1. pc \in [Programs -> {"idle", "send", "read"}] /\ call[p].len \in Nat /\ datasent'[p] \in Nat
    BY <1>1, <1>3 DEF Typed
  <2>2. CASE call[p].len > datasent'[p]
    BY <2>1, <2>2
  <2>3. CASE ~(call[p].len > datasent'[p])
    BY <2>1, <2>3
  <2> QED
    BY <2>2, <2>3
<1>5. Typed'
  BY <1>1, <1>2, <1>3, <1>4 DEF Typed
<1>6. /\ UNCHANGED Emitted
      /\ \A q : Queued(q)' = Queued(q) /\ Pending(q)' = Pending(q) /\ Who(q)' = Who(q)
  BY DEF Emitted, Queued, Pending, Who
<1>7. \A x : Brought(p, x) => /\ \A j \in Owed : Sooner(j, x)
                              /\ \A q \in Programs : \A f \in Pending(q) : Before(f, x)
  BY BroughtIsLast
<1>8. Ordered'
  BY <1>2, <1>6, <1>7 DEF ChannelsInv, Ordered
<1>9. \A who \in Callers : Made(who) => Made(who)'
  <2> SUFFICES ASSUME NEW who \in Callers, Made(who) PROVE Made(who)'
    OBVIOUS
  <2>1. CASE who.by = p
    BY <1>3, <2>1 DEF Made
  <2>2. CASE who.by \in Programs \ {p}
    BY <1>3, <1>4, <2>2 DEF Made
  <2> QED
    BY <2>1, <2>2 DEF Callers
<1>10. Counted'
  <2>1. \A q \in Programs : \A f \in Pending(q) : f.id[1] \in Callers
    BY FlowsHold DEF ChannelsInv
  <2>2. \A j \in Owed \cup inbox : j.of \in Callers
    BY FlowsHold DEF ChannelsInv
  <2>3. ASSUME NEW x, Brought(p, x) PROVE Made(x.of)'
    <3>1. CASE x.of = Who(p)
      <4>1. x.of.by = p /\ x.of.no = call[p].no /\ call[p].no \in Nat
        BY <1>1, <3>1 DEF Who, Typed
      <4> QED
        BY <1>3, <4>1 DEF Made
    <3>2. CASE \E m \in inbox : x.of = m.of
      BY <1>9, <2>2, <3>2 DEF ChannelsInv, Counted
    <3> QED
      BY <2>3, <3>1, <3>2 DEF Brought
  <2>4. \A q \in Programs : \A f \in Pending(q)' : Made(f.id[1])'
    BY <1>6, <1>9, <2>1 DEF ChannelsInv, Counted
  <2>5. \A j \in (Owed \cup inbox)' : Made(j.of)'
    BY <1>2, <1>9, <2>2, <2>3 DEF ChannelsInv, Counted
  <2> QED
    BY <2>4, <2>5 DEF Counted
<1>11. Bounded'
  <2>1. \A x : Brought(p, x) => x.cid <= channels
    BY DEF Brought, ChannelsInv, Bounded
  <2> QED
    BY <1>2, <1>6, <2>1 DEF ChannelsInv, Bounded
<1>12. \A c : Unused(c) => Unused(c)'
  BY <1>2, <1>6 DEF Unused, Brought
<1>13. Given' /\ Fresh'
  BY <1>6, <1>12 DEF ChannelsInv, Given, Awaits, Fresh
<1>14. Apart'
  BY DEF ChannelsInv, Apart
<1>15. SendsAt(p) /\ PrivateAt(p) /\ WholeAt(p) /\ state[p] # "closed"
  BY DEF ChannelsInv, Sends, SendsAt, Private, Whole
<1>16. ASSUME NEW q \in Programs \ {p} PROVE SendsAt(q)' /\ PrivateAt(q)' /\ WholeAt(q)'
  <2>1. SameTo(q)
    BY <1>3, <1>4 DEF SameTo
  <2>2. On(q) => cid[p] # cid[q]
    BY <1>15 DEF On, ChannelsInv, Apart, Sends, SendsAt
  <2>3. On(q) => \A j \in (Owed \cup inbox)' : j.cid = cid[q] => j \in Owed \cup inbox
    BY <1>2, <2>2 DEF Brought
  <2> QED
    BY <1>6, <2>1, <2>3, OthersKeep
<1>17. SendsAt(p)'
  BY <1>4, <1>15 DEF SendsAt
<1>18. PrivateAt(p)'
  <2> SUFFICES ASSUME On(p) PROVE PrivateAt(p)'
    BY DEF PrivateAt, On
  <2>1. got[p].of = <<>>
    BY <1>15 DEF SendsAt
  <2>2. \A who, cmd : Fit(p, who, cmd) => Fit(p, who, cmd)'
    BY <1>4 DEF Fit, Current
  <2>3. \A x : Brought(p, x) => Fit(p, x.of, x.cmd)'
    <3> SUFFICES ASSUME NEW x, Brought(p, x) PROVE Fit(p, x.of, x.cmd)'
      OBVIOUS
    <3>1. CASE x.of = Who(p) /\ x.cmd = call[p].cmd
      BY <1>4, <2>1, <3>1 DEF Fit, Current, Who
    <3>2. CASE \E m \in inbox : m.cid = cid[p] /\ x.of = m.of /\ x.cmd = m.cmd
      <4>1. PICK m \in inbox : m.cid = cid[p] /\ x.of = m.of /\ x.cmd = m.cmd
        BY <3>2
      <4>2. Fit(p, m.of, m.cmd)
        BY <1>15, <4>1 DEF PrivateAt
      <4> QED
        BY <2>2, <4>1, <4>2
    <3> QED
      BY <3>1, <3>2 DEF Brought
  <2>4. \A f \in Pending(p)' : f.cid = cid'[p] => Fit(p, f.id[1], f.cmd)'
    BY <1>6, <1>15, <2>2 DEF PrivateAt
  <2>5. \A j \in (Owed \cup inbox)' : j.cid = cid'[p] => Fit(p, j.of, j.cmd)'
    BY <1>2, <1>15, <2>2, <2>3 DEF PrivateAt
  <2> QED
    BY <2>1, <2>4, <2>5 DEF PrivateAt
<1>19. WholeAt(p)'
  BY <1>6, <1>15 DEF WholeAt
<1>20. Sends' /\ Private' /\ Whole'
  BY <1>16, <1>17, <1>18, <1>19 DEF Sends, Private, Whole
<1> QED
  BY <1>5, <1>8, <1>10, <1>11, <1>13, <1>14, <1>20 DEF ChannelsInv

LEMMA SendKeeps ==
  ASSUME SizesAssumption, ChannelsInv, NEW p \in Programs, Send(p)
  PROVE  ChannelsInv'
<1>1. CASE Fail(p) /\ UNCHANGED <<inbox, jobs>>
  <2>1. /\ pc[p] # "idle"
        /\ UNCHANGED <<cid, call, queue, emitting, jobs, inbox, channels, raced>>
    BY <1>1 DEF Send
  <2> QED
    BY <1>1, <2>1, SameQueues, FailKeeps
<1>2. CASE ~(Fail(p) /\ UNCHANGED <<inbox, jobs>>)
  BY <1>2, SentKeeps DEF Send
<1> QED
  BY <1>1, <1>2

(* hid_read_timeout: the oldest report leaves the queue.                   *)
LEMMA ReadTakes ==
  ASSUME ChannelsInv, NEW p \in Programs, queue[p] # <<>>,
         queue' = [queue EXCEPT ![p] = Tail(@)]
  PROVE  /\ queue' \in [Programs -> Seq(Frames)]
         /\ Head(queue[p]) \in Frames /\ Head(queue[p]) \in Queued(p)
         /\ \A g \in Queued(p)' : Earlier(Head(queue[p]), g)
         /\ \A q \in Programs : Increasing(queue'[q]) /\ Queued(q)' \subseteq Queued(q)
<1>1. queue \in [Programs -> Seq(Frames)] /\ \A q \in Programs : Increasing(queue[q])
  BY DEF ChannelsInv, Typed, Ordered
<1>2. /\ Head(queue[p]) \in Frames /\ Head(queue[p]) \in Queued(p)
      /\ Tail(queue[p]) \in Seq(Frames) /\ Elements(Tail(queue[p])) \subseteq Queued(p)
  BY <1>1, ElementsTail DEF Queued
<1>3. /\ queue' \in [Programs -> Seq(Frames)] /\ queue'[p] = Tail(queue[p])
      /\ \A q \in Programs \ {p} : queue'[q] = queue[q]
  BY <1>1, <1>2, Updated
<1>4. Increasing(Tail(queue[p])) /\ \A g \in Elements(Tail(queue[p])) : Earlier(Head(queue[p]), g)
  BY <1>1, IncreasingTail
<1> QED
  BY <1>1, <1>2, <1>3, <1>4 DEF Queued

LEMMA TakenHas ==
  ASSUME SizesAssumption, Typed, NEW p \in Programs, NEW f \in Frames
  PROVE  /\ Taken(p, f) \in [len: Nat, recvd: Nat, of: Seq(Ids)]
         /\ IF got[p].of = <<>>
            THEN Taken(p, f).len = f.total /\ Taken(p, f).recvd = InitData /\ Taken(p, f).of[1] = f.id
            ELSE Taken(p, f).of[1] = got[p].of[1]
<1>1. f.id \in Ids /\ f.total \in Nat /\ InitData \in Nat /\ ContData \in Nat
  BY DEF Frames, SizesAssumption
<1>2. got[p] \in [len: Nat, recvd: Nat, of: Seq(Ids)]
  BY DEF Typed
<1>3. CASE got[p].of = <<>>
  <2>1. <<f.id>> \in Seq(Ids) /\ <<f.id>>[1] = f.id
    BY <1>1
  <2> QED
    BY <1>1, <1>3, <2>1 DEF Taken
<1>4. CASE got[p].of # <<>>
  <2>1. PICK g : g = got[p]
    OBVIOUS
  <2>2. g.of \in Seq(Ids) /\ g.recvd + ContData \in Nat /\ g.len \in Nat /\ g.of # <<>>
    BY <1>1, <1>2, <1>4, <2>1
  <2>3. PICK s : s = Append(g.of, f.id)
    OBVIOUS
  <2>4. s \in Seq(Ids) /\ s[1] = g.of[1]
    <3>1. Len(g.of) \in Nat \ {0}
      BY <2>2, LenProperties, EmptySeq
    <3> QED
      BY <1>1, <2>2, <2>3, <3>1, AppendProperties
  <2>5. Taken(p, f) = [g EXCEPT !.recvd = @ + ContData, !.of = s]
    BY <1>4, <2>1, <2>3 DEF Taken
  <2>6. PICK t : t = [g EXCEPT !.recvd = @ + ContData, !.of = s]
    OBVIOUS
  <2>7. t \in [len: Nat, recvd: Nat, of: Seq(Ids)] /\ t.of = s
    BY <1>2, <2>1, <2>2, <2>4, <2>6
  <2> QED
    BY <1>4, <2>1, <2>4, <2>5, <2>6, <2>7
<1> QED
  BY <1>3, <1>4

(* On a channel of its own: what it takes for the first frame is that of   *)
(* the answer to its call, and nothing else that could be is under way.    *)
Alone(p, g) == g.cid = cid[p] => By(g) = p /\ g.cmd \notin Commands

LEMMA TakenAlone ==
  ASSUME SizesAssumption, ChannelsInv, NEW p \in Programs, On(p), pc[p] = "read",
         NEW f \in Frames, f \in Queued(p),
         IF got[p].of = <<>> THEN Fits(p, f) ELSE Continues(p, f)
  PROVE  /\ \A g \in Queued(p) \cup Emitted : Earlier(f, g) => Alone(p, g)
         /\ \A g \in Emitted : Earlier(f, g)
         /\ \A j \in Owed \cup inbox : j.cid # cid[p]
         /\ Taken(p, f).of[1][1] = Who(p)
<1>1. Typed /\ PrivateAt(p) /\ SendsAt(p) /\ call[p].no \in Nat /\ call[p].cmd \in Commands
  BY DEF ChannelsInv, Typed, Private, Sends
<1>2. /\ \A g \in Pending(p) : g.cid = cid[p] => Fit(p, g.id[1], g.cmd)
      /\ \A j \in Owed \cup inbox : j.cid = cid[p] => Fit(p, j.of, j.cmd)
  BY <1>1 DEF PrivateAt
<1>3. /\ \A g \in Emitted : Earlier(f, g)
      /\ \A j \in Owed \cup inbox : Before(f, j)
  BY DEF ChannelsInv, Ordered, Pending
<1>4. \A j \in Owed \cup inbox : j.cmd \in Commands /\ j.of \in Callers /\ j.of.no \in Nat
  BY <1>1, FlowsHold DEF Messages
<1>5. CASE got[p].of # <<>>
  <2>1. \A g \in Queued(p) \cup Emitted : Alone(p, g)
    BY <1>2, <1>5 DEF Alone, Fit, By, Pending
  <2>2. \A j \in Owed \cup inbox : j.cid # cid[p]
    BY <1>2, <1>4, <1>5 DEF Fit
  <2>3. Taken(p, f).of[1][1] = Who(p)
    <3>1. Taken(p, f).of[1] = got[p].of[1]
      BY <1>1, <1>5, TakenHas
    <3> QED
      BY <1>1, <1>5, <3>1 DEF PrivateAt
  <2> QED
    BY <1>3, <2>1, <2>2, <2>3
<1>6. CASE got[p].of = <<>>
  <2>1. f.cid = cid[p] /\ f.cmd = call[p].cmd
    BY <1>6 DEF Fits
  <2>2. Fit(p, f.id[1], f.cmd)
    BY <1>2, <2>1 DEF Pending
  <2>3. f.id[1].by = p /\ f.id[1].no = call[p].no
    BY <1>1, <2>1, <2>2 DEF Fit, Current, On, SendsAt
  <2>4. f.id[1] = Who(p) /\ Nth(f) = 1
    <3>1. f.id[1] \in Callers /\ Nth(f) = 1
      BY <1>1, <2>1, FlowsHold
    <3> QED
      BY <2>3, <3>1 DEF Callers, Who
  <2>5. ASSUME NEW g \in Queued(p) \cup Emitted, Earlier(f, g) PROVE Alone(p, g)
    <3> SUFFICES ASSUME g.cid = cid[p] PROVE By(g) = p /\ g.cmd \notin Commands
      BY DEF Alone
    <3>1. g \in Pending(p) /\ g \in Frames
      BY <1>1, <2>5, FlowsHold DEF Pending
    <3>2. By(g) = p
      BY <1>2, <3>1 DEF Fit, By
    <3>3. Of(g) <= call[p].no /\ Of(g) \in Nat /\ Nth(g) \in Nat
      <4>1. Made(g.id[1])
        BY <3>1 DEF ChannelsInv, Counted
      <4>2. Of(g) \in Nat /\ Nth(g) \in Nat
        BY <1>1, <3>1, FlowsHold
      <4> QED
        BY <3>2, <4>1, <4>2 DEF Made, By, Of
    <3>4. Of(f) = call[p].no /\ By(f) = p
      BY <2>3 DEF Of, By
    <3>5. 1 < Nth(g)
      BY <1>1, <2>1, <2>4, <2>5, <3>2, <3>3, <3>4 DEF Earlier
    <3>6. g.cmd \in Commands => Nth(g) = 1
      BY <1>1, <3>1, FlowsHold
    <3> QED
      BY <3>2, <3>5, <3>6
  <2>6. \A j \in Owed \cup inbox : j.cid # cid[p]
    <3> SUFFICES ASSUME NEW j \in Owed \cup inbox, j.cid = cid[p] PROVE FALSE
      OBVIOUS
    <3>1. j.of.by = p
      BY <1>2 DEF Fit
    <3>2. j.of.no <= call[p].no /\ j.of.no \in Nat
      BY <1>4, <3>1 DEF ChannelsInv, Counted, Made
    <3>3. Of(f) = call[p].no /\ By(f) = p
      BY <2>3 DEF Of, By
    <3>4. Of(f) < j.of.no
      BY <1>3, <2>1, <3>1, <3>3 DEF Before
    <3> QED
      BY <1>1, <3>2, <3>3, <3>4
  <2>7. Taken(p, f).of[1] = f.id
    BY <1>1, <1>6, TakenHas
  <2> QED
    BY <1>3, <2>4, <2>5, <2>6, <2>7
<1> QED
  BY <1>5, <1>6

(* More frames are to come: the first one is taken, and no other first one *)
(* is under way.  The answer to an INIT has one frame.                     *)
LEMMA ReadMoreKeeps ==
  ASSUME SizesAssumption, ChannelsInv, NEW p \in Programs, pc[p] = "read",
         queue[p] # <<>>, queue' = [queue EXCEPT ![p] = Tail(@)],
         NEW f, f = Head(queue[p]),
         IF got[p].of = <<>> THEN Fits(p, f) ELSE Continues(p, f),
         Taken(p, f).len > Taken(p, f).recvd, got' = [got EXCEPT ![p] = Taken(p, f)],
         UNCHANGED <<state, pc, cid, call, datasent, result>>,
         UNCHANGED <<emitting, jobs, inbox, channels, raced>>
  PROVE  ChannelsInv'
<1>1. Typed /\ SendsAt(p) /\ PrivateAt(p) /\ WholeAt(p)
  BY DEF ChannelsInv, Sends, Private, Whole
<1>2. /\ queue' \in [Programs -> Seq(Frames)] /\ f \in Frames /\ f \in Queued(p)
      /\ \A g \in Queued(p)' : Earlier(f, g)
      /\ \A q \in Programs : Increasing(queue'[q]) /\ Queued(q)' \subseteq Queued(q)
  BY ReadTakes
<1>3. PICK now : now = Taken(p, f)
  OBVIOUS
<1>4. /\ now \in [len: Nat, recvd: Nat, of: Seq(Ids)]
      /\ got[p].of = <<>> => now.len = f.total /\ now.recvd = InitData
  BY <1>1, <1>2, <1>3, TakenHas
<1>5. /\ got' \in [Programs -> [len: Nat, recvd: Nat, of: Seq(Ids)]] /\ got'[p] = now
      /\ \A q \in Programs \ {p} : got'[q] = got[q]
  <2>1. got \in [Programs -> [len: Nat, recvd: Nat, of: Seq(Ids)]] /\ got' = [got EXCEPT ![p] = now]
    BY <1>1, <1>3 DEF Typed
  <2> QED
    BY <1>4, <2>1, Updated
<1>6. state[p] # "new"
  <2> SUFFICES ASSUME state[p] = "new" PROVE FALSE
    OBVIOUS
  <2>1. got[p].of = <<>> /\ call[p].cmd = "INIT"
    BY <1>1 DEF SendsAt
  <2>2. f.cmd = "INIT" /\ f.total <= InitData /\ f.total \in Nat
    BY <1>2, <2>1 DEF Fits, Frames
  <2>3. f.total > InitData
    BY <1>3, <1>4, <2>1
  <2> QED
    BY <2>2, <2>3 DEF SizesAssumption
<1>7. Typed'
  BY <1>1, <1>2, <1>5 DEF Typed
<1>8. /\ Ordered' /\ Counted' /\ UNCHANGED <<Emitted, Owed>>
      /\ \A q \in Programs : Pending(q)' \subseteq Pending(q)
  <2>1. \A q \in Programs : \A n \in Nat : Made([by |-> q, no |-> n]) => Made([by |-> q, no |-> n])'
    BY DEF Made
  <2> QED
    BY <1>2, <1>7, <2>1, FewerKeep
<1>9. Bounded' /\ Given' /\ Fresh'
  BY <1>2, FewerGiven
<1>10. Apart'
  BY DEF ChannelsInv, Apart
<1>11. ASSUME NEW q \in Programs \ {p} PROVE SendsAt(q)' /\ PrivateAt(q)' /\ WholeAt(q)'
  <2>1. SameTo(q)
    BY <1>5 DEF SameTo
  <2> QED
    BY <1>8, <2>1, OthersKeep
<1>12. SendsAt(p)'
  BY <1>1, <1>6 DEF SendsAt
<1>13. Who(p)' = Who(p)
  BY DEF Who
<1>14. PrivateAt(p)'
  <2> SUFFICES ASSUME On(p) PROVE PrivateAt(p)'
    BY DEF PrivateAt, On
  <2>1. /\ \A g \in Queued(p) \cup Emitted : Earlier(f, g) => Alone(p, g)
        /\ \A g \in Emitted : Earlier(f, g)
        /\ \A j \in Owed \cup inbox : j.cid # cid[p]
        /\ now.of[1][1] = Who(p)
    BY <1>2, <1>3, TakenAlone
  <2>2. \A g \in Pending(p)' : g.cid = cid'[p] => By(g) = p /\ g.cmd \notin Commands
    BY <1>2, <1>8, <2>1 DEF Pending, Alone
  <2>3. \A g \in Pending(p)' : g.cid = cid'[p] => Fit(p, g.id[1], g.cmd)'
    BY <2>2 DEF By, Fit, Commands
  <2>4. \A j \in (Owed \cup inbox)' : j.cid # cid'[p]
    BY <1>8, <2>1
  <2> QED
    BY <1>5, <1>13, <2>1, <2>3, <2>4 DEF PrivateAt
<1>15. WholeAt(p)'
  BY <1>1, <1>13 DEF WholeAt
<1>16. Sends' /\ Private' /\ Whole'
  BY <1>11, <1>12, <1>14, <1>15 DEF Sends, Private, Whole
<1> QED
  BY <1>7, <1>8, <1>9, <1>10, <1>16 DEF ChannelsInv

(* The channel that init_device takes is one that nobody is on, and for    *)
(* which nothing is under way - or one that was raced for.                 *)
LEMMA NewChannel ==
  ASSUME ChannelsInv, NEW p \in Programs, state[p] = "new",
         NEW f \in Queued(p), f.cmd = "INIT",
         state'[p] # "new", cid'[p] = f.new,
         \A q \in Programs \ {p} : state'[q] = state[q] /\ cid'[q] = cid[q],
         \A q \in Programs : Queued(q)' \subseteq Queued(q),
         UNCHANGED <<emitting, jobs, inbox, channels, raced>>
  PROVE  /\ f.new \in 1 .. channels /\ (f.new \notin raced => Unused(f.new))
         /\ Bounded' /\ Given' /\ Fresh' /\ Apart'
<1>1. UNCHANGED <<Emitted, Owed>> /\ \A q \in Programs : Pending(q)' \subseteq Pending(q)
  BY DEF Emitted, Owed, Pending
<1>2. Typed /\ channels \in Nat
  BY DEF ChannelsInv, Typed
<1>3. f.new \in 1 .. channels /\ f.new \in Nat /\ f.new # 0 /\ f.new <= channels
  BY <1>2 DEF ChannelsInv, Bounded, Pending
<1>4. f.new \notin raced => Unused(f.new) /\ \A q \in Programs \ {p} : ~Awaits(q, f.new)
  BY <1>3 DEF ChannelsInv, Given, Awaits
<1>5. Bounded'
  <2>1. \A q \in Programs : cid'[q] <= channels
    BY <1>3 DEF ChannelsInv, Bounded
  <2> QED
    BY <1>1, <2>1 DEF ChannelsInv, Bounded
<1>6. \A c : c # f.new /\ Unused(c) => Unused(c)'
  <2> SUFFICES ASSUME NEW c, c # f.new, Unused(c) PROVE Unused(c)'
    OBVIOUS
  <2>1. \A q \in Programs : cid'[q] # c
    BY DEF Unused
  <2> QED
    BY <1>1, <2>1 DEF Unused
<1>7. \A q \in Programs : \A c : Awaits(q, c)' => q # p /\ Awaits(q, c)
  BY DEF Awaits
<1>8. Given'
  <2> SUFFICES ASSUME NEW q \in Programs, NEW c \in Nat \ raced, Awaits(q, c)'
               PROVE  Unused(c)' /\ \A r \in Programs \ {q} : ~Awaits(r, c)'
    BY DEF Given
  <2>1. q # p /\ Awaits(q, c)
    BY <1>7
  <2>2. Unused(c) /\ \A r \in Programs \ {q} : ~Awaits(r, c)
    BY <2>1 DEF ChannelsInv, Given
  <2>3. c # f.new
    BY <2>1, <2>2 DEF Awaits
  <2> QED
    BY <1>6, <1>7, <2>2, <2>3
<1>9. Fresh'
  <2>1. \A g \in Emitted : g.cmd = "INIT" => g.new # f.new /\ Unused(g.new)
    BY DEF ChannelsInv, Fresh
  <2>2. \A g \in Emitted : g.cmd = "INIT" => Unused(g.new)'
    BY <1>6, <2>1
  <2> QED
    BY <1>1, <2>2 DEF ChannelsInv, Fresh
<1>10. Apart'
  <2> SUFFICES ASSUME NEW q \in Programs, NEW r \in Programs, q # r, state'[q] # "closed",
                      state'[r] # "closed", cid'[q] = cid'[r], cid'[q] # 0
               PROVE  cid'[q] \in raced
    BY DEF Apart
  <2>1. CASE q = p
    BY <1>4, <2>1 DEF Unused
  <2>2. CASE r = p
    BY <1>4, <2>2 DEF Unused
  <2>3. CASE q # p /\ r # p
    BY <2>3 DEF ChannelsInv, Apart
  <2> QED
    BY <2>1, <2>2, <2>3
<1> QED
  BY <1>3, <1>4, <1>5, <1>8, <1>9, <1>10

(* The answer is complete: on a channel of its own it is the answer to the *)
(* last call.                                                              *)
LEMMA ReadDoneKeeps ==
  ASSUME SizesAssumption, ChannelsInv, NEW p \in Programs, pc[p] = "read",
         queue[p] # <<>>, queue' = [queue EXCEPT ![p] = Tail(@)],
         NEW f, f = Head(queue[p]),
         IF got[p].of = <<>> THEN Fits(p, f) ELSE Continues(p, f),
         Return(p, "OK", Taken(p, f)),
         cid' = IF call[p].cmd = "INIT" THEN [cid EXCEPT ![p] = f.new] ELSE cid,
         UNCHANGED <<call, emitting, jobs, inbox, channels, raced>>
  PROVE  ChannelsInv'
<1>1. Typed /\ SendsAt(p) /\ call[p].cmd \in Commands
  BY DEF ChannelsInv, Sends, Typed
<1>2. /\ queue' \in [Programs -> Seq(Frames)] /\ f \in Frames /\ f \in Queued(p)
      /\ \A g \in Queued(p)' : Earlier(f, g)
      /\ \A q \in Programs : Increasing(queue'[q]) /\ Queued(q)' \subseteq Queued(q)
  BY ReadTakes
<1>3. PICK r, now : r = "OK" /\ now = Taken(p, f)
  OBVIOUS
<1>4. /\ pc' \in [Programs -> {"idle", "send", "read"}] /\ pc'[p] = "idle"
      /\ datasent' \in [Programs -> Nat] /\ datasent'[p] = 0
      /\ got' \in [Programs -> [len: Nat, recvd: Nat, of: Seq(Ids)]] /\ got'[p].of = <<>>
      /\ state' \in [Programs -> {"closed", "new", "ready", "suspect"}]
      /\ state'[p] = StateAfter(call[p].cmd, r)
      /\ result' = [q \in Programs |-> result'[q]]
      /\ result'[p].rc = r /\ result'[p].cmd = call[p].cmd /\ result'[p].of = now.of
      /\ \A q \in Programs \ {p} :
            /\ pc'[q] = pc[q] /\ datasent'[q] = datasent[q] /\ got'[q] = got[q]
            /\ state'[q] = state[q] /\ result'[q] = result[q]
  <2>1. Return(p, r, now)
    BY <1>3
  <2> QED
    BY <1>1, <2>1, ReturnLeaves
<1>5. state'[p] = "ready"
  BY <1>3, <1>4 DEF StateAfter
<1>6. state[p] # "closed" /\ (call[p].cmd = "INIT" <=> state[p] = "new")
  BY <1>1 DEF SendsAt, Typed
<1>7. /\ cid' \in [Programs -> Nat] /\ \A q \in Programs \ {p} : cid'[q] = cid[q]
      /\ cid'[p] = IF call[p].cmd = "INIT" THEN f.new ELSE cid[p]
  <2>1. f.new \in Nat /\ cid \in [Programs -> Nat]
    BY <1>1, <1>2 DEF Frames, Typed
  <2> QED
    BY <2>1
<1>8. Typed'
  BY <1>1, <1>2, <1>4, <1>7 DEF Typed
<1>9. /\ Ordered' /\ Counted' /\ UNCHANGED <<Emitted, Owed>>
      /\ \A q \in Programs : Pending(q)' \subseteq Pending(q)
  <2>1. \A q \in Programs : \A n \in Nat : Made([by |-> q, no |-> n]) => Made([by |-> q, no |-> n])'
    BY <1>4 DEF Made
  <2> QED
    BY <1>2, <1>8, <2>1, FewerKeep
<1>10. ASSUME NEW q \in Programs \ {p} PROVE SendsAt(q)' /\ PrivateAt(q)' /\ WholeAt(q)'
  <2>1. SameTo(q)
    BY <1>4, <1>7 DEF SameTo
  <2> QED
    BY <1>9, <2>1, OthersKeep
<1>11. Who(p)' = Who(p)
  BY DEF Who
<1>12. CASE call[p].cmd = "INIT"
  <2>1. state[p] = "new" /\ f.cmd = "INIT" /\ cid'[p] = f.new
    BY <1>1, <1>6, <1>7, <1>12 DEF SendsAt, Fits
  <2>2. /\ f.new \in 1 .. channels /\ (f.new \notin raced => Unused(f.new))
        /\ Bounded' /\ Given' /\ Fresh' /\ Apart'
    BY <1>2, <1>4, <1>5, <1>7, <2>1, NewChannel
  <2>3. SendsAt(p)' /\ WholeAt(p)'
    BY <1>4, <1>5, <1>12, <2>1, <2>2 DEF SendsAt, WholeAt
  <2>4. PrivateAt(p)'
    <3> SUFFICES ASSUME f.new \notin raced PROVE PrivateAt(p)'
      BY <2>1 DEF PrivateAt, On
    <3>1. Unused(f.new)
      BY <2>2
    <3>2. \A g \in Pending(p)' : g.cid # cid'[p]
      BY <1>9, <2>1, <3>1 DEF Unused
    <3>3. \A j \in (Owed \cup inbox)' : j.cid # cid'[p]
      BY <1>9, <2>1, <3>1 DEF Unused
    <3> QED
      BY <1>4, <3>2, <3>3 DEF PrivateAt
  <2>5. Sends' /\ Private' /\ Whole'
    BY <1>10, <2>3, <2>4 DEF Sends, Private, Whole
  <2> QED
    BY <1>8, <1>9, <2>2, <2>5 DEF ChannelsInv
<1>13. CASE call[p].cmd # "INIT"
  <2>1. state[p] \in {"ready", "suspect"} /\ cid' = cid
    BY <1>1, <1>6, <1>13 DEF Typed
  <2>2. Bounded' /\ Given' /\ Fresh'
    <3>1. \A q \in Programs : state'[q] = "new" => state[q] = "new"
      BY <1>4, <1>5
    <3> QED
      BY <1>2, <2>1, <3>1, FewerGiven
  <2>3. Apart'
    <3>1. \A q \in Programs : state'[q] # "closed" => state[q] # "closed"
      BY <1>4, <1>6
    <3> QED
      BY <2>1, <3>1 DEF ChannelsInv, Apart
  <2>4. SendsAt(p)'
    BY <1>1, <1>4, <1>5, <2>1 DEF SendsAt
  <2>5. cid[p] \notin raced =>
           /\ \A g \in Queued(p) \cup Emitted : Earlier(f, g) => Alone(p, g)
           /\ \A g \in Emitted : Earlier(f, g)
           /\ \A j \in Owed \cup inbox : j.cid # cid[p]
           /\ now.of[1][1] = Who(p)
    <3>1. ASSUME cid[p] \notin raced PROVE On(p)
      BY <2>1, <3>1 DEF On
    <3> QED
      BY <1>2, <1>3, <3>1, TakenAlone
  <2>6. WholeAt(p)'
    BY <1>4, <1>11, <2>1, <2>5 DEF WholeAt
  <2>7. PrivateAt(p)'
    <3> SUFFICES ASSUME cid[p] \notin raced PROVE PrivateAt(p)'
      BY <2>1 DEF PrivateAt, On
    <3>1. \A g \in Pending(p)' : g.cid = cid'[p] => By(g) = p /\ g.cmd \notin Commands
      BY <1>2, <1>9, <2>1, <2>5 DEF Pending, Alone
    <3>2. \A g \in Pending(p)' : g.cid = cid'[p] => Fit(p, g.id[1], g.cmd)'
      BY <3>1 DEF By, Fit, Commands
    <3>3. \A j \in (Owed \cup inbox)' : j.cid # cid'[p]
      BY <1>9, <2>1, <2>5
    <3> QED
      BY <1>4, <3>2, <3>3 DEF PrivateAt
  <2>8. Sends' /\ Private' /\ Whole'
    BY <1>10, <2>4, <2>6, <2>7 DEF Sends, Private, Whole
  <2> QED
    BY <1>8, <1>9, <2>2, <2>3, <2>8 DEF ChannelsInv
<1> QED
  BY <1>12, <1>13

LEMMA ReadKeeps ==
  ASSUME SizesAssumption, ChannelsInv, NEW p \in Programs, Read(p)
  PROVE  ChannelsInv'
<1>1. PICK f : f = Head(queue[p])
  OBVIOUS
<1> DEFINE good == IF got[p].of = <<>> THEN Fits(p, f) ELSE Continues(p, f)
<1>2. /\ pc[p] = "read" /\ queue[p] # <<>> /\ queue' = [queue EXCEPT ![p] = Tail(@)]
      /\ UNCHANGED <<call, emitting, jobs, inbox, channels, raced>>
  BY DEF Read, devVars
<1>3. CASE LastWindow(p) \/ ~good
  <2>1. Fail(p) /\ UNCHANGED cid
    BY <1>1, <1>3 DEF Read
  <2>2. /\ queue' \in [Programs -> Seq(Frames)]
        /\ \A q \in Programs : Increasing(queue'[q]) /\ Queued(q)' \subseteq Queued(q)
    BY <1>2, ReadTakes
  <2> QED
    BY <1>2, <2>1, <2>2, FailKeeps
<1>4. CASE ~(LastWindow(p) \/ ~good) /\ Taken(p, f).len > Taken(p, f).recvd
  <2>1. /\ got' = [got EXCEPT ![p] = Taken(p, f)]
        /\ UNCHANGED <<pc, state, cid, datasent, result>>
    BY <1>1, <1>4 DEF Read
  <2> QED
    BY <1>1, <1>2, <1>4, <2>1, ReadMoreKeeps
<1>5. CASE ~(LastWindow(p) \/ ~good) /\ ~(Taken(p, f).len > Taken(p, f).recvd)
  <2>1. /\ Return(p, "OK", Taken(p, f))
        /\ cid' = IF call[p].cmd = "INIT" THEN [cid EXCEPT ![p] = f.new] ELSE cid
    BY <1>1, <1>5 DEF Read
  <2> QED
    BY <1>1, <1>2, <1>5, <2>1, ReadDoneKeeps
<1> QED
  BY <1>3, <1>4, <1>5

(* The frames of an answer to a message j, numbered from 1; a new channel  *)
(* for an INIT.                                                            *)
Numbered(j, s) ==
    /\ s \in Seq(Frames) /\ Increasing(s)
    /\ \A e \in Elements(s) :
          /\ e.cid = j.cid /\ e.id[1] = j.of
          /\ e.cmd = j.cmd \/ e.cmd \notin Commands
          /\ e.cmd = "INIT" =>
                Len(s) = 1 /\ e.new = channels' /\ channels' = channels + 1

LEMMA OneFrame ==
  ASSUME SizesAssumption
  PROVE  FramesFor(17) = 1
BY DEF FramesFor, SizesAssumption

LEMMA FramesForFits ==
  ASSUME SizesAssumption, NEW n \in Nat
  PROVE  FramesFor(n) \in Nat \ {0}
<1>1. CASE n <= InitData
  BY <1>1 DEF FramesFor
<1>2. CASE ~(n <= InitData)
  <2>1. /\ n - InitData + ContData - 1 \in Nat /\ ContData \in Nat \ {0}
    BY <1>2 DEF SizesAssumption
  <2>2. (n - InitData + ContData - 1) \div ContData \in Nat
    BY <2>1
  <2> QED
    BY <1>2, <2>2 DEF FramesFor
<1> QED
  BY <1>1, <1>2

LEMMA FramesOfAnswer ==
  ASSUME SizesAssumption, NEW j \in Messages, NEW n \in Nat, NEW c \in Nat, c = channels',
         j.cmd = "INIT" => n = 17 /\ c = channels + 1,
         NEW s, s = [k \in 1 .. FramesFor(n) |->
                       [cid |-> j.cid, id |-> <<j.of, k>>, total |-> n,
                        cmd |-> IF k = 1 THEN j.cmd ELSE "CONT",
                        seq |-> IF k = 1 THEN 0 ELSE k - 2, new |-> c]]
  PROVE  Numbered(j, s)
<1>1. PICK l \in Nat \ {0} : l = FramesFor(n)
  BY FramesForFits
<1>2. j.cid \in Nat /\ j.of \in Callers /\ j.cmd \in Commands
  BY DEF Messages
<1>3. j.cmd = "INIT" => l = 1 /\ n <= InitData
  BY <1>1, OneFrame DEF SizesAssumption
<1>4. ASSUME NEW k \in 1 .. l
      PROVE  /\ s[k] \in Frames /\ s[k].id[1] = j.of /\ Nth(s[k]) = k
             /\ s[k].cid = j.cid /\ s[k].new = c
             /\ s[k].cmd = IF k = 1 THEN j.cmd ELSE "CONT"
  <2>1. PICK g : g = [cid |-> j.cid, id |-> <<j.of, k>>, total |-> n,
                      cmd |-> IF k = 1 THEN j.cmd ELSE "CONT",
                      seq |-> IF k = 1 THEN 0 ELSE k - 2, new |-> c]
    OBVIOUS
  <2>2. s[k] = g
    BY <1>1, <1>4, <2>1
  <2>3. /\ g.cid = j.cid /\ g.id = <<j.of, k>> /\ g.total = n
        /\ g.cmd = IF k = 1 THEN j.cmd ELSE "CONT"
        /\ g.seq = IF k = 1 THEN 0 ELSE k - 2
        /\ g.new = c
    BY <2>1
  <2>4. k \in Nat \ {0}
    BY <1>1
  <2>5. <<j.of, k>> \in Ids /\ <<j.of, k>>[1] = j.of /\ <<j.of, k>>[2] = k
    BY <1>2, <2>4 DEF Ids
  <2>6. Nth(g) = k /\ g.id[1] = j.of
    BY <2>3, <2>5 DEF Nth
  <2>7. g \in [cid: Nat, id: Ids, total: Nat, cmd: Commands \cup {"CONT", "ERROR"},
               seq: Nat, new: Nat]
    <3>1. (IF k = 1 THEN j.cmd ELSE "CONT") \in Commands \cup {"CONT", "ERROR"}
      BY <1>2
    <3>2. (IF k = 1 THEN 0 ELSE k - 2) \in Nat
      BY <2>4
    <3> QED
      BY <1>2, <2>1, <2>5, <3>1, <3>2
  <2>8. (g.cmd # "CONT" <=> Nth(g) = 1) /\ (g.cmd = "INIT" => g.total <= InitData)
    BY <1>2, <1>3, <2>3, <2>6 DEF Commands
  <2>9. g \in Frames
    BY <2>7, <2>8 DEF Frames
  <2> QED
    BY <2>2, <2>3, <2>6, <2>9
<1>5. s \in Seq(Frames) /\ Len(s) = l
  <2>1. s = [k \in 1 .. l |-> s[k]]
    BY <1>1
  <2>2. s \in [1 .. l -> Frames]
    BY <1>4, <2>1
  <2> QED
    BY <1>1, <2>2, SeqDef, LenProperties
<1>6. Increasing(s)
  <2>1. ASSUME NEW k \in 1 .. l, NEW m \in 1 .. l, k < m PROVE Earlier(s[k], s[m])
    <3>1. Nth(s[k]) = k /\ Of(s[k]) = j.of.no /\ Nth(s[m]) = m /\ Of(s[m]) = j.of.no
      BY <1>4 DEF Of
    <3> QED
      BY <2>1, <3>1 DEF Earlier
  <2> QED
    BY <1>5, <2>1 DEF Increasing
<1>7. ASSUME NEW e \in Elements(s)
      PROVE  /\ e.cid = j.cid /\ e.id[1] = j.of
             /\ e.cmd = j.cmd \/ e.cmd \notin Commands
             /\ e.cmd = "INIT" => Len(s) = 1 /\ e.new = c /\ c = channels + 1
  <2>1. PICK k \in 1 .. l : e = s[k]
    BY <1>5, <1>7 DEF Elements
  <2>2. /\ e.id[1] = j.of /\ e.cid = j.cid /\ e.new = c
        /\ e.cmd = IF k = 1 THEN j.cmd ELSE "CONT"
    BY <1>4, <2>1
  <2> QED
    BY <1>3, <1>5, <2>2 DEF Commands
<1> QED
  BY <1>5, <1>6, <1>7 DEF Numbered

LEMMA ErrorOfAnswer ==
  ASSUME NEW j \in Messages,
         NEW s, s = <<[cid |-> j.cid, id |-> <<j.of, 1>>, total |-> 1,
                       cmd |-> "ERROR", seq |-> 0, new |-> Broadcast]>>
  PROVE  Numbered(j, s)
<1>1. PICK g : g = [cid |-> j.cid, id |-> <<j.of, 1>>, total |-> 1,
                    cmd |-> "ERROR", seq |-> 0, new |-> 0]
  OBVIOUS
<1>2. s = <<g>>
  BY <1>1 DEF Broadcast
<1>3. j.cid \in Nat /\ j.of \in Callers
  BY DEF Messages
<1>4. <<j.of, 1>> \in Ids /\ <<j.of, 1>>[1] = j.of /\ <<j.of, 1>>[2] = 1
  BY <1>3 DEF Ids
<1>5. g.cid = j.cid /\ g.id[1] = j.of /\ Nth(g) = 1 /\ g.cmd = "ERROR"
  BY <1>1, <1>4 DEF Nth
<1>6. g \in Frames
  <2>1. g \in [cid: Nat, id: Ids, total: Nat, cmd: Commands \cup {"CONT", "ERROR"},
               seq: Nat, new: Nat]
    BY <1>1, <1>3, <1>4
  <2> QED
    BY <1>5, <2>1 DEF Frames
<1>7. s \in Seq(Frames) /\ Len(s) = 1 /\ s[1] = g
  BY <1>2, <1>6
<1>8. Increasing(s) /\ Elements(s) = {g}
  BY <1>7 DEF Increasing, Elements
<1> QED
  BY <1>5, <1>7, <1>8 DEF Numbered, Commands

LEMMA Answers ==
  ASSUME SizesAssumption, ChannelsInv, Answer
  PROVE  /\ jobs # <<>> /\ jobs' = Tail(jobs) /\ emitting = <<>>
         /\ Numbered(Head(jobs), emitting') /\ channels' \in {channels, channels + 1}
<1>1. jobs # <<>> /\ jobs' = Tail(jobs) /\ emitting = <<>>
  BY DEF Answer
<1>2. PICK j : j = Head(jobs)
  OBVIOUS
<1>3. j \in Messages /\ channels \in Nat
  BY <1>1, <1>2, ElementsTail DEF ChannelsInv, Typed
<1>4. PICK s : s = emitting'
  OBVIOUS
<1> DEFINE lens == CASE j.cmd = "INIT" -> {17} [] j.cmd = "PING" -> {j.total}
                     [] OTHER -> AnswerLens
           answer(n) == [k \in 1 .. FramesFor(n) |->
                           [cid |-> j.cid, id |-> <<j.of, k>>, total |-> n,
                            cmd |-> IF k = 1 THEN j.cmd ELSE "CONT",
                            seq |-> IF k = 1 THEN 0 ELSE k - 2, new |-> channels']]
           error == <<[cid |-> j.cid, id |-> <<j.of, 1>>, total |-> 1,
                       cmd |-> "ERROR", seq |-> 0, new |-> Broadcast]>>
<1>5. \/ \E n \in lens : /\ channels' = IF j.cmd = "INIT" THEN channels + 1 ELSE channels
                         /\ emitting' = answer(n)
      \/ emitting' = error /\ UNCHANGED channels
  BY <1>2 DEF Answer
<1>6. CASE emitting' = error /\ UNCHANGED channels
  <2>1. Numbered(j, s)
    BY <1>3, <1>4, <1>6, ErrorOfAnswer
  <2> QED
    BY <1>1, <1>2, <1>4, <1>6, <2>1
<1>7. ASSUME NEW n \in lens,
             channels' = IF j.cmd = "INIT" THEN channels + 1 ELSE channels,
             emitting' = answer(n)
      PROVE  Numbered(j, s) /\ channels' \in {channels, channels + 1}
  <2>1. n \in Nat /\ (j.cmd = "INIT" => n = 17)
    BY <1>3 DEF Messages, SizesAssumption
  <2>2. PICK c : c = channels'
    OBVIOUS
  <2>3. s = [k \in 1 .. FramesFor(n) |->
               [cid |-> j.cid, id |-> <<j.of, k>>, total |-> n,
                cmd |-> IF k = 1 THEN j.cmd ELSE "CONT",
                seq |-> IF k = 1 THEN 0 ELSE k - 2, new |-> c]]
    BY <1>4, <1>7, <2>2
  <2> HIDE DEF lens, answer
  <2>4. c \in Nat /\ (j.cmd = "INIT" => c = channels + 1)
    BY <1>3, <1>7, <2>2
  <2>5. Numbered(j, s)
    BY <1>3, <2>1, <2>2, <2>3, <2>4, FramesOfAnswer
  <2> QED
    BY <1>7, <2>5
<1> HIDE DEF lens, answer, error
<1> QED
  BY <1>1, <1>2, <1>4, <1>5, <1>6, <1>7

(* An answer is later than all frames that are queued and earlier than all *)
(* other messages; a channel it gives out is new.                          *)
LEMMA AnswerKeeps ==
  ASSUME SizesAssumption, ChannelsInv, Answer
  PROVE  ChannelsInv'
<1>1. /\ UNCHANGED <<state, pc, cid, call, datasent, got, result, queue, inbox, raced>>
  BY DEF Answer, progVars, locals
<1>2. PICK j, s : j = Head(jobs) /\ s = emitting'
  OBVIOUS
<1>3. /\ jobs # <<>> /\ jobs' = Tail(jobs) /\ emitting = <<>>
      /\ Numbered(j, s) /\ channels' \in {channels, channels + 1}
  BY <1>2, Answers
<1>4. /\ s \in Seq(Frames) /\ Increasing(s) /\ Emitted' = Elements(s)
      /\ \A e \in Elements(s) :
            /\ e.cid = j.cid /\ e.id[1] = j.of
            /\ e.cmd = j.cmd \/ e.cmd \notin Commands
            /\ e.cmd = "INIT" =>
                  Len(s) = 1 /\ e.new = channels' /\ channels' = channels + 1
  BY <1>2, <1>3 DEF Numbered, Emitted
<1>5. Typed /\ jobs \in Seq(Messages) /\ Rising(jobs) /\ channels \in Nat
  BY DEF ChannelsInv, Typed, Ordered
<1>6. /\ j \in Messages /\ j \in Owed /\ jobs' \in Seq(Messages) /\ Owed' \subseteq Owed
      /\ Rising(jobs') /\ \A i \in Owed' : Sooner(j, i)
  BY <1>2, <1>3, <1>5, ElementsTail, RisingTail DEF Owed
<1>7. Typed'
  BY <1>1, <1>2, <1>3, <1>4, <1>5, <1>6 DEF Typed
<1>8. /\ \A p \in Programs : Queued(p)' = Queued(p)
      /\ \A p \in Programs : Pending(p)' = Queued(p) \cup Elements(s)
      /\ \A p \in Programs : Queued(p) \subseteq Pending(p)
      /\ (Owed \cup inbox)' \subseteq Owed \cup inbox
  BY <1>1, <1>4, <1>6 DEF Queued, Pending
<1>9. \A e \in Elements(s) : By(e) = j.of.by /\ Of(e) = j.of.no /\ e.cid = j.cid
  BY <1>4 DEF By, Of
<1>10. Ordered'
  <2>1. \A p \in Programs : \A f \in Queued(p) : \A e \in Elements(s) : Earlier(f, e)
    <3>1. \A p \in Programs : \A f \in Queued(p) : Before(f, j)
      BY <1>6, <1>8 DEF ChannelsInv, Ordered
    <3> QED
      BY <1>9, <3>1 DEF Before, Earlier
  <2>2. \A e \in Elements(s) : \A i \in (Owed \cup inbox)' : Before(e, i)
    <3>1. \A i \in (Owed \cup inbox)' : Sooner(j, i)
      BY <1>1, <1>6 DEF ChannelsInv, Ordered
    <3> QED
      BY <1>9, <3>1 DEF Before, Sooner
  <2>3. \A p \in Programs : \A f \in Queued(p) : \A i \in (Owed \cup inbox)' : Before(f, i)
    BY <1>8 DEF ChannelsInv, Ordered
  <2>4. \A p \in Programs : \A f \in Pending(p)' : \A i \in (Owed \cup inbox)' : Before(f, i)
    BY <1>8, <2>2, <2>3
  <2>5. \A i \in Owed' : \A m \in inbox' : Sooner(i, m)
    BY <1>1, <1>6 DEF ChannelsInv, Ordered
  <2>6. \A p \in Programs : Increasing(queue'[p])
    BY <1>1 DEF ChannelsInv, Ordered
  <2>7. \A p \in Programs : \A f \in Queued(p)' : \A e \in Emitted' : Earlier(f, e)
    BY <1>4, <1>8, <2>1
  <2> QED
    BY <1>2, <1>4, <1>6, <2>4, <2>5, <2>6, <2>7 DEF Ordered
<1>11. Counted'
  <2>1. \A who : Made(who) => Made(who)'
    BY <1>1 DEF Made
  <2>2. Made(j.of)
    BY <1>6 DEF ChannelsInv, Counted
  <2>3. \A p \in Programs : \A f \in Pending(p)' : Made(f.id[1])'
    BY <1>4, <1>8, <2>1, <2>2 DEF ChannelsInv, Counted
  <2>4. \A i \in (Owed \cup inbox)' : Made(i.of)'
    BY <1>8, <2>1 DEF ChannelsInv, Counted
  <2> QED
    BY <2>3, <2>4 DEF Counted
<1>12. Bounded'
  <2>1. \A c \in Nat : c <= channels => c <= channels'
    BY <1>3, <1>5
  <2>2. \A p \in Programs : cid[p] \in Nat
    BY <1>5 DEF Typed
  <2>3. \A p \in Programs : cid'[p] <= channels'
    BY <1>1, <2>1, <2>2 DEF ChannelsInv, Bounded
  <2>4. \A p \in Programs : \A f \in Queued(p) :
           f.cid <= channels' /\ (f.cmd = "INIT" => f.new \in 1 .. channels')
    <3> SUFFICES ASSUME NEW p \in Programs, NEW f \in Queued(p)
                 PROVE  f.cid <= channels' /\ (f.cmd = "INIT" => f.new \in 1 .. channels')
      OBVIOUS
    <3>1. f.cid \in Nat /\ f.cid <= channels /\ (f.cmd = "INIT" => f.new \in 1 .. channels)
      BY <1>5, <1>8, FlowsHold DEF ChannelsInv, Bounded
    <3> QED
      BY <1>3, <1>5, <3>1
  <2>5. \A i \in Owed \cup inbox : i.cid \in Nat /\ i.cid <= channels
    BY <1>5, FlowsHold DEF ChannelsInv, Bounded, Messages
  <2>6. \A e \in Elements(s) :
           e.cid <= channels' /\ (e.cmd = "INIT" => e.new \in 1 .. channels')
    BY <1>4, <1>5, <1>6, <2>1, <2>5
  <2>7. \A i \in (Owed \cup inbox)' : i.cid <= channels'
    BY <1>8, <2>1, <2>5
  <2>8. \A p \in Programs : \A f \in Pending(p)' :
           f.cid <= channels' /\ (f.cmd = "INIT" => f.new \in 1 .. channels')
    BY <1>8, <2>4, <2>6
  <2> QED
    BY <2>3, <2>7, <2>8 DEF Bounded
<1>13. ASSUME NEW c, Unused(c) PROVE Unused(c)'
  <2>1. \A p \in Programs : \A f \in Pending(p)' : f.cid # c
    BY <1>4, <1>6, <1>8, <1>13 DEF Unused
  <2> QED
    BY <1>1, <1>8, <1>13, <2>1 DEF Unused
<1>14. Given'
  <2>1. \A p \in Programs : \A c : Awaits(p, c)' = Awaits(p, c)
    BY <1>1, <1>8 DEF Awaits
  <2> QED
    BY <1>1, <1>13, <2>1 DEF ChannelsInv, Given
<1>15. Fresh'
  <2> SUFFICES ASSUME NEW e \in Elements(s), e.cmd = "INIT"
               PROVE  /\ Len(s) = 1 /\ Unused(e.new)'
                      /\ \A p \in Programs : \A g \in Queued(p) : g.cmd = "INIT" => g.new # e.new
    BY <1>2, <1>4, <1>8 DEF Fresh
  <2>1. Len(s) = 1 /\ e.new = channels + 1
    BY <1>4
  <2>2. Unused(channels + 1)
    <3>1. channels + 1 > channels
      BY <1>5
    <3>2. \A p \in Programs : cid[p] # channels + 1
      BY <1>5 DEF ChannelsInv, Bounded, Typed
    <3>3. ASSUME NEW p \in Programs, NEW f \in Pending(p) PROVE f.cid # channels + 1
      <4>1. f.cid \in Nat /\ f.cid <= channels
        BY <1>5, <3>3, FlowsHold DEF ChannelsInv, Bounded
      <4> QED
        BY <1>5, <4>1
    <3>4. ASSUME NEW i \in Owed \cup inbox PROVE i.cid # channels + 1
      <4>1. i.cid \in Nat /\ i.cid <= channels
        BY <1>5, <3>4, FlowsHold DEF ChannelsInv, Bounded, Messages
      <4> QED
        BY <1>5, <4>1
    <3> QED
      BY <3>2, <3>3, <3>4 DEF Unused
  <2>3. ASSUME NEW p \in Programs, NEW g \in Queued(p), g.cmd = "INIT" PROVE g.new # e.new
    <3>1. g.new \in 1 .. channels
      BY <1>8, <2>3 DEF ChannelsInv, Bounded
    <3> QED
      BY <1>5, <2>1, <3>1
  <2> QED
    BY <1>13, <2>1, <2>2, <2>3
<1>16. Apart'
  BY <1>1 DEF ChannelsInv, Apart
<1>17. \A p \in Programs : SendsAt(p)' /\ WholeAt(p)' /\ Who(p)' = Who(p)
  BY <1>1 DEF ChannelsInv, Sends, SendsAt, Whole, WholeAt, Who
<1>18. ASSUME NEW p \in Programs PROVE PrivateAt(p)'
  <2> SUFFICES ASSUME On(p) PROVE PrivateAt(p)'
    BY <1>1 DEF PrivateAt, On
  <2>1. PrivateAt(p)
    BY DEF ChannelsInv, Private
  <2>2. \A who, cmd : Fit(p, who, cmd) => Fit(p, who, cmd)'
    BY <1>1 DEF Fit, Current
  <2>3. ASSUME NEW e \in Elements(s), e.cid = cid[p] PROVE Fit(p, e.id[1], e.cmd)
    <3>1. Fit(p, j.of, j.cmd)
      BY <1>4, <1>6, <2>1, <2>3 DEF PrivateAt
    <3> QED
      BY <1>4, <2>3, <3>1 DEF Fit, Commands
  <2>4. \A f \in Pending(p)' : f.cid = cid'[p] => Fit(p, f.id[1], f.cmd)'
    BY <1>1, <1>8, <2>1, <2>2, <2>3 DEF PrivateAt
  <2>5. \A i \in (Owed \cup inbox)' : i.cid = cid'[p] => Fit(p, i.of, i.cmd)'
    BY <1>1, <1>8, <2>1, <2>2 DEF PrivateAt
  <2> QED
    BY <1>1, <1>17, <2>1, <2>4, <2>5 DEF PrivateAt
<1>19. Sends' /\ Private' /\ Whole'
  BY <1>17, <1>18 DEF Sends, Private, Whole
<1> QED
  BY <1>7, <1>10, <1>11, <1>12, <1>14, <1>15, <1>16, <1>19 DEF ChannelsInv

(* A report comes to a queue: last, if at all.                             *)
LEMMA WithHas ==
  ASSUME SizesAssumption, NEW s \in Seq(Frames), NEW e \in Frames, NEW oldest \in BOOLEAN,
         Increasing(s), \A g \in Elements(s) : Earlier(g, e)
  PROVE  /\ With(s, e, oldest) \in Seq(Frames) /\ Increasing(With(s, e, oldest))
         /\ Elements(With(s, e, oldest)) \subseteq Elements(s) \cup {e}
<1>1. CASE Len(s) < QueueLimit
  BY <1>1, ElementsAppend, IncreasingAppend DEF With
<1>2. CASE ~(Len(s) < QueueLimit) /\ oldest
  <2>1. s # <<>>
    BY <1>2, EmptySeq DEF SizesAssumption
  <2>2. PICK t : t = Tail(s)
    OBVIOUS
  <2>3. t \in Seq(Frames) /\ Elements(t) \subseteq Elements(s) /\ Increasing(t)
    BY <2>1, <2>2, ElementsTail, IncreasingTail
  <2>4. Append(t, e) \in Seq(Frames) /\ Elements(Append(t, e)) = Elements(t) \cup {e}
    BY <2>3, ElementsAppend
  <2>5. Increasing(Append(t, e))
    BY <2>3, IncreasingAppend
  <2>6. With(s, e, oldest) = Append(t, e)
    BY <1>2, <2>2 DEF With
  <2> QED
    BY <2>3, <2>4, <2>5, <2>6
<1>3. CASE ~(Len(s) < QueueLimit) /\ ~oldest
  BY <1>3 DEF With
<1> QED
  BY <1>1, <1>2, <1>3

(* Two programs that wait for a channel make a race.                       *)
LEMMA TwoWait ==
  ASSUME SizesAssumption, NEW p \in Programs, NEW q \in Programs, p # q,
         state[p] = "new", state[q] = "new"
  PROVE  Cardinality(Waiting) > 1
<1>1. IsFiniteSet(Waiting)
  BY FS_Subset DEF SizesAssumption, Waiting
<1>2. Cardinality({p}) = 1 /\ IsFiniteSet({p})
  BY FS_Singleton
<1>3. IsFiniteSet({p} \cup {q}) /\ Cardinality({p} \cup {q}) = 2
  BY <1>2, FS_AddElement, SMTT(20)
<1>4. {p} \cup {q} \in SUBSET Waiting
  BY DEF Waiting
<1>5. 2 <= Cardinality(Waiting)
  BY <1>1, <1>3, <1>4, FS_Subset
<1>6. Cardinality(Waiting) \in Nat
  BY <1>1, FS_CardinalityType
<1> QED
  BY <1>5, <1>6

(* A report goes to every program that has the device open: a channel to   *)
(* one that waits for one - or, in a race, to several.                     *)
LEMMA EmitKeeps ==
  ASSUME SizesAssumption, ChannelsInv, Emit
  PROVE  ChannelsInv'
<1>1. PICK oldest \in BOOLEAN :
         queue' = [p \in Programs |-> IF state[p] = "closed" THEN queue[p]
                                     ELSE With(queue[p], Head(emitting), oldest)]
  BY DEF Emit
<1>2. /\ emitting # <<>> /\ emitting' = Tail(emitting)
      /\ UNCHANGED <<state, pc, cid, call, datasent, got, result, inbox, jobs, channels>>
  BY DEF Emit, progVars, locals
<1>3. PICK e : e = Head(emitting)
  OBVIOUS
<1>4. raced' = IF e.cmd = "INIT" /\ Cardinality(Waiting) > 1 THEN raced \cup {e.new} ELSE raced
  BY <1>3 DEF Emit
<1>5. Typed /\ emitting \in Seq(Frames) /\ Increasing(emitting) /\ raced \subseteq raced'
  BY <1>4 DEF ChannelsInv, Typed, Ordered
<1>6. /\ e \in Frames /\ e \in Emitted /\ emitting' \in Seq(Frames)
      /\ Emitted' \subseteq Emitted /\ Len(emitting') = Len(emitting) - 1
      /\ Increasing(emitting') /\ \A g \in Emitted' : Earlier(e, g)
  BY <1>2, <1>3, <1>5, ElementsTail, IncreasingTail DEF Emitted
<1>7. ASSUME NEW p \in Programs
      PROVE  /\ queue'[p] \in Seq(Frames) /\ Increasing(queue'[p])
             /\ Queued(p)' \subseteq Queued(p) \cup {e}
  <2>1. /\ queue[p] \in Seq(Frames) /\ Increasing(queue[p])
        /\ \A g \in Elements(queue[p]) : Earlier(g, e)
    BY <1>5, <1>6 DEF ChannelsInv, Typed, Ordered, Queued
  <2>2. CASE state[p] = "closed"
    BY <1>1, <2>1, <2>2 DEF Queued
  <2>3. CASE state[p] # "closed"
    <3>1. queue'[p] = With(queue[p], e, oldest)
      BY <1>1, <1>3, <2>3
    <3> QED
      BY <1>6, <2>1, <3>1, WithHas DEF Queued
  <2> QED
    BY <2>2, <2>3
<1>8. queue' \in [Programs -> Seq(Frames)]
  <2>1. queue' = [p \in Programs |-> queue'[p]]
    BY <1>1
  <2> QED
    BY <1>7, <2>1
<1>9. Typed'
  BY <1>2, <1>5, <1>6, <1>8 DEF Typed
<1>10. /\ Owed' = Owed /\ \A p \in Programs : Pending(p)' \subseteq Pending(p)
  BY <1>2, <1>6, <1>7 DEF Owed, Pending
<1>11. Ordered'
  <2>1. \A p \in Programs : \A f \in Queued(p)' : \A g \in Emitted' : Earlier(f, g)
    BY <1>6, <1>7 DEF ChannelsInv, Ordered
  <2>2. \A p \in Programs : \A f \in Pending(p)' : \A j \in (Owed \cup inbox)' : Before(f, j)
    BY <1>2, <1>10 DEF ChannelsInv, Ordered
  <2>3. Rising(jobs') /\ \A j \in Owed' : \A m \in inbox' : Sooner(j, m)
    BY <1>2, <1>10 DEF ChannelsInv, Ordered
  <2> QED
    BY <1>6, <1>7, <2>1, <2>2, <2>3 DEF Ordered
<1>12. Counted' /\ Bounded'
  BY <1>2, <1>10 DEF ChannelsInv, Counted, Made, Bounded
<1>13. ASSUME NEW c, Unused(c) PROVE Unused(c)'
  BY <1>2, <1>10, <1>13 DEF Unused
<1>14. e.cmd = "INIT" =>
          /\ Len(emitting) = 1 /\ Unused(e.new)
          /\ \A p \in Programs : \A g \in Queued(p) : g.cmd = "INIT" => g.new # e.new
  BY <1>6 DEF ChannelsInv, Fresh
<1>15. \A p \in Programs : \A c : Awaits(p, c)' =>
          state[p] = "new" /\ (Awaits(p, c) \/ (e.cmd = "INIT" /\ e.new = c))
  BY <1>2, <1>7 DEF Awaits
<1>16. Given'
  <2> SUFFICES ASSUME NEW p \in Programs, NEW c \in Nat \ raced', Awaits(p, c)'
               PROVE  Unused(c)' /\ \A q \in Programs \ {p} : ~Awaits(q, c)'
    BY DEF Given
  <2>1. c \in Nat \ raced
    BY <1>5
  <2>2. CASE Awaits(p, c)
    <3>1. Unused(c) /\ \A q \in Programs \ {p} : ~Awaits(q, c)
      BY <2>1, <2>2 DEF ChannelsInv, Given
    <3>2. e.cmd = "INIT" => e.new # c
      BY <1>14, <2>2 DEF Awaits
    <3> QED
      BY <1>13, <1>15, <3>1, <3>2
  <2>3. CASE e.cmd = "INIT" /\ e.new = c
    <3>1. Unused(c)
      BY <1>14, <2>3
    <3>2. ASSUME NEW q \in Programs \ {p} PROVE ~Awaits(q, c)'
      <4>1. state[p] = "new" /\ (state[q] = "new" => Cardinality(Waiting) > 1)
        BY <1>15, TwoWait
      <4>2. state[q] # "new"
        BY <1>4, <2>3, <4>1
      <4> QED
        BY <1>15, <4>2
    <3> QED
      BY <1>13, <3>1, <3>2
  <2> QED
    BY <1>15, <2>2, <2>3
<1>17. Fresh'
  <2>1. ASSUME NEW g \in Emitted', g.cmd = "INIT" PROVE FALSE
    <3>1. Len(emitting) = 1
      BY <1>6, <2>1 DEF ChannelsInv, Fresh
    <3>2. Len(emitting') = 0
      BY <1>6, <3>1
    <3>3. Emitted' = {}
      BY <3>2 DEF Emitted, Elements
    <3> QED
      BY <2>1, <3>3
  <2> QED
    BY <2>1 DEF Fresh
<1>18. Apart'
  BY <1>2, <1>5 DEF ChannelsInv, Apart
<1>19. ASSUME NEW p \in Programs PROVE SendsAt(p)' /\ PrivateAt(p)' /\ WholeAt(p)'
  <2>1. SameTo(p)
    BY <1>2 DEF SameTo
  <2> QED
    BY <1>2, <1>5, <1>10, <2>1, OthersKeep
<1>20. Sends' /\ Private' /\ Whole'
  BY <1>19 DEF Sends, Private, Whole
<1> QED
  BY <1>9, <1>11, <1>12, <1>16, <1>17, <1>18, <1>20 DEF ChannelsInv

LEMMA ChannelsKept ==
  ASSUME SizesAssumption, ChannelsInv, [Next]_vars
  PROVE  ChannelsInv'
<1>1. ASSUME NEW p \in Programs, Open(p) PROVE ChannelsInv'
  BY <1>1, OpenKeeps
<1>2. ASSUME NEW p \in Programs, Call(p) PROVE ChannelsInv'
  BY <1>2, CallKeeps
<1>3. ASSUME NEW p \in Programs, Send(p) PROVE ChannelsInv'
  BY <1>3, SendKeeps
<1>4. ASSUME NEW p \in Programs, ReadTimeout(p) PROVE ChannelsInv'
  BY <1>4, TimeoutKeeps
<1>5. ASSUME NEW p \in Programs, ReadFails(p) PROVE ChannelsInv'
  BY <1>5, ReadFailsKeeps
<1>6. ASSUME NEW p \in Programs, Read(p) PROVE ChannelsInv'
  BY <1>6, ReadKeeps
<1>7. CASE Answer
  BY <1>7, AnswerKeeps
<1>8. CASE Emit
  BY <1>8, EmitKeeps
<1>9. CASE UNCHANGED vars
  BY <1>9, SameState DEF vars, progVars, locals, devVars
<1> QED
  BY <1>1, <1>2, <1>3, <1>4, <1>5, <1>6, <1>7, <1>8, <1>9 DEF Next

LEMMA ChannelsFit == ChannelsInv => OwnAnswer /\ SharedByRace
<1> SUFFICES ASSUME ChannelsInv PROVE OwnAnswer /\ SharedByRace
  OBVIOUS
<1>1. OwnAnswer
  BY DEF ChannelsInv, Whole, WholeAt, OwnAnswer, Who
<1>2. SharedByRace
  <2> SUFFICES ASSUME NEW p \in Programs, Shared(p), cid[p] # 0 PROVE cid[p] \in raced
    BY DEF SharedByRace, Broadcast
  <2>1. PICK q \in Programs \ {p} : cid[q] = cid[p] /\ "closed" \notin {state[p], state[q]}
    BY DEF Shared
  <2> QED
    BY <2>1 DEF ChannelsInv, Apart
<1> QED
  BY <1>1, <1>2

-----------------------------------------------------------------------------
LEMMA ChannelsHold == ASSUME SizesAssumption PROVE Spec => []ChannelsInv
<1>1. ChannelsInv /\ [Next]_vars => ChannelsInv'
  BY ChannelsKept
<1> QED
  BY <1>1, InitChannels, PTL DEF Spec

(* However many programs use the device, in whatever order they open it,   *)
(* call, fail and are answered (u2fmisc.c:151-300): a program that is on   *)
(* a channel nobody raced for gets, with U2FH_OK, the answer to its last   *)
(* call, and never a late one to an earlier call or one for another        *)
(* program.                                                                *)
THEOREM OwnAnswerAlways == ASSUME SizesAssumption PROVE Spec => []OwnAnswer
<1>1. ChannelsInv => OwnAnswer
  BY ChannelsFit
<1> QED
  BY <1>1, ChannelsHold, PTL

(* Two programs come to be on one channel only if both waited for one when *)
(* the device gave it out (devs.c:180-205, init_device).                   *)
THEOREM SharedByRaceAlways == ASSUME SizesAssumption PROVE Spec => []SharedByRace
<1>1. ChannelsInv => SharedByRace
  BY ChannelsFit
<1> QED
  BY <1>1, ChannelsHold, PTL

=============================================================================
