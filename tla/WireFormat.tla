----------------------------- MODULE WireFormat ------------------------------
(***************************************************************************)
(* The action the extension writes (challengesToStr of ext/index.js) and   *)
(* the helper reads (read_action of c_src/main.c) through a pipe that      *)
(* hands it on in pieces and may be closed at any time.                    *)
(*                                                                         *)
(* A text is a length in units of UTF-16, which the extension writes into  *)
(* the field, and one in bytes of UTF-8, which the stream carries and the  *)
(* helper counts; they are the same for ASCII.  A number field is one      *)
(* element of the stream, each byte of a text is one.                      *)
(*                                                                         *)
(* External: read() returns bytes or, at the end, 0.  (The only signal is  *)
(* the alarm, whose handler ends the helper.)                              *)
(*                                                                         *)
(* The texts are kept one after another, and each challenge begins where   *)
(* the one before has put its final zero: of these only the last is left,  *)
(* and a challenge is the text that begins at its pointer.                 *)
(***************************************************************************)
EXTENDS Naturals, SequencesExt

CONSTANTS
    Modulus,        \* 16^4, for the four digits of a field
    SenderMax,      \* the 16 of challengesToStr
    ReaderMax,      \* elements of challenges_lengths
    Requests        \* what is asked for: [op, origin, challenges]

(* A unit is one to three bytes, two units that make up one character are  *)
(* four.  No text for whose length toHex writes five digits.               *)
Texts == {t \in [units : 0 .. 15 * Modulus - 1, bytes : Nat] :
              t.units <= t.bytes /\ t.bytes <= 3 * t.units}

WireFormatAssumption ==
    /\ Modulus \in Nat /\ SenderMax \in Nat /\ ReaderMax \in Nat \ {0}
    /\ ReaderMax <= SenderMax /\ SenderMax < Modulus
    /\ \A r \in Requests :
          /\ r.op \in {"r", "s"}
          /\ r.origin \in Texts
          /\ r.challenges \in Seq(Texts)

VARIABLES
    request,
    unsent, pipe,   \* what is not yet written, and not yet read
    closed,
    pc,             \* what is read: "op", "head", "lengths", "domain", "challenges"
    need,           \* len of read_n_bytes
    got,            \* what it has read
    lengths,        \* domain_len and challenges_lengths, as far as read
    count,          \* challenges_num
    size,           \* challenges_buf_len, then the characters malloc made room for
    chars,          \* what is at domain: the texts that are complete
    starts,         \* buf->challenges, as offsets from domain
    action          \* what read_action returns, "none" before

reader == <<pc, need, got, lengths, count, size, chars, starts, action>>
vars == <<request, unsent, pipe, closed, reader>>

(* toHex writes the last four digits.                                      *)
Field(n) == [field |-> n % Modulus]
Bytes(i, n) == [j \in 1 .. n |-> [text |-> i, at |-> j]]
Zero == [text |-> 0, at |-> 0]

(* The texts of a request.                                                 *)
Contents(r, ch) ==
    Bytes(0, r.origin.bytes) \o FlattenSeq([i \in DOMAIN ch |-> Bytes(i, ch[i].bytes)])

challengesToStr(r) ==
    LET ch == SubSeq(r.challenges, 1, IF Len(r.challenges) > SenderMax
                                      THEN SenderMax ELSE Len(r.challenges))
    IN  <<[op |-> r.op], Field(r.origin.units), Field(Len(ch))>>
        \o [i \in DOMAIN ch |-> Field(ch[i].units)]
        \o Contents(r, ch)

Init ==
    /\ request \in Requests
    /\ unsent = challengesToStr(request)
    /\ pipe = <<>> /\ closed = FALSE
    /\ pc = "op" /\ need = 1 /\ got = <<>>
    /\ lengths = <<>> /\ count = 0 /\ size = 0 /\ chars = <<>> /\ starts = <<>>
    /\ action = "none"

Write ==
    /\ ~closed
    /\ \E n \in 1 .. Len(unsent) :
          /\ pipe' = pipe \o SubSeq(unsent, 1, n)
          /\ unsent' = SubSeq(unsent, n + 1, Len(unsent))
    /\ UNCHANGED <<request, closed, reader>>

Close == closed' = TRUE /\ UNCHANGED <<request, unsent, pipe, reader>>

-----------------------------------------------------------------------------
(* read_n_bytes takes what is there, until it has all.                     *)
Read ==
    /\ action = "none" /\ need > 0
    /\ \E n \in 1 .. Len(pipe) :
          /\ n <= need
          /\ got' = got \o SubSeq(pipe, 1, n)
          /\ pipe' = SubSeq(pipe, n + 1, Len(pipe))
          /\ need' = need - n
    /\ UNCHANGED <<request, unsent, closed, pc, lengths, count, size, chars, starts,
                   action>>

AtEnd == pipe = <<>> /\ closed

EndOfInput ==
    /\ action = "none" /\ need > 0
    /\ AtEnd
    /\ action' = "eof"
    /\ UNCHANGED <<request, unsent, pipe, closed, pc, need, got, lengths, count,
                   size, chars, starts>>

Complete(step) == action = "none" /\ need = 0 /\ pc = step
ReadNext(step, n) == pc' = step /\ need' = n /\ got' = <<>> /\ UNCHANGED action
GiveUp == action' = "eof" /\ UNCHANGED <<pc, need, got>>

HasOp ==
    /\ Complete("op")
    /\ ReadNext("head", 2)
    /\ UNCHANGED <<request, unsent, pipe, closed, lengths, count, size, chars, starts>>

(* Preceded by a variant of the test.                                      *)
OneTooMany(n) == n > ReaderMax
TooMany(n) == n >= ReaderMax

HasHead ==
    /\ Complete("head")
    /\ count' = got[2].field
    /\ lengths' = <<got[1].field>>
    /\ IF count' = 0 \/ got[1].field = 0 \/ TooMany(count')
       THEN GiveUp
       ELSE ReadNext("lengths", 1)
    /\ UNCHANGED <<request, unsent, pipe, closed, size, chars, starts>>

(* A length is added up, and after the last of them there is room for all  *)
(* the texts and a zero after each.                                        *)
HasLength ==
    /\ Complete("lengths")
    /\ lengths' = Append(lengths, got[1].field)
    /\ CASE got[1].field = 0 -> GiveUp /\ UNCHANGED size
         [] got[1].field # 0 /\ Len(lengths') = count + 1 ->
              \/ /\ size' = lengths[1] + (size + got[1].field) + count + 1
                 /\ ReadNext("domain", lengths[1])
              \/ GiveUp /\ UNCHANGED size               \* no memory
         [] OTHER -> size' = size + got[1].field /\ ReadNext("lengths", 1)
    /\ UNCHANGED <<request, unsent, pipe, closed, count, chars, starts>>

HasDomain ==
    /\ Complete("domain")
    /\ chars' = Append(got, Zero)
    /\ starts' = <<lengths[1] + 1>>
    /\ ReadNext("challenges", lengths[2])
    /\ UNCHANGED <<request, unsent, pipe, closed, lengths, count, size>>

(* The challenge at the last pointer is complete.                          *)
HasChallenge ==
    /\ Complete("challenges")
    /\ LET i == Len(starts)
           at == starts[i]
       IN  /\ chars' = Append(SubSeq(chars, 1, at) \o got, Zero)
           /\ IF i = count
              THEN action' = request.op /\ UNCHANGED <<pc, need, got, starts>>
              ELSE /\ starts' = Append(starts, at + lengths[i + 1])
                   /\ ReadNext("challenges", lengths[i + 2])
    /\ UNCHANGED <<request, unsent, pipe, closed, lengths, count, size>>

Next ==
    \/ Write \/ Close \/ Read \/ EndOfInput
    \/ HasOp \/ HasHead \/ HasLength \/ HasDomain \/ HasChallenge

(* The pipe writes what it was given, and the helper goes on reading.      *)
Spec == Init /\ [][Next]_vars
FairSpec == Spec /\ WF_vars(Write) /\ WF_vars(Next)

-----------------------------------------------------------------------------
TypeOK ==
    /\ request \in Requests
    /\ pc \in {"op", "head", "lengths", "domain", "challenges"}
    /\ need \in Nat /\ closed \in BOOLEAN
    /\ lengths \in Seq(0 .. Modulus - 1) /\ Len(lengths) <= ReaderMax
    /\ count \in 0 .. Modulus - 1 /\ size \in Nat
    /\ starts \in Seq(Nat) /\ Len(starts) <= count
    /\ action \in {"none", "eof", "r", "s"}

(* Texts of ASCII whose lengths fit into a field, and fewer challenges     *)
(* than the helper has room for.                                           *)
Plain(t) == t.units = t.bytes /\ t.units < Modulus

Fitting(r) ==
    /\ Plain(r.origin)
    /\ \A i \in DOMAIN r.challenges : Plain(r.challenges[i])
    /\ Len(r.challenges) < ReaderMax

(* The helper runs what it was asked to run, if that was Fitting: the      *)
(* domain of an action it returns is the origin, up to its zero, and at    *)
(* each pointer begins a challenge of the request, none cut off, followed  *)
(* by the next or by the last zero, in whatever pieces they came.          *)
Delivered ==
    LET origin == request.origin.bytes
        asked == request.challenges
    IN  action \in {"r", "s"} /\ Fitting(request) =>
           /\ action = request.op
           /\ SubSeq(chars, 1, origin + 1) = Append(Bytes(0, origin), Zero)
           /\ Len(starts) = Len(asked)
           /\ \A i \in DOMAIN asked :
                 LET n == asked[i].bytes IN
                 /\ SubSeq(chars, starts[i] + 1, starts[i] + n) = Bytes(i, n)
                 /\ chars[starts[i] + n + 1] =
                       IF i = Len(asked) THEN Zero ELSE Bytes(i + 1, asked[i + 1].bytes)[1]

(* The text that is read next, and its zero, have room in the action.      *)
HasRoom ==
    /\ pc = "domain" => lengths[1] + 1 <= size
    /\ pc = "challenges" =>
          starts[Len(starts)] + lengths[Len(starts) + 1] + 1 <= size

(* A request with as many challenges as the extension lets through is not  *)
(* run: the helper takes it for the end of its input.                      *)
ManyAreRefused == action \in {"r", "s"} => Len(request.challenges) < ReaderMax

=============================================================================
