---------------------------- MODULE JsonGrammar ------------------------------
(***************************************************************************)
(* What the JSON parser of c_src/json-c accepts, as a grammar over a whole *)
(* text: JSON with comments, single quotes, commas at the end, NaN and     *)
(* Infinity, less if strict.  JsonTokener is compared with it.             *)
(*                                                                         *)
(* Each operator takes a position and returns whether what it is named     *)
(* after begins there, its value, and the position behind it.              *)
(***************************************************************************)
EXTENDS Integers, SequencesExt

CONSTANTS MaxDepth, HexLen, Words
VARIABLES text, strict

NUL == "NUL"
At(i) == IF i <= Len(text) THEN text[i] ELSE NUL
No == [ok |-> FALSE, v |-> <<>>, next |-> 0]
Yes(v, i) == [ok |-> TRUE, v |-> v, next |-> i]

First(i, P(_)) ==
    LET hits == {j \in i .. Len(text) : P(j)}
    IN  IF hits = {} THEN 0 ELSE CHOOSE j \in hits : \A m \in hits : j <= m

(* The position behind blanks and comments, 0 if a comment does not end.   *)
RECURSIVE Skip(_)
Skip(i) ==
    CASE At(i) \in {" ", "LF"} -> Skip(i + 1)
      [] At(i) = "/" /\ ~strict /\ At(i + 1) = "*" ->
           LET j == First(i + 2, LAMBDA k : At(k) = "*" /\ At(k + 1) = "/")
           IN  IF j = 0 THEN 0 ELSE Skip(j + 2)
      [] At(i) = "/" /\ ~strict /\ At(i + 1) = "/" ->
           LET j == First(i + 2, LAMBDA k : At(k) = "LF") IN IF j = 0 THEN 0 ELSE Skip(j)
      [] At(i) = "/" /\ ~strict /\ At(i + 1) \notin {"*", "/"} -> 0
      [] OTHER -> i

Word(i, w, v) ==
    IF i + Len(w) - 1 <= Len(text) /\ SubSeq(text, i, i + Len(w) - 1) = w
    THEN Yes(v, i + Len(w)) ELSE No

-----------------------------------------------------------------------------
(* The characters of a string that ends with the quote q.  A surrogate is  *)
(* one character with its other half, and is replaced without it.          *)
Escape == [b |-> "BS", n |-> "LF", r |-> "CR", t |-> "HT", f |-> "FF"]
Code(i) == At(i) = "\\" /\ At(i + 1) = "u"
           /\ \A j \in i + 2 .. i + 1 + HexLen : At(j) \in {"H", "L", "X"}
Before(x, s) == IF s.ok THEN [s EXCEPT !.v = <<x>> \o @] ELSE No

RECURSIVE Chars(_, _)
Chars(i, q) ==
    LET after == i + 2 + HexLen
        pair == At(i + 2) = "H" /\ Code(after) /\ At(after + 2) = "L"
    IN  CASE At(i) = q -> Yes(<<>>, i + 1)
          [] At(i) = NUL -> No
          [] Code(i) /\ pair -> Before("P", Chars(after + 2 + HexLen, q))
          [] Code(i) /\ ~pair -> Before(IF At(i + 2) = "X" THEN "X" ELSE "R", Chars(after, q))
          [] At(i) = "\\" /\ ~Code(i) ->
               CASE At(i + 1) \in {"q", "\\", "/"} -> Before(At(i + 1), Chars(i + 2, q))
                 [] At(i + 1) \in DOMAIN Escape -> Before(Escape[At(i + 1)], Chars(i + 2, q))
                 [] OTHER -> No
          [] OTHER -> Before(At(i), Chars(i + 1, q))

(* A number ends before the first character that is in no number.  Points  *)
(* and exponents come once and in this order, a minus at the beginning of  *)
(* the number or of its exponent.  The digits are left to sscanf, which is *)
(* content without those behind a point or an exponent.                    *)
Digits == {"0", "1"}
NumberEnd(i) ==
    LET j == First(i, LAMBDA k : At(k) \notin Digits \cup {".", "+", "-", "e"})
    IN  IF j = 0 THEN Len(text) + 1 ELSE j

Number(i) ==
    LET next == NumberEnd(i)
        s == SubSeq(text, i, next - 1)
        body == IF s[1] = "-" THEN Tail(s) ELSE s
        count(x) == Cardinality({k \in DOMAIN s : s[k] = x})
        exact == \A k \in DOMAIN body : body[k] \in Digits
        wellFormed ==
            /\ body # <<>>
            /\ body[1] \in Digits \/ (Len(body) > 1 /\ body[1] = "." /\ body[2] \in Digits)
            /\ count(".") <= 1 /\ count("e") <= 1 /\ count("+") = 0
            /\ \A k \in DOMAIN body : body[k] = "-" => body[k - 1] = "e"
            /\ \A k, m \in DOMAIN body : body[k] = "." /\ body[m] = "e" => k < m
        octal == strict /\ exact /\ s[1] = "0" /\ count("1") > 0
    IN  IF wellFormed /\ ~octal THEN Yes(IF exact THEN <<"int", s>> ELSE <<"double", s>>, next)
        ELSE No

-----------------------------------------------------------------------------
WithMember(members, k, v) ==
    IF \E i \in DOMAIN members : members[i][1] = k
    THEN [i \in DOMAIN members |-> IF members[i][1] = k THEN <<k, v>> ELSE members[i]]
    ELSE Append(members, <<k, v>>)

(* A value at depth d.                                                     *)
RECURSIVE Value(_, _), Items(_, _, _, _)

(* A name, a colon and a value: the name with the value.                   *)
Named(name, d) ==
    LET colon == IF name.ok THEN Skip(name.next) ELSE 0
        with(value) == IF value.ok THEN [value EXCEPT !.v = <<name.v, @>>] ELSE No
    IN  IF colon > 0 /\ At(colon) = ":" THEN with(Value(Skip(colon + 1), d + 1)) ELSE No

Member(i, d) == IF i > 0 /\ At(i) \in {"q", "s"} THEN Named(Chars(i + 1, At(i)), d) ELSE No

(* What follows the next item of an array or object that is whole so far.  *)
Close == [array |-> "]", object |-> "}"]
With(whole, x) ==
    <<whole[1], IF whole[1] = "array" THEN Append(whole[2], x)
                ELSE WithMember(whole[2], x[1], x[2])>>

After(item, d, whole) ==
    LET e == IF item.ok THEN Skip(item.next) ELSE 0 IN
    CASE e > 0 /\ At(e) = Close[whole[1]] -> Yes(With(whole, item.v), e + 1)
      [] e > 0 /\ At(e) = "," -> Items(Skip(e + 1), d, With(whole, item.v), TRUE)
      [] OTHER -> No

Items(i, d, whole, afterComma) ==
    IF i > 0 /\ At(i) = Close[whole[1]] /\ ~(afterComma /\ strict) THEN Yes(whole, i + 1)
    ELSE After(IF whole[1] = "array" THEN Value(i, d + 1) ELSE Member(i, d), d, whole)

Text(chars) == IF chars.ok THEN Yes(<<"string", chars.v>>, chars.next) ELSE No

Value(i, d) ==
    CASE i = 0 \/ d >= MaxDepth -> No
      [] i > 0 /\ At(i) = "[" -> Items(Skip(i + 1), d, <<"array", <<>>>>, FALSE)
      [] i > 0 /\ At(i) = "{" -> Items(Skip(i + 1), d, <<"object", <<>>>>, FALSE)
      [] i > 0 /\ (At(i) = "q" \/ (At(i) = "s" /\ ~strict)) -> Text(Chars(i + 1, At(i)))
      [] i > 0 /\ At(i) = "-" /\ Word(i + 1, Words.inf, NUL).ok ->
           Word(i + 1, Words.inf, <<"inf", TRUE>>)
      [] i > 0 /\ At(i) \in Digits \cup {"-"} /\ ~Word(i + 1, Words.inf, NUL).ok -> Number(i)
      [] OTHER ->
           LET words == {Word(i, Words.true, <<"boolean", TRUE>>),
                         Word(i, Words.false, <<"boolean", FALSE>>),
                         Word(i, Words.null, <<"null">>), Word(i, Words.nan, <<"nan">>),
                         Word(i, Words.inf, <<"inf", FALSE>>)} \ {No}
           IN  IF words = {} THEN No ELSE CHOOSE w \in words : TRUE

(* What the text begins with, and whether it is that and nothing else.     *)
Beginning == Value(Skip(1), 0)
Whole(value) == value.ok /\ Skip(value.next) = Len(text) + 1
IsValue == Whole(Beginning)

=============================================================================
