----------------------------- MODULE JsonTokener -----------------------------
(***************************************************************************)
(* The JSON parser of c_src/json-c/json_tokener.c: a state machine that    *)
(* json_tokener_parse_ex feeds with one character after the other, with a  *)
(* stack of levels, and that can be stopped at the end of a piece of text  *)
(* and go on with the next.  json_tokener_parse, which the helper uses,    *)
(* gives it the whole text and its final zero.                             *)
(*                                                                         *)
(* Characters are names: q and s are the two quotes, letters stand for     *)
(* both cases, H, L and X for the hexadecimal digits that begin a high or  *)
(* a low surrogate or anything else.  A value is a tuple that begins with  *)
(* its type.  What the text means is defined by JsonGrammar.               *)
(***************************************************************************)
EXTENDS Integers, SequencesExt

CONSTANTS
    Inputs,         \* the texts to parse and how: [text, chunked, strict]
    MaxDepth,       \* max_depth
    HexLen,         \* digits of a unicode escape: 4
    Words           \* the spelling of true, false, null, nan and inf

JsonTokenerAssumption ==
    /\ \A input \in Inputs : input.chunked \in BOOLEAN /\ input.strict \in BOOLEAN
    /\ MaxDepth \in Nat \ {0} /\ HexLen \in Nat \ {0}

VARIABLES
    text,
    chunked,        \* whether json_tokener_parse_ex is called with pieces of it
    strict,         \* JSON_TOKENER_STRICT in tok->flags
    off,            \* characters of text consumed
    end,            \* where the current piece ends; behind the zero for len -1
    pc,             \* "between" calls, "parsing" or "done"
    tok,            \* the tokener
    err,            \* tok->err, after a call
    result          \* what the call has returned

given == <<text, chunked, strict>>
vars == <<given, off, end, pc, tok, err, result>>

NUL == "NUL"
NULL == <<"null">>
Blank == {" ", "LF"}
Digits == {"0", "1"}
NumberChars == Digits \cup {".", "+", "-", "e"}
Hex == {"H", "L", "X"}
Escape == [b |-> "BS", n |-> "LF", r |-> "CR", t |-> "HT", f |-> "FF"]

Grammar == INSTANCE JsonGrammar

(* json_tokener_reset_level                                                *)
NewLevel == [state |-> "eatws", saved |-> "start", current |-> NULL, field |-> <<>>]
NewCase == [len |-> 0, exponent |-> FALSE, minus |-> 1]

(* json_tokener_new_ex                                                     *)
Init ==
    /\ \E input \in Inputs :
          text = input.text /\ chunked = input.chunked /\ strict = input.strict
    /\ off = 0 /\ end = 0
    /\ pc = "between"
    /\ tok = [stack |-> <<NewLevel>>, obj |-> NULL, pb |-> <<>>, stpos |-> 0,
              double |-> FALSE, quote |-> "q", ucs |-> <<>>,
              case |-> NewCase,         \* the locals of the state number
              hi |-> FALSE]             \* got_hi_surrogate
    /\ err = "continue" /\ result = NULL

(* A call of json_tokener_parse_ex; its locals start anew.                 *)
Call ==
    /\ pc = "between"
    /\ end' \in (IF chunked THEN off + 1 .. Len(text) ELSE {}) \cup {Len(text) + 1}
    /\ tok' = [tok EXCEPT !.case = NewCase, !.hi = FALSE, !.obj = NULL]
    /\ pc' = "parsing"
    /\ UNCHANGED <<given, off, err, result>>

c == IF off < Len(text) THEN text[off + 1] ELSE NUL
Peek(n) == IF off + 1 + n <= Len(text) THEN text[off + 1 + n] ELSE NUL
Top(k) == Len(k.stack)
depth == Top(tok) - 1
level == tok.stack[Top(tok)]

In(states) == pc = "parsing" /\ off < end /\ level.state \in states

(* The assignments to state, saved_state, current and obj_field_name.      *)
To(k, state) == [k EXCEPT !.stack[Top(k)].state = state]
Then(k, saved) == [k EXCEPT !.stack[Top(k)].state = "eatws", !.stack[Top(k)].saved = saved]
Has(k, value) == [Then(k, "finish") EXCEPT !.stack[Top(k)].current = value]
Push(k, state) ==
    LET waiting == To(k, state) IN [waiting EXCEPT !.stack = Append(@, NewLevel)]
Collect(k, s) == [k EXCEPT !.pb = @ \o s]

-----------------------------------------------------------------------------
(* The end of json_tokener_parse_ex.                                       *)
Verdict(l, e) ==
    CASE c = NUL /\ l.state # "finish" /\ l.saved # "finish" -> "eof"
      [] c # NUL /\ l.state = "finish" /\ depth = 0 /\ strict -> "unexpected"
      [] OTHER -> e

Stop(k, e) ==
    /\ tok' = k
    /\ err' = Verdict(k.stack[Top(k)], e)
    /\ result' = IF err' = "success" THEN k.stack[Top(k)].current ELSE NULL
    /\ pc' = "done"
    /\ UNCHANGED <<given, off, end>>

Redo(k) == tok' = k /\ UNCHANGED <<given, off, end, pc, err, result>>

(* ADVANCE_CHAR, which ends the call behind the final zero.                *)
Advance(k) ==
    IF c = NUL THEN Stop(k, "success")
    ELSE tok' = k /\ off' = off + 1 /\ UNCHANGED <<given, end, pc, err, result>>

(* PEEK_CHAR at the end of the piece.  Preceded by a variant that takes    *)
(* the end of any value for the end of the text.                           *)
EndOfValue ==
    /\ pc = "parsing" /\ off = end
    /\ IF level.state = "eatws" /\ level.saved = "finish"
       THEN err' = "success" /\ result' = level.current /\ pc' = "done"
       ELSE err' = "continue" /\ pc' = "between" /\ UNCHANGED result
    /\ UNCHANGED <<given, off, end, tok>>

EndOfPiece ==
    /\ pc = "parsing" /\ off = end
    /\ IF depth = 0 /\ level.state = "eatws" /\ level.saved = "finish"
       THEN err' = "success" /\ result' = level.current /\ pc' = "done"
       ELSE err' = "continue" /\ pc' = "between" /\ UNCHANGED result
    /\ UNCHANGED <<given, off, end, tok>>

-----------------------------------------------------------------------------
(* The states.                                                             *)
EatWs ==
    /\ In({"eatws"})
    /\ CASE c \in Blank -> Advance(tok)
         [] c = "/" /\ ~strict -> Advance(To(tok, "comment_start"))
         [] OTHER -> Redo(To(tok, level.saved))

Start ==
    /\ In({"start"})
    /\ LET fresh == [tok EXCEPT !.pb = <<>>] IN
       CASE c = "{" -> Advance([Then(tok, "object_field_start")
                                  EXCEPT !.stack[Top(tok)].current = <<"object", <<>>>>])
         [] c = "[" -> Advance([Then(tok, "array")
                                  EXCEPT !.stack[Top(tok)].current = <<"array", <<>>>>])
         [] c = Words.inf[1] -> Redo([To(fresh, "inf") EXCEPT !.stpos = 0])
         [] c = Words.null[1] -> Redo([To(fresh, "null") EXCEPT !.stpos = 0])
         [] c \in {Words.true[1], Words.false[1]} ->
              Redo([To(fresh, "boolean") EXCEPT !.stpos = 0])
         [] c = "q" \/ (c = "s" /\ ~strict) ->
              Advance([To(fresh, "string") EXCEPT !.quote = c])
         [] c \in Digits \cup {"-"} ->
              Redo([To(fresh, "number") EXCEPT !.double = FALSE, !.case = NewCase])
         [] OTHER -> Stop(tok, "unexpected")

(* A complete value goes to the level below.                               *)
Finish ==
    /\ In({"finish"})
    /\ IF depth = 0 THEN Stop(tok, "success")
       ELSE Redo([tok EXCEPT !.obj = level.current, !.stack = Front(@)])

CommentStart ==
    /\ In({"comment_start"})
    /\ CASE c = "*" -> Advance(To(tok, "comment"))
         [] c = "/" -> Advance(To(tok, "comment_eol"))
         [] OTHER -> Stop(tok, "comment")

Comment ==
    /\ In({"comment", "comment_eol", "comment_end"})
    /\ CASE level.state = "comment" /\ c = "*" -> Advance(To(tok, "comment_end"))
         [] level.state = "comment_eol" /\ c = "LF" -> Advance(To(tok, "eatws"))
         [] level.state = "comment_end" ->
              Advance(To(tok, IF c = "/" THEN "eatws" ELSE "comment"))
         [] OTHER -> Advance(tok)

(* The literals: strncmp of what was collected with the first characters   *)
(* of the word.  Each ends with the character behind it.                   *)
Matches(word, buf) ==
    LET n == IF tok.stpos + 1 < Len(word) THEN tok.stpos + 1 ELSE Len(word)
    IN  Len(buf) >= n /\ SubSeq(buf, 1, n) = SubSeq(word, 1, n)

Literal(word, buf, value) ==
    /\ Matches(word, buf)
    /\ IF tok.stpos = Len(word)
       THEN Redo(Has(tok, value))
       ELSE Advance([Collect(tok, <<c>>) EXCEPT !.stpos = @ + 1])

Infinity ==
    /\ In({"inf"})
    /\ LET buf == Append(tok.pb, c)
           negative == buf[1] = "-"
           rest == IF negative THEN Tail(buf) ELSE buf
       IN  \/ Literal(Words.inf, rest, <<"inf", negative>>)
           \/ ~Matches(Words.inf, rest) /\ Stop(tok, "unexpected")

NullOrNaN ==
    /\ In({"null"})
    /\ LET buf == Append(tok.pb, c) IN
       \/ Literal(Words.null, buf, NULL)
       \/ ~Matches(Words.null, buf) /\ Literal(Words.nan, buf, <<"nan">>)
       \/ ~Matches(Words.null, buf) /\ ~Matches(Words.nan, buf) /\ Stop(tok, "null")

Boolean ==
    /\ In({"boolean"})
    /\ LET buf == Append(tok.pb, c) IN
       \/ Literal(Words.true, buf, <<"boolean", TRUE>>)
       \/ ~Matches(Words.true, buf) /\ Literal(Words.false, buf, <<"boolean", FALSE>>)
       \/ /\ ~Matches(Words.true, buf) /\ ~Matches(Words.false, buf)
          /\ Stop(tok, "boolean")

-----------------------------------------------------------------------------
(* Strings and the names of members.                                       *)
String ==
    /\ In({"string", "object_field"})
    /\ CASE c = tok.quote /\ level.state = "string" ->
              Advance(Has(tok, <<"string", tok.pb>>))
         [] c = tok.quote /\ level.state = "object_field" ->
              Advance([Then(tok, "object_field_end")
                         EXCEPT !.stack[Top(tok)].field = tok.pb])
         [] c = "\\" ->
              Advance([To(tok, "string_escape")
                         EXCEPT !.stack[Top(tok)].saved = level.state])
         [] OTHER -> Advance(Collect(tok, <<c>>))

StringEscape ==
    /\ In({"string_escape"})
    /\ CASE c \in {"q", "\\", "/"} -> Advance(To(Collect(tok, <<c>>), level.saved))
         [] c \in DOMAIN Escape -> Advance(To(Collect(tok, <<Escape[c]>>), level.saved))
         [] c = "u" -> Advance([To(tok, "escape_unicode")
                                  EXCEPT !.ucs = <<>>, !.stpos = 0, !.hi = FALSE])
         [] OTHER -> Stop(tok, "string")

(* After the last digit: a high surrogate waits for a low one, if its      *)
(* escape begins in the same piece; a surrogate that stays alone becomes   *)
(* the replacement character, R.                                           *)
Digit == [tok EXCEPT !.ucs = Append(@, c), !.stpos = @ + 1]

Decoded ==
    LET first == Digit.ucs[1]
        lost == IF tok.hi /\ first # "L" THEN <<"R">> ELSE <<>>
        this == CASE tok.hi /\ first = "L" -> "P" [] first = "X" -> "X" [] OTHER -> "R"
    IN  IF first = "H" /\ off + 2 < end /\ Peek(1) = "\\" /\ Peek(2) = "u"
        THEN \* three characters are passed over
             /\ off' = off + 3
             /\ IF off + 3 = end
                THEN /\ tok' = Collect(Digit, Append(lost, "R"))
                     /\ err' = "continue" /\ pc' = "between"
                ELSE /\ tok' = [Collect(Digit, lost) EXCEPT
                                  !.hi = TRUE, !.ucs = <<>>, !.stpos = 0]
                     /\ UNCHANGED <<err, pc>>
             /\ UNCHANGED <<given, end, result>>
        ELSE Advance([To(Collect(Digit, Append(lost, this)), level.saved) EXCEPT !.hi = FALSE])

(* The final zero passes for a digit, and ends the call all the same.      *)
(* Digits that a piece of text begins with, behind the start of a second   *)
(* escape, are counted on from the first one's: there is no last of them.  *)
EscapeUnicode ==
    /\ In({"escape_unicode"})
    /\ CASE c \in Hex /\ tok.stpos + 1 = HexLen -> Decoded
         [] c \in Hex /\ tok.stpos + 1 # HexLen ->
              IF off + 1 = end /\ tok.hi
              THEN Advance(Collect(Digit, <<"R">>)) ELSE Advance(Digit)
         [] c = NUL -> Stop(tok, "success")
         [] OTHER -> Stop(tok, "string")

-----------------------------------------------------------------------------
(* A number: the characters are only told apart as far as signs, points    *)
(* and exponents are concerned; the rest is left to sscanf, which ignores  *)
(* what follows the digits.                                                *)
Misplaced ==
    \/ c = "." /\ tok.double
    \/ c = "e" /\ tok.case.exponent
    \/ c = "-" /\ tok.case.len + 1 # tok.case.minus

IntegerOf(s) ==
    LET from == IF s # <<>> /\ s[1] = "-" THEN 2 ELSE 1
        to == CHOOSE n \in from - 1 .. Len(s) :
                  /\ \A i \in from .. n : s[i] \in Digits
                  /\ n = Len(s) \/ s[n + 1] \notin Digits
    IN  IF to < from THEN <<>> ELSE SubSeq(s, 1, to)

Sscanf(s) ==
    LET digits == IF s # <<>> /\ s[1] = "-" THEN Tail(s) ELSE s IN
    /\ digits # <<>>
    /\ digits[1] \in Digits \/ (Len(digits) > 1 /\ digits[1] = "." /\ digits[2] \in Digits)

NumberOf(s, double, OnValue(_), OnError) ==
    LET n == IntegerOf(s) IN
    CASE ~double /\ n # <<>> /\ ~(strict /\ s[1] = "0" /\ Contains(n, "1")) -> OnValue(<<"int", n>>)
      [] double /\ Sscanf(s) -> OnValue(<<"double", s>>)
      [] OTHER -> OnError

Number ==
    /\ In({"number"})
    /\ CASE c \in NumberChars /\ Misplaced -> Stop(tok, "number")
         [] c \in NumberChars /\ ~Misplaced ->
              Advance([Collect(tok, <<c>>) EXCEPT
                         !.double = @ \/ c \in {".", "e"},
                         !.case = [len |-> @.len + 1, exponent |-> @.exponent \/ c = "e",
                                   minus |-> IF c = "e" THEN @.len + 2 ELSE @.minus]])
         [] tok.pb[1] = "-" /\ tok.case.len = 1 /\ c = Words.inf[1] -> Redo(To(tok, "inf"))
         [] OTHER -> NumberOf(tok.pb, tok.double,
                              LAMBDA value : Redo(Has(tok, value)), Stop(tok, "number"))

-----------------------------------------------------------------------------
(* Arrays and objects.                                                     *)
TooDeep == depth >= MaxDepth - 1

Array ==
    /\ In({"array", "array_after_sep"})
    /\ CASE c = "]" /\ (level.state = "array" \/ ~strict) -> Advance(Then(tok, "finish"))
         [] c = "]" /\ level.state # "array" /\ strict -> Stop(tok, "unexpected")
         [] c # "]" /\ TooDeep -> Stop(tok, "depth")
         [] OTHER -> Redo(Push(tok, "array_add"))

ArrayAdd ==
    /\ In({"array_add"})
    /\ Redo([Then(tok, "array_sep")
                EXCEPT !.stack[Top(tok)].current = <<"array", Append(@[2], tok.obj)>>])

ArraySep ==
    /\ In({"array_sep"})
    /\ CASE c = "]" -> Advance(Then(tok, "finish"))
         [] c = "," -> Advance(Then(tok, "array_after_sep"))
         [] OTHER -> Stop(tok, "array")

FieldStart ==
    /\ In({"object_field_start", "object_field_start_after_sep"})
    /\ CASE c = "}" /\ (level.state = "object_field_start" \/ ~strict) ->
              Advance(Then(tok, "finish"))
         [] c = "}" /\ level.state # "object_field_start" /\ strict -> Stop(tok, "unexpected")
         [] c \in {"q", "s"} ->
              Advance([To(tok, "object_field") EXCEPT !.quote = c, !.pb = <<>>])
         [] OTHER -> Stop(tok, "object_key_name")

FieldEnd ==
    /\ In({"object_field_end"})
    /\ IF c = ":" THEN Advance(Then(tok, "object_value")) ELSE Stop(tok, "object_key_sep")

ObjectValue ==
    /\ In({"object_value"})
    /\ IF TooDeep THEN Stop(tok, "depth") ELSE Redo(Push(tok, "object_value_add"))

(* json_object_object_add, see LinkHash.                                   *)
WithMember(members, k, v) ==
    IF \E i \in DOMAIN members : members[i][1] = k
    THEN [i \in DOMAIN members |-> IF members[i][1] = k THEN <<k, v>> ELSE members[i]]
    ELSE Append(members, <<k, v>>)

ObjectAdd ==
    /\ In({"object_value_add"})
    /\ Redo([Then(tok, "object_sep") EXCEPT
                !.stack[Top(tok)].current =
                    <<"object", WithMember(@[2], level.field, tok.obj)>>,
                !.stack[Top(tok)].field = <<>>])

ObjectSep ==
    /\ In({"object_sep"})
    /\ CASE c = "}" -> Advance(Then(tok, "finish"))
         [] c = "," -> Advance(Then(tok, "object_field_start_after_sep"))
         [] OTHER -> Stop(tok, "object_value_sep")

Next ==
    \/ Call \/ EndOfPiece
    \/ EatWs \/ Start \/ Finish \/ CommentStart \/ Comment
    \/ Infinity \/ NullOrNaN \/ Boolean
    \/ String \/ StringEscape \/ EscapeUnicode \/ Number
    \/ Array \/ ArrayAdd \/ ArraySep
    \/ FieldStart \/ FieldEnd \/ ObjectValue \/ ObjectAdd \/ ObjectSep

Spec == Init /\ [][Next]_vars

-----------------------------------------------------------------------------
States == {"eatws", "start", "finish", "null", "comment_start", "comment", "comment_eol",
           "comment_end", "string", "string_escape", "escape_unicode", "boolean", "number",
           "array", "array_add", "array_sep", "object_field_start", "object_field",
           "object_field_end", "object_value", "object_value_add", "object_sep",
           "array_after_sep", "object_field_start_after_sep", "inf"}

TypeOK ==
    /\ off \in 0 .. Len(text) /\ end \in 0 .. Len(text) + 1
    /\ pc \in {"between", "parsing", "done"}
    /\ Len(tok.stack) \in 1 .. MaxDepth
    /\ \A i \in DOMAIN tok.stack : tok.stack[i].state \in States /\ tok.stack[i].saved \in States
    /\ tok.stpos \in Nat /\ tok.hi \in BOOLEAN /\ tok.quote \in {"q", "s"}

(* json_tokener.h: "Parse a string and return a non-NULL json_object if a  *)
(* valid JSON value is found."  What is returned with success is the value *)
(* the text begins with, wherever the text was divided.                    *)
Returns(value) == value.ok /\ result = value.v /\ off >= value.next - 1
Sound == err = "success" => Returns(Grammar!Beginning)

(* A text that is one JSON value and nothing else is not refused.          *)
Complete ==
    pc = "done" /\ err # "success" => ~Grammar!IsValue

=============================================================================
