-------------------------------- MODULE MCJson --------------------------------
(***************************************************************************)
(* Models for TLC of the two machines of json-c: its parser (JsonTokener)  *)
(* and the hash table under an object (MCTable).  The first state chooses  *)
(* which of them runs; the variables of the parser are None throughout     *)
(* when the table does, and the object stays empty when the parser does.   *)
(***************************************************************************)
EXTENDS MCTable, SequencesExt

VARIABLES
    part,
    text, chunked, strict, off, end, pc, tok, err, result

None == "none"
No(v) == v = None

parserVars == <<text, chunked, strict, off, end, pc, tok, err, result>>
ParserUnused ==
    /\ No(text) /\ No(chunked) /\ No(strict) /\ No(off) /\ No(end)
    /\ No(pc) /\ No(tok) /\ No(err) /\ No(result)

TableUnused == Table!Init /\ hash = CHOOSE h \in Hashes : TRUE

vars == <<part, parserVars, tableVars>>

-----------------------------------------------------------------------------
(* Arrays and objects put together of their parts in every order, and      *)
(* literals, strings and numbers in their places.                          *)
UpTo(n, units) == {FlattenSeq(s) : s \in UNION {[1 .. m -> units] : m \in 0 .. n}}
Name == <<"q", "b", "q", ":">>

Structures(n) == UpTo(n, {<<"[">>, <<"]">>, <<",">>, <<"1">>, <<"{">> \o Name, <<"}">>})
Members(n) == {<<"{">> \o s : s \in UpTo(n, {Name, <<"q", "q">>, <<":">>, <<",">>, <<"1">>, <<"}">>})}

Scalars ==
    {<<"1", "0">>, <<"t", "y">>, <<"f", "y">>, <<"n", "l">>, <<"n", "a", "n">>, <<"i", "f", "y">>,
     <<"t", "t">>, <<"n", "y">>, <<"q", "q">>, <<"q", "s", "\\", "n", "q">>, <<"s", "q", "s">>,
     <<"q", "\\", "u", "X", "X", "q">>, <<"q", "\\", "s", "q">>, <<"\\">>}
Gaps == {<<>>, <<" ">>, <<"/", "*", "1", "*", "/">>, <<"/", "/", "1", "LF">>, <<"/", "1">>}

InPlaces(scalars) ==
    {g \o x \o h : x \in scalars, g \in Gaps, h \in Gaps}
    \cup {<<"[">> \o g \o x \o h \o <<"]">> : x \in scalars, g \in Gaps, h \in Gaps}
    \cup {<<"[">> \o x \o <<",">> \o y \o <<"]">> : x \in scalars, y \in scalars}
    \cup {<<"{">> \o Name \o g \o x \o h \o <<"}">> : x \in scalars, g \in Gaps, h \in Gaps}

Unclosed == {<<"q", "b">>, <<"{", "q", "b">>, <<"[", "q", "\\", "u", "X">>}
Numbers == {<<"[">> \o s \o <<"]">> : s \in UpTo(5, {<<"0">>, <<"1">>, <<"-">>, <<".">>, <<"e">>})}
Strings ==
    {<<"q">> \o s \o <<"q">> :
       s \in UpTo(4, {<<"\\", "u", "H", "X">>, <<"\\", "u", "L", "X">>, <<"\\", "u", "X", "X">>,
                      <<"\\", "n">>, <<"\\", "u">>, <<"b">>})}

(* In pieces, with comments but without a minus; and whole, with all       *)
(* numbers, in strict mode, which has no comments.                         *)
Pieces == Structures(4) \cup Members(3) \cup InPlaces(Scalars) \cup Unclosed
Whole == Structures(5) \cup Members(4) \cup InPlaces(Scalars) \cup Unclosed
            \cup Numbers \cup Strings \cup {<<"-", "i", "f", "y">>}

Parser == INSTANCE JsonTokener WITH
    Inputs <- {[text |-> x, chunked |-> TRUE, strict |-> FALSE] : x \in Pieces}
              \cup {[text |-> x, chunked |-> FALSE, strict |-> TRUE] : x \in Whole},
    MaxDepth <- 3, HexLen <- 2,
    Words <- [true |-> <<"t", "y">>, false |-> <<"f", "y">>, null |-> <<"n", "l">>,
              nan |-> <<"n", "a", "n">>, inf |-> <<"i", "f", "y">>]

ASSUME Parser!JsonTokenerAssumption

(* Four keys in a table of three entries, that grows once: keys that all   *)
(* collide at the end of the table, and keys that collide in pairs.        *)
Number == [a |-> 1, b |-> 2, c |-> 3, d |-> 4]
MCKeys == DOMAIN Number
MCHashes == {[k \in MCKeys |-> 2], [k \in MCKeys |-> Number[k] \div 2]}

-----------------------------------------------------------------------------
Init ==
    \/ part = "parser" /\ Parser!Init /\ TableUnused
    \/ part = "table" /\ Table!Init /\ ParserUnused

Next ==
    \/ part = "parser" /\ Parser!Next /\ UNCHANGED <<part, tableVars>>
    \/ part = "table" /\ Table!Next /\ UNCHANGED <<part, parserVars>>

Spec == Init /\ [][Next]_vars

-----------------------------------------------------------------------------
(* The parser and the grammar agree.  What is returned with success is the *)
(* value the text begins with, wherever the text was divided, and a text   *)
(* that is one JSON value and nothing else is not refused.                 *)
AsGrammar == part = "parser" => Parser!TypeOK /\ Parser!Sound /\ Parser!Complete

=============================================================================
