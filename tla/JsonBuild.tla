------------------------------ MODULE JsonBuild ------------------------------
(***************************************************************************)
(* The JSON an operation takes apart and makes: get_fixed_json_data,       *)
(* prepare_browserdata and prepare_origin of c_src/libu2f-host/u2fmisc.c,  *)
(* prepare_response and prepare_response2 of register.c and                *)
(* authenticate.c, in the order in which u2fh_register and                 *)
(* u2fh_authenticate call them.  Every allocation can fail.                *)
(*                                                                         *)
(* A text is its length; objects are named after the variables that hold   *)
(* them.  What happens between the request and the response is the module  *)
(* Operations.  Nothing is said of what follows once more was written than *)
(* a buffer holds: the model ends there.                                   *)
(***************************************************************************)
EXTENDS Integers, SequencesExt

CONSTANTS
    FieldSize,      \* sizeof chalb64, khb64 and keyb64
    OutSize,        \* sizeof bd, bdstr, b64resp and b64enc
    HandleSize,     \* MAXKHLEN
    AnswerMax,      \* MAXDATASIZE without the status: what send_apdu lets through
    TextLengths,    \* of the members of a challenge
    DataLengths     \* of client data

(* Characters base64_encode_block and base64_encode_blockend make of n     *)
(* bytes, and bytes base64_decode_block writes for n of its characters.    *)
Encoded(n) == 4 * ((n + 2) \div 3)
Written(n) == IF n = 0 THEN 1 ELSE n - n \div 4

SizeAssumption ==
    /\ FieldSize \in Nat \ {0} /\ OutSize \in Nat
    /\ HandleSize \in Nat /\ AnswerMax \in Nat \ {0}
    /\ TextLengths \subseteq Nat
    /\ DataLengths \subseteq Nat \ {0}       \* an object is no empty text
    /\ Encoded(AnswerMax) < OutSize

Keys == {"challenge", "keyHandle", "appId"}
Strings == {"chal", "orig", "typ", "resp", "enc", "bd", "key"}
Objects == Strings \cup {"jo"}
ABSENT == -1                \* no such member, or null
Errors == {"JSON_ERROR", "MEMORY_ERROR", "TRANSPORT_ERROR"}

VARIABLES
    op,             \* "register" or "authenticate"
    valid,          \* the challenge is JSON
    text,           \* length of each member of the challenge
    call,           \* the calls still to make, the current one first
    pc,             \* "call", where prepare_browserdata or prepare_response2 is,
                    \* or "overrun"
    next,           \* the strings still to make
    refs,           \* reference counts, 0 for what is not allocated
    members,        \* what jo holds
    parsed,         \* parsed challenges that were not put
    lengths,        \* what was written to each of the buffers
    response,       \* the members of *response, {} if it was not set
    result,         \* rc of the current call
    rc              \* what the operation returns, "none" before

input == <<op, valid, text>>
vars == <<input, call, pc, next, refs, members, parsed, lengths,
          response, result, rc>>

(* chalb64, khb64, keyb64, bd, the key handle in data, b64resp or b64enc,  *)
(* bdstr.                                                                  *)
Fields == {"challenge", "keyHandle", "key"}
Buffers == Fields \cup {"bd", "handle", "answer", "bdstr"}

Calls(o) ==
    IF o = "register"
    THEN <<"challenge", "browserdata", "origin", "devices", "encode", "response">>
    ELSE <<"challenge", "browserdata", "origin", "keyHandle", "decode", "devices",
           "encode", "response">>

(* The strings in the order in which they are made.                        *)
StringsOf(c) ==
    CASE c = "browserdata" -> <<"chal", "orig", "typ">>
      [] c = "response" /\ op = "register" -> <<"bd", "resp">>
      [] c = "response" /\ op = "authenticate" -> <<"enc", "bd", "key">>

Init ==
    /\ op \in {"register", "authenticate"}
    /\ valid \in BOOLEAN
    /\ text \in [Keys -> {ABSENT} \cup TextLengths]
    /\ call = Calls(op)
    /\ pc = "call" /\ next = <<>>
    /\ refs = [o \in Objects |-> 0] /\ members = {}
    /\ parsed = 0
    /\ lengths = [b \in Buffers |-> 0]
    /\ response = {}
    /\ result = "none" /\ rc = "none"

In(c) == pc = "call" /\ call # <<>> /\ Head(call) = c /\ rc = "none"
GoOn == call' = Tail(call) /\ UNCHANGED rc
Fail(code) == rc' = code /\ UNCHANGED call

-----------------------------------------------------------------------------
(* The test of get_fixed_json_data that leaves room for the final zero.    *)
TooLong(length) == length >= FieldSize

(* get_fixed_json_data: it fails with JSON_ERROR for whatever reason, and  *)
(* puts the parsed challenge only when it succeeds.                        *)
Fixed(key, buffer, OnOk, OnError) ==
    \/ /\ valid /\ text[key] # ABSENT /\ ~TooLong(text[key])
       /\ lengths' = [lengths EXCEPT ![buffer] = text[key]]
       /\ OnOk
       /\ UNCHANGED parsed
    \/ /\ valid /\ (text[key] = ABSENT \/ TooLong(text[key]))
       /\ OnError
       /\ parsed' = parsed + 1
       /\ UNCHANGED lengths
    \/ OnError /\ UNCHANGED <<parsed, lengths>>         \* not JSON, or no memory

GetFixed(key) ==
    /\ In(key)
    /\ Fixed(key, key, GoOn, Fail("JSON_ERROR"))
    /\ UNCHANGED <<input, pc, next, refs, members, response, result>>

(* prepare_origin, whose result nobody looks at.                           *)
PrepareOrigin ==
    /\ In("origin")
    /\ GoOn
    /\ parsed' \in {parsed} \cup
                   (IF valid /\ text["appId"] = ABSENT THEN {parsed + 1} ELSE {})
    /\ UNCHANGED <<input, pc, next, refs, members, lengths, response, result>>

(* The key handle is decoded into data, however long it is.                *)
Decode ==
    /\ In("decode")
    /\ LET n == Written(lengths["keyHandle"])
       IN  /\ lengths' = [lengths EXCEPT !["handle"] = n]
           /\ IF n > HandleSize
              THEN pc' = "overrun" /\ UNCHANGED <<call, rc>>
              ELSE GoOn /\ UNCHANGED pc
    /\ UNCHANGED <<input, next, refs, members, parsed, response, result>>

(* The devices answer, or the operation ends with an error, one for all.   *)
Devices ==
    /\ In("devices")
    /\ GoOn \/ Fail("TRANSPORT_ERROR")
    /\ UNCHANGED <<input, pc, next, refs, members, parsed, lengths,
                   response, result>>

-----------------------------------------------------------------------------
(* prepare_response tests what it is given, and encodes it.  When a test   *)
(* fails there is no response; that is ignored.                            *)
TooLarge(length) == length > OutSize

Encode ==
    /\ In("encode")
    /\ \E answer \in {1, AnswerMax} :
          LET n == Encoded(answer)
              bd == Encoded(lengths["bd"])
          IN  IF TooLarge(answer) \/ TooLarge(lengths["bd"])
              THEN call' = <<>> /\ rc' = "OK" /\ UNCHANGED <<lengths, pc>>
              ELSE /\ lengths' = [lengths EXCEPT !["answer"] = n, !["bdstr"] = bd]
                   /\ IF n >= OutSize \/ bd >= OutSize
                      THEN pc' = "overrun" /\ UNCHANGED <<call, rc>>
                      ELSE GoOn /\ UNCHANGED pc
    /\ UNCHANGED <<input, next, refs, members, parsed, response, result>>

(* prepare_browserdata and the two prepare_response2: strings are made,    *)
(* then the object, which takes them over and is copied.                   *)
Begin ==
    /\ \E c \in {"browserdata", "response"} : In(c) /\ next' = StringsOf(c)
    /\ pc' = "strings"
    /\ result' = "JSON_ERROR"
    /\ UNCHANGED <<input, call, refs, members, parsed, lengths, response, rc>>

Made(o) == refs' = [refs EXCEPT ![o] = 1]

NewString ==
    /\ pc = "strings" /\ next # <<>>
    /\ \/ /\ Made(Head(next))
          /\ next' = Tail(next)
          /\ pc' = IF next' = <<"key">> THEN "fetch" ELSE "strings"
       \/ pc' = "done" /\ UNCHANGED <<refs, next>>
    /\ UNCHANGED <<input, call, members, parsed, lengths, response, result, rc>>

(* The key handle is taken from the challenge once more.                   *)
FetchKey ==
    /\ pc = "fetch"
    /\ Fixed("keyHandle", "key", pc' = "strings", pc' = "done")
    /\ UNCHANGED <<input, call, next, refs, members, response, result, rc>>

NewObject ==
    /\ pc = "strings" /\ next = <<>>
    /\ \/ Made("jo") /\ pc' = "add"
       \/ pc' = "done" /\ UNCHANGED refs
    /\ UNCHANGED <<input, call, next, members, parsed, lengths, response,
                   result, rc>>

AddMembers ==
    /\ pc = "add"
    /\ members' = ToSet(StringsOf(Head(call)))
    /\ pc' = "copy"
    /\ UNCHANGED <<input, call, next, refs, parsed, lengths, response,
                   result, rc>>

(* The object as text: into bd, if it has room, or into a new string.      *)
NoRoom(length) == length >= OutSize

CopyOut ==
    /\ pc = "copy"
    /\ \E length \in DataLengths, memory \in BOOLEAN :
          IF Head(call) = "browserdata" /\ ~NoRoom(length)
          THEN /\ lengths' = [lengths EXCEPT !["bd"] = length]
               /\ result' = "OK"
               /\ UNCHANGED response
          ELSE IF Head(call) = "response" /\ memory
          THEN /\ response' = members
               /\ result' = "OK"
               /\ UNCHANGED lengths
          ELSE result' = "MEMORY_ERROR" /\ UNCHANGED <<lengths, response>>
    /\ pc' = "done"
    /\ UNCHANGED <<input, call, next, refs, members, parsed, rc>>

(* The strings are put one by one unless an object has taken them over.    *)
(* Preceded by a variant in which they never are.                          *)
Never == FALSE
OneByOne == refs["jo"] = 0

Puts(o) ==
    (IF refs["jo"] = 1 /\ o \in members \cup {"jo"} THEN 1 ELSE 0)
    + (IF OneByOne /\ o \in Strings /\ refs[o] = 1 THEN 1 ELSE 0)

(* The end of the three functions.  What prepare_response returns is       *)
(* ignored: the operation has succeeded.                                   *)
Done ==
    /\ pc = "done"
    /\ refs' = [o \in Objects |-> refs[o] - Puts(o)]
    /\ members' = {}
    /\ pc' = "call" /\ next' = <<>>
    /\ CASE Head(call) = "response" -> rc' = "OK" /\ call' = <<>>
         [] Head(call) = "browserdata" /\ result = "OK" -> GoOn
         [] OTHER -> Fail(result)
    /\ UNCHANGED <<input, parsed, lengths, response, result>>

Next ==
    \/ \E key \in {"challenge", "keyHandle"} : GetFixed(key)
    \/ PrepareOrigin \/ Decode \/ Devices \/ Encode \/ Begin \/ NewString \/ FetchKey \/ NewObject
    \/ AddMembers \/ CopyOut \/ Done

Spec == Init /\ [][Next]_vars

-----------------------------------------------------------------------------
TypeOK ==
    /\ op \in {"register", "authenticate"} /\ valid \in BOOLEAN
    /\ text \in [Keys -> {ABSENT} \cup Nat]
    /\ \E n \in 0 .. Len(Calls(op)) :
          call = SubSeq(Calls(op), n + 1, Len(Calls(op)))
    /\ pc \in {"call", "strings", "fetch", "add", "copy", "done", "overrun"}
    /\ next \in Seq(Strings)
    /\ refs \in [Objects -> 0 .. 1] /\ members \subseteq Strings
    /\ parsed \in 0 .. 2
    /\ lengths \in [Buffers -> Nat]
    /\ response \subseteq Strings
    /\ result \in Errors \cup {"none", "OK"} /\ rc \in Errors \cup {"none", "OK"}

(* Whichever allocation fails, the strings and objects a response or the   *)
(* client data are built of are put once each and none is left.            *)
Balanced == pc = "call" => \A o \in Objects : refs[o] = 0

(* The members of a challenge, the client data and the answer of a device, *)
(* encoded, fit with their final zeros into the buffers they are put in.   *)
(* Nothing else is written too far than a long key handle, decoded, and    *)
(* long client data, encoded.                                              *)
Fits ==
    /\ \A b \in Fields : lengths[b] + 1 <= FieldSize
    /\ \A b \in {"bd", "answer"} : lengths[b] + 1 <= OutSize
    /\ pc = "overrun" =>
          \/ Written(lengths["keyHandle"]) > HandleSize
          \/ Encoded(lengths["bd"]) >= OutSize

(* authenticate.c: "#define MAXKHLEN 128", the room there is.  Not what    *)
(* the code keeps: khb64 holds 255 characters, which are 191 bytes.        *)
HandleFits == lengths["handle"] <= HandleSize

(* register.c: "if (strlen (bd) > 2048)", before bd is encoded into        *)
(* bdstr[2048].  Not enough: the code has more characters than bd.         *)
EncodedFits == lengths["bdstr"] + 1 <= OutSize

(* A response is whole, it was asked for with the client data it contains, *)
(* and the devices are only asked when the challenge had what they need.   *)
Whole ==
    /\ response # {} => response = ToSet(StringsOf("response")) /\ lengths["bd"] > 0
    /\ pc = "call" /\ call # <<>> /\ Head(call) = "devices" =>
          /\ valid /\ text["challenge"] # ABSENT
          /\ op = "authenticate" => text["keyHandle"] = lengths["keyHandle"]

(* json_object.h: "Any ownerships you acquired but did not transfer must   *)
(* be released through json_object_put."  Not what the code does when a    *)
(* member of the challenge is missing or too long.                         *)
LeaksNothing == parsed = 0

(* register.c on u2fh_register: "@response: pointer to output string with  *)
(* JSON data."  Not so when prepare_response has failed.                   *)
OkHasResponse == rc = "OK" => response # {}

=============================================================================
