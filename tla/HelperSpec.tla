----------------------------- MODULE HelperSpec -----------------------------
(***************************************************************************)
(* What the u2f helper process (c_src/main.c) promises to the extension    *)
(* that talks to it over its stdin and stdout: it takes one action at a    *)
(* time, prints prompts about the device ("i" insert, "j" inserted, "b"    *)
(* press the button), answers every action it does not die in, and may     *)
(* die at any moment.  Module Helper shows that main.c keeps this promise; *)
(* module Session composes it with the extension.                          *)
(*                                                                         *)
(* A helper is one record, and its steps are sets of successor records, so *)
(* that a composition may hold a function of helpers.                      *)
(***************************************************************************)
EXTENDS Naturals, Sequences, FiniteSets

CONSTANT MaxPrompts     \* bound: prompts one helper prints in its life

Actions == {"s", "r"}                   \* sign, register
Messages == Actions \cup {"end"}        \* "end": the extension closes stdin
Prompts == {"i", "j", "b"}
Answers == {"ok", "err4", "err"}        \* "r...", "e..." with code 4, other "e..."
AnswersTo(op) == IF op = "r" THEN {"ok", "err"} ELSE Answers
Tokens == Prompts \cup Answers

Helpers ==
    [exit: {"none", "code", "signal"},  \* how it ended, if it did
     op: {"idle"} \cup Actions,         \* the action it has taken
     dev: {"u", "m", "p", "b"},         \* main's device_state
     prompts: 0 .. MaxPrompts,          \* how many it printed
     inp: Seq(Messages),                \* written to stdin, not yet read
     out: Seq(Tokens)]                  \* printed, not yet read by the reader

InitHelper ==
    [exit |-> "none", op |-> "idle", dev |-> "u", prompts |-> 0,
     inp |-> <<>>, out |-> <<>>]

When(guard, steps) == IF guard THEN steps ELSE {}

-----------------------------------------------------------------------------
(* A prompt is printed when the device state it announces is new.          *)
Prompt(h, token, state) ==
    [h EXCEPT !.dev = state, !.prompts = @ + 1, !.out = Append(@, token)]

PromptSteps(h) ==
    When(h.prompts < MaxPrompts,
         When(h.dev # "m", {Prompt(h, "i", "m")})
         \cup When(h.dev = "m", {Prompt(h, "j", "p")})
         \cup When(h.op # "idle" /\ h.dev \in {"u", "p"}, {Prompt(h, "b", "b")}))

(* An idle helper takes the next action; the end of stdin ends it.         *)
TakeSteps(h) ==
    When(h.op = "idle" /\ h.inp # <<>>,
         IF Head(h.inp) = "end"
         THEN {[h EXCEPT !.exit = "code"]}
         ELSE {[h EXCEPT !.op = Head(h.inp), !.inp = Tail(@)]})

(* The action it has taken is answered, while a device is present.         *)
AnswerSteps(h) ==
    When(h.op # "idle" /\ h.dev # "m",
         {[h EXCEPT !.op = "idle", !.out = Append(@, a)] : a \in AnswersTo(h.op)})

(* An error of its own is reported, whatever it was doing, and ends it.    *)
FatalSteps(h) == {[h EXCEPT !.exit = "code", !.out = Append(@, "err")]}

(* The alarm goes off (exit in the signal handler), or a signal kills it.  *)
DeathSteps(h) == {[h EXCEPT !.exit = e] : e \in {"code", "signal"}}

HelperSteps(h) ==
    When(h.exit = "none",
         PromptSteps(h) \cup TakeSteps(h) \cup AnswerSteps(h)
         \cup FatalSteps(h) \cup DeathSteps(h))

-----------------------------------------------------------------------------
(* The helper and the extension side of its two pipes.                     *)
VARIABLE helper

Init == helper = InitHelper

Work == helper' \in HelperSteps(helper)

Write == \E m \in Messages : helper' = [helper EXCEPT !.inp = Append(@, m)]

Read ==
    /\ helper.out # <<>>
    /\ helper' = [helper EXCEPT !.out = Tail(@)]

Next == Work \/ Write \/ Read

Spec == Init /\ [][Next]_helper

=============================================================================
