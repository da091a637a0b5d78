---------------------------- MODULE MCPromptTurn ----------------------------
(* PromptTurn with its inputs as model values, and the bounded histories the runs check. *)
EXTENDS PromptTurn, TLC

CONSTANTS p1, p2, s1, f1, n1

TheTexts == {p1, p2}
TheSteers == {s1}
TheFollowUps == {f1}
TheNexts == {n1}

\* A prompt and a retry, beside one abort.
OnePrompt == [sent |-> {p1}, retries |-> 1, tools |-> 0, aborts |-> 1, cuts |-> 0, refuses |-> FALSE]
TwoPrompts == [OnePrompt EXCEPT !.sent = {p1, p2}]

\* With a tool turn and a queue of each kind; two prompts in a row; a session that refuses writes;
\* prompt() itself cancelled.
Histories == {[OnePrompt EXCEPT !.sent = {p1, s1, n1}, !.tools = 1],
              TwoPrompts,
              [OnePrompt EXCEPT !.sent = {p1, s1}, !.refuses = TRUE],
              [OnePrompt EXCEPT !.sent = {p1, f1, n1}, !.cuts = 1]}

CountdownHistories == {TwoPrompts}
=============================================================================
