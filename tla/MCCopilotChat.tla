----------------------------- MODULE MCCopilotChat -----------------------------
(***************************************************************************)
(* Conversations and their answers.  Either two requests at a time, with a *)
(* judgment and one document, go through their turns, or one turn is seen  *)
(* from within: what is drafted, verified and said in it.                  *)
(***************************************************************************)
EXTENDS CopilotChat, CopilotAnswers

Symmetric == Permutations(Turn)

Facts == [judgment |-> {"result"}, document |-> {"quote"}, assume |-> {"assumption"},
          propose |-> {}]

Invented == [id : {1, 2}, facts : {{"result"}, {"invented"}}]
Claims == Invented \cup [id : {1, 2}, facts : {{"result", "quote"}}]

\* Up to two claims.
Short(set) == {<<c>> : c \in set} \cup {<<c, d>> : c \in set, d \in set}
DraftsOfTwo == {<<>>} \cup Short(Claims)
RepairsOfTwo == Short(Invented)

ChatInit == (Init /\ Silent) \/ (Init /\ AnswersInit)

ChatNext ==
    \/ stage = "silent" /\ Next /\ UNCHANGED answerVars
    \/ AnswersNext /\ UNCHANGED vars

ChatSpec == ChatInit /\ [][ChatNext]_<<vars, answerVars>>
=============================================================================
