--------------------------- MODULE MCConversation ---------------------------
(* Two ids that every answer may use again, one answer beyond the limit, and *)
(* bounds that cut the history in the first turns.                           *)
EXTENDS Conversation

MCAnswers == {<<>>, <<"a">>, <<"b">>, <<"a", "b">>, <<"b", "a", "b">>}
=============================================================================
