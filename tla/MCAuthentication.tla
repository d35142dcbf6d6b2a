-------------------------- MODULE MCAuthentication --------------------------
(* A few keys, conversations and messages.                                 *)
EXTENDS Authentication

FewConversations ==
    {<<"echo_off">>, <<"text", "echo_off">>, <<"echo_on", "echo_off">>,
     <<"echo_off", "unknown">>}

SecuredOrNot == {{"icanon"}, {"echo", "isig", "icanon"}}
=============================================================================
