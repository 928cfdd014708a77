-------------------------------- MODULE MCChat --------------------------------
(* ChatStream and its properties, with values for TLC.                     *)
EXTENDS ChatStreamProps

\* The native service serves every writer, the backend's only responses.
Wired == {<<"native", "chat">>, <<"native", "messages">>,
          <<"native", "responses">>, <<"backend", "responses">>}

Responses == {<<"native", "responses">>}
=============================================================================
