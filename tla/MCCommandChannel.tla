-------------------------- MODULE MCCommandChannel --------------------------
(* Instances of CommandChannel for TLC. *)
EXTENDS CommandChannel

CRLF == <<"CR", "LF">>
MCStreams ==
  { Stop \o CRLF,
    <<"terminate">> \o CRLF \o Pause \o CRLF,
    CRLF \o Resume \o CRLF,
    <<"num:", "1">> \o CRLF,
    <<"sta">> }
=============================================================================
