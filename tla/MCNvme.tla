------------------------------- MODULE MCNvme -------------------------------
(* A small controller: two sectors and a handful of commands, one of each  *)
(* outcome.                                                                *)
EXTENDS Nvme

MCQueries == {<<"identify", <<3, 1>>>>}
MCIoCommands == {<<"read", <<2>>>>, <<"flush", <<>>>>}

=============================================================================
