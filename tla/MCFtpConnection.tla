--------------------------- MODULE MCFtpConnection ---------------------------
(* Servers that know more or less of the protocol, and what their users do. *)
EXTENDS FtpConnection
Server(unknown, uses, pasv, rfc, cd) ==
  [refuses |-> unknown, ops |-> uses, passive |-> pasv, strict |-> rfc, first |-> cd]
MCSettings ==
  {Server({}, {"list", "sub", "view"}, TRUE, FALSE, FALSE),
   Server({"EPSV"}, {"sub", "remove", "download", "upload"}, TRUE, TRUE, TRUE),
   Server({"PASV", "EPSV", "PORT", "LIST -la"}, {"sub", "save", "rename"}, TRUE, FALSE, FALSE),
   Server({}, {"sub", "download"}, FALSE, FALSE, TRUE)}
\* a file is copied from a directory of a server to another one of it
MCCopy == {Server({}, {"copy"}, TRUE, FALSE, TRUE)}
=============================================================================
