----------------------------- MODULE MCBackground -----------------------------
(***************************************************************************)
(* Two jobs that ask up to two questions each.                             *)
(***************************************************************************)
EXTENDS Background

CONSTANTS j1, j2

MCJobs == {j1, j2}

\* no signals; jobs stopped and killed; freed memory overwritten; a password
MCSettings ==
  {[kept |-> TRUE, signals |-> FALSE, calls |-> {"question"}],
   [kept |-> TRUE, signals |-> TRUE, calls |-> {"question"}],
   [kept |-> FALSE, signals |-> TRUE, calls |-> {"question"}],
   [kept |-> TRUE, signals |-> FALSE, calls |-> {"question", "password"}]}
=============================================================================
