----------------------------- MODULE MCEditSession -----------------------------
(***************************************************************************)
(* Two editors, and the circumstances in which the file is saved.          *)
(***************************************************************************)
EXTENDS EditSession, TLC

CONSTANTS a, b

MCSessions == {a, b}
Symmetry == Permutations(MCSessions)

Plain(mode, who) ==
  [mode |-> mode, linked |-> FALSE, exists |-> TRUE, plain |-> TRUE, who |-> who]

\* two sessions in every save mode and through a write filter; one session with
\* backups, one that creates the file, and one that saves a file with other hard links
MCOptions ==
  {Plain(m, MCSessions) : m \in Modes} \cup
  {Plain("backup", {s}) : s \in MCSessions} \cup
  {[Plain("quick", MCSessions) EXCEPT !.plain = FALSE]} \cup
  {[Plain(m, {s}) EXCEPT !.exists = FALSE] : m \in Modes, s \in MCSessions} \cup
  {[Plain("quick", {s}) EXCEPT !.linked = TRUE] : s \in MCSessions}

\* one session may write more often than two, and two through a filter write less often
Writes == Cardinality(opt.who) = 2 => stamp <= IF opt.plain THEN 6 ELSE 4

QuickOptions == {Plain("quick", MCSessions)}
=============================================================================
