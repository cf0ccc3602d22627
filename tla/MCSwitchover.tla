---------------------------- MODULE MCSwitchover ----------------------------
\* Three nodes; the sibling precedes the candidate in an election.
EXTENDS Switchover

Plain == [dry |-> FALSE, nopause |-> FALSE, force |-> FALSE,
          always |-> FALSE, rewind |-> FALSE, siblings |-> FALSE]
Siblings == [Plain EXCEPT !.siblings = TRUE]
MCOptions ==
  {Siblings,
   [Plain EXCEPT !.dry = TRUE],
   [Plain EXCEPT !.force = TRUE, !.always = TRUE, !.rewind = TRUE]}

Everywhere == [paused |-> {}, off |-> {}]
MCStarts == {Everywhere, [paused |-> {2}, off |-> {1, 2}]}
=============================================================================
