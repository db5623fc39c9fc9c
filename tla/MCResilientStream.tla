-------------------------- MODULE MCResilientStream --------------------------
(* 158 bounded by an event count, 158 resumed at a saved cursor without a   *)
(* bound, 44 with a duration; 19 with a count; 92 with a count, a duration  *)
(* and payments of the other direction; 159 with a filter, with a count and *)
(* without.                                                                 *)
EXTENDS ResilientStream

Plain(e, max, d) == [example |-> e, start |-> Now, maxEvents |-> max, duration |-> d,
                     rejected |-> {}, malformed |-> {}, replays |-> FALSE]

MCVariants == {
    [Plain(158, 4, FALSE) EXCEPT !.malformed = {3}, !.replays = TRUE],
    [Plain(158, 0, FALSE) EXCEPT !.start = 1, !.malformed = {3}, !.replays = TRUE],
    Plain(44, 4, TRUE),
    Plain(19, 3, FALSE),
    [Plain(92, 2, TRUE) EXCEPT !.rejected = {3, 4}],
    [Plain(159, 2, FALSE) EXCEPT !.rejected = {2, 4, 5}],
    [Plain(159, 0, FALSE) EXCEPT !.start = 1, !.rejected = {2}]}
=============================================================================
