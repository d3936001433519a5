----------------------------- MODULE TallyBoard -----------------------------
(***************************************************************************)
(* What the counters of a suite promise to those who read its result:      *)
(* whoever records a walk or a round does so in one step, and the result   *)
(* is the board as it stands when the suite closes it, after which nothing *)
(* is recorded.                                                            *)
(***************************************************************************)
EXTENDS Integers

CONSTANT Depths \* depths a walk may have

VARIABLES
  board,  \* the counters
  report, \* what the suite returned
  open    \* whether it still runs

vars == << board, report, open >>

Blank == [captures |-> 0, minDepth |-> 1000000, shallow |-> 0, rounds |-> 0]

Init == board = Blank /\ report = Blank /\ open = TRUE

\* The counters after a walk of that depth.
Walked(tally, depth) ==
  [tally EXCEPT !.captures = @ + 1,
                !.minDepth = IF depth < @ THEN depth ELSE @,
                !.shallow = IF depth < 5 THEN @ + 1 ELSE @]

RecordWalk(depth) ==
  /\ open
  /\ board' = Walked(board, depth)
  /\ UNCHANGED << report, open >>

RecordRound ==
  /\ open
  /\ board' = [board EXCEPT !.rounds = @ + 1]
  /\ UNCHANGED << report, open >>

Publish ==
  /\ open
  /\ report' = board
  /\ open' = FALSE
  /\ UNCHANGED board

\* The process terminates without a result.
Abort ==
  /\ open
  /\ open' = FALSE
  /\ UNCHANGED << board, report >>

Next == (\E depth \in Depths : RecordWalk(depth)) \/ RecordRound \/ Publish \/ Abort

Spec == Init /\ [][Next]_vars
=============================================================================
