---------------------------- MODULE ReceiverStats ----------------------------
(***************************************************************************)
(* ReceiverStats (media/receiver_stats.rs): the payload received in each   *)
(* of the last Span seconds, in a ring indexed by the second modulo Span.  *)
(* The header ring is kept by the same statements and left out, and so is  *)
(* the highest sequence number, which nothing reads.                       *)
(***************************************************************************)
EXTENDS Naturals

CONSTANTS
  Span,         \* HISTORY_TIME_SPAN: 64
  MinuteSlots   \* seconds an average takes into account at most: 60

ASSUME StatsAssumption == Span \in Nat \ {0} /\ MinuteSlots \in Nat \ {0}

Slots == 0 .. (Span - 1)

\* bandwidth_current_index and bandwidth_payload_history.
Stats == [index : Slots, history : [Slots -> Nat]]

NewStats == [index |-> 0, history |-> [slot \in Slots |-> 0]]

\* How many slots the index moves on from a to b.
Ahead(a, b) == (b + Span - a) % Span

\* The slots the index passes are cleared, the last one it reaches too.  A
\* whole lap is no move at all.
FaultyAdvanceHistory(stats, second) ==
  LET reached == second % Span
      passed  == {slot \in Slots : Ahead(stats.index, slot) \in 1 .. (Ahead(stats.index, reached) - 1)}
  IN  [index   |-> reached,
       history |-> [slot \in Slots |-> IF slot \in passed THEN 0 ELSE stats.history[slot]]]

AdvanceHistory(stats, second) ==
  LET reached == second % Span
      passed  == {slot \in Slots : Ahead(stats.index, slot) \in 1 .. Ahead(stats.index, reached)}
  IN  [index   |-> reached,
       history |-> [slot \in Slots |-> IF slot \in passed THEN 0 ELSE stats.history[slot]]]

RegisterIncoming(stats, second, payload) ==
  LET advanced == AdvanceHistory(stats, second)
  IN  [advanced EXCEPT !.history[advanced.index] = @ + payload]

ResetBandwidth(stats) == [stats EXCEPT !.history = NewStats.history]

\* bandwidth_minute starts at the current slot, goes on with the oldest one and
\* stops when it has counted MinuteSlots slots that hold something.
Walked(stats) ==
  LET held(n) == stats.history[(stats.index + n) % Span]
      walked[n \in 0 .. Span] ==
        IF n = 0 THEN [count |-> 0, sum |-> 0]
        ELSE LET seen == walked[n - 1]
             IN  IF seen.count < MinuteSlots /\ held(n - 1) > 0
                 THEN [count |-> seen.count + 1, sum |-> seen.sum + held(n - 1)] ELSE seen
  IN  walked[Span]

BandwidthMinute(stats) ==
  LET seen == Walked(stats)
  IN  IF seen.count = 0 THEN 0 ELSE seen.sum \div seen.count
=============================================================================
