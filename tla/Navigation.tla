----------------------------- MODULE Navigation -----------------------------
(* Where the user has been (src/ui/app.cpp): hist_, hist_pos_ and the cursor of
   the disassembly view.  hist_pos_ counts from 0 as in the code and is -1
   before the first visit, so the entry it stands at is hist[pos + 1].

   `trail` and `turn` are history variables: the same history without a limit. *)
EXTENDS Integers, Sequences

CONSTANTS Addr,
          HistoryLimit      \* 2000

ASSUME HistoryAssumption == HistoryLimit \in Nat \ {0}

VARIABLES hist, pos, cursor, trail, turn

navigation == <<hist, pos, cursor, trail, turn>>

NavigationInit ==
    hist = << >> /\ pos = -1 /\ cursor = 0 /\ trail = << >> /\ turn = 0

Here == hist[pos + 1]

KeepPosition(h) ==   \* mutant: the position is not moved with the entries
    /\ hist' = IF Len(h) > HistoryLimit THEN Tail(h) ELSE h
    /\ pos' = Len(h) - 1

\* the entries behind the position go, the new one comes, the oldest goes
Visit(h) ==
    /\ hist' = IF Len(h) > HistoryLimit THEN Tail(h) ELSE h
    /\ pos' = IF Len(h) > HistoryLimit THEN Len(h) - 2 ELSE Len(h) - 1

\* navigate_to: `target` is where the view goes for `addr`
NavigateTo(addr, target) ==
    IF pos >= 0 /\ pos < Len(hist) /\ Here = addr THEN UNCHANGED navigation
    ELSE /\ Visit(Append(SubSeq(hist, 1, pos + 1), target))
         /\ cursor' = target
         /\ trail' = Append(SubSeq(trail, 1, turn), target) /\ turn' = turn + 1

Back ==
    /\ pos > 0 /\ pos' = pos - 1 /\ cursor' = hist[pos]
    /\ turn' = turn - 1 /\ UNCHANGED <<hist, trail>>

Forward ==
    /\ pos < Len(hist) - 1 /\ pos' = pos + 1 /\ cursor' = hist[pos + 2]
    /\ turn' = turn + 1 /\ UNCHANGED <<hist, trail>>

\* a click in the disassembly moves the cursor and not the history
Click(addr) == cursor' = addr /\ UNCHANGED <<hist, pos, trail, turn>>

-----------------------------------------------------------------------------
NavigationTypeOK ==
    /\ hist \in Seq(Addr) /\ Len(hist) <= HistoryLimit
    /\ trail \in Seq(Addr) /\ turn \in 0..Len(trail)
    /\ IF hist = << >> THEN pos = -1 ELSE pos \in 0..Len(hist) - 1
    /\ cursor \in Addr

(* Back and Forward lead to where the user has been, in order: hist_ is the
   newest part of everything visited and hist_pos_ stands at the same entry,
   through any mixture of visits that cut off the way forward and visits that
   drop the oldest entry (navigate_to, nav_back, nav_fwd).                   *)
HistoryIsTrail ==
    /\ Len(trail) - turn = Len(hist) - 1 - pos
    /\ \A k \in 1..Len(hist) : hist[k] = trail[Len(trail) - Len(hist) + k]
=============================================================================
