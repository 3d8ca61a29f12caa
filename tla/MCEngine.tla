------------------------------ MODULE MCEngine -------------------------------
(***************************************************************************)
(* Instances of IntradayEngine: days of nine bars, sessions of seven and  *)
(* six, a week of two days, one or two runtimes on one pair.               *)
(***************************************************************************)
EXTENDS IntradayEngine

MCWindow == [
    sweep_reversal |-> [level_breached |-> 1, reclaim_confirmed |-> 1,
                        mss_confirmed |-> 1, displacement_confirmed |-> 2,
                        order_pending |-> 2],
    acceptance     |-> [level_breached |-> 2, acceptance_confirmed |-> 2,
                        order_pending |-> 2],
    opening_range  |-> [breakout_confirmed |-> 3, order_pending |-> 2]]

MCSession  == <<"london", "new_york">>
MCOpens    == [london |-> 0, new_york |-> 1]
MCClosing  == [london |-> 7, new_york |-> 7]
MCRangeEnd == [london |-> 1, new_york |-> 2]

MCLists == {<<"acceptance", "opening_range">>, <<"sweep_reversal">>}
Amended  == {AmendedPolicy}
Default  == {DefaultPolicy}
Both     == {AmendedPolicy, DefaultPolicy}
==============================================================================
