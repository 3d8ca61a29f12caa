------------------------------ MODULE MCDrawdown ------------------------------
(***************************************************************************)
(* Instance of DrawdownTracker: equity in percent of the initial account,  *)
(* the default ratios of RiskConfig over 1000 (daily limit 3 %, weekly     *)
(* 6 %, lockout 2.5 %, breaker 15 %), two bars a day, two days a week.     *)
(***************************************************************************)
EXTENDS DrawdownTracker

\* In tenths of a percent of the start: flat, a warning loss (2.3 %), a lockout
\* loss (2.6 %), a weekly warning (4.6 %), a limit (6.1 %), a breaker loss, and
\* an account that is gone.
MCEquities == {1000, 977, 974, 950, 840, 0}
===============================================================================
