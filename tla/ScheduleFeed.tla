---------------------------- MODULE ScheduleFeed ----------------------------
(***************************************************************************)
(* What a Scheduler promises its subscribers.  Schedules are computed one   *)
(* after the other.  The computation of one is open until somebody has      *)
(* waited for its end, and no other is begun before.  While it is open each *)
(* subscription is told its schedule at most once; of a former schedule, or *)
(* of one that is no longer open, nothing is told.  When the program ends   *)
(* nothing more is heard.                                                   *)
(***************************************************************************)
EXTENDS Naturals, Sequences

CONSTANTS Jobs, Subscriptions

VARIABLES
    started,  \* the computations begun
    open,     \* may the last of them still be told?
    told,     \* per schedule: the subscriptions told, in order
    up

feedVars == <<started, open, told, up>>

FeedInit == started = 0 /\ open = FALSE /\ told = [j \in Jobs |-> <<>>] /\ up = TRUE

Begin ==
    /\ up /\ ~open /\ open' = TRUE
    /\ started' = started + 1
    /\ UNCHANGED <<told, up>>

ToldBefore(s) == \E n \in 1 .. Len(told[started]) : told[started][n] = s

Tell(s) ==
    /\ up /\ open /\ ~ToldBefore(s)
    /\ told' = [told EXCEPT ![started] = Append(@, s)]
    /\ UNCHANGED <<started, open, up>>

Close == up /\ open /\ open' = FALSE /\ UNCHANGED <<started, told, up>>

Stop == up /\ up' = FALSE /\ UNCHANGED <<started, open, told>>

FeedNext == Begin \/ Close \/ Stop \/ \E s \in Subscriptions : Tell(s)

FeedSpec == FeedInit /\ [][FeedNext]_feedVars
=============================================================================
