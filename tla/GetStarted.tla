----------------------------- MODULE GetStarted -----------------------------
(***************************************************************************)
(* The Get-started checklist that every page of a young org carries:       *)
(* derived when a page is rendered (onboarding_state), put away for good   *)
(* once done or dismissed, and at its last step a listener that asks for   *)
(* the agent's first event (agent_check).  Requests overlap, and events    *)
(* commit in another order than that of their ids.                         *)
(***************************************************************************)
EXTENDS Naturals, FiniteSetsExt

CONSTANTS
  Tabs,       \* browser tabs of the org's members
  MaxEvents   \* bound on ActivityEvent

ASSUME GetStartedAssumption == MaxEvents \in Nat

VARIABLES
  has,        \* which of "area", "slice", "bite" exist
  activity,   \* ActivityEvent: a function from the ids given out
  completed,  \* Org.onboarding_completed
  dismissed,  \* Org.onboarding_dismissed
  tab,        \* what each tab shows, or how far its request is
  over        \* history: a request found all done, or it was dismissed

gvars == <<has, activity, completed, dismissed, tab, over>>

Things == {"area", "slice", "bite"}
EventIds == 1..MaxEvents
\* `since`: the cursors its listeners ask from.  History: `late`, its request began when
\* the checklist was over; `agents`, the agent's events when its steps were counted;
\* `gap`, those at or below a cursor that were none of these.
Tab == [at : {"blank", "loaded", "counted", "plain", "checklist", "listening", "joined"},
        since : SUBSET (0..MaxEvents), late : BOOLEAN,
        agents : SUBSET EventIds, gap : SUBSET EventIds]
Blank == [at |-> "blank", since |-> {}, late |-> FALSE, agents |-> {}, gap |-> {}]

GetStartedTypeOK ==
  /\ has \subseteq Things /\ DOMAIN activity \subseteq EventIds
  /\ \A e \in DOMAIN activity :
       activity[e] \in [agent : BOOLEAN, state : {"open", "committed", "undone"}]
  /\ completed \in BOOLEAN /\ dismissed \in BOOLEAN /\ over \in BOOLEAN
  /\ tab \in [Tabs -> Tab]

GetStartedInit ==
  /\ has = {} /\ activity = [e \in {} |-> [agent |-> FALSE, state |-> "open"]]
  /\ completed = FALSE /\ dismissed = FALSE /\ over = FALSE
  /\ tab = [t \in Tabs |-> Blank]

-----------------------------------------------------------------------------
Committed == {e \in DOMAIN activity : activity[e].state = "committed"}
OfAgent(set) == {e \in set : activity[e].agent}
Newest == Max(Committed \cup {0})

\* onboarding_state, its four queries taken as one: completed steps and the current one.
Connected == OfAgent(Committed) # {}
AllDone == has = Things /\ Connected
ConnectIsNext == has = Things /\ ~Connected

Shows(t, page) == tab' = [tab EXCEPT ![t] = page]

\* A page is asked for, or a change made on one renders its widget again: the
\* request loads the org.
LoadOrg(t) ==
  /\ Shows(t, [Blank EXCEPT !.at = IF completed \/ dismissed THEN "plain" ELSE "loaded",
                            !.late = over])
  /\ UNCHANGED <<has, activity, completed, dismissed, over>>

\* Mutant: that all is done is seen, and not written down.
Completes_Unsaved(done) == completed

\* save(update_fields): the flag sticks, and the other one is not touched.
Completes(done) == completed \/ done

\* The context processor onboarding, up to its cursor.
CountSteps(t) ==
  /\ tab[t].at = "loaded"
  /\ completed' = Completes(AllDone) /\ over' = (over \/ AllDone)
  /\ Shows(t, [tab[t] EXCEPT !.at = IF AllDone THEN "plain"
                                    ELSE IF ConnectIsNext THEN "counted" ELSE "checklist",
                             !.agents = OfAgent(Committed)])
  /\ UNCHANGED <<has, activity, dismissed>>

\* The same processor runs for every fragment: it may be the one that finds all done.
FoundDone == ~completed /\ ~dismissed /\ AllDone

RenderFragment ==
  /\ completed' = Completes(FoundDone)
  /\ over' = (over \/ FoundDone)

\* A listener that asks from the newest event on.
Listens(t) ==
  [tab[t] EXCEPT !.at = "listening", !.since = @ \cup {Newest},
                 !.gap = @ \cup {e \in OfAgent(DOMAIN activity) \ tab[t].agents : e <= Newest}]

\* ... and its cursor, onboarding_agent_baseline.
SetBaseline(t) ==
  /\ tab[t].at = "counted"
  /\ Shows(t, Listens(t))
  /\ UNCHANGED <<has, activity, completed, dismissed, over>>

\* connect_key: a token, and a listener next to the first one.
ConnectKey(t) ==
  /\ tab[t].at = "listening"
  /\ Shows(t, Listens(t))
  /\ RenderFragment
  /\ UNCHANGED <<has, activity, dismissed>>

\* agent_check has news: the tab celebrates and renders the widget again, listeners and
\* all, unless that is empty: an empty fragment replaces nothing.
AgentJoins(t, n) ==
  /\ tab[t].at \in {"listening", "joined"} /\ n \in tab[t].since
  /\ \E e \in OfAgent(Committed) : e > n
  /\ RenderFragment
  /\ Shows(t, [tab[t] EXCEPT !.at = "joined",
                             !.since = IF FoundDone \/ completed \/ dismissed THEN @ \ {n} ELSE {}])
  /\ UNCHANGED <<has, activity, dismissed>>

\* agent_check has none: the fragment is served again.
ServedAgain(n) == n

StillListening(t, n) ==
  /\ tab[t].at \in {"listening", "joined"} /\ n \in tab[t].since
  /\ ~\E e \in OfAgent(Committed) : e > n
  /\ Shows(t, [tab[t] EXCEPT !.since = (@ \ {n}) \cup {ServedAgain(n)}])
  /\ RenderFragment
  /\ UNCHANGED <<has, activity, dismissed>>

\* dismiss_onboarding; its answer is a redirection.
Dismiss(t) ==
  /\ tab[t].at \in {"checklist", "listening", "joined"}
  /\ dismissed' = TRUE /\ over' = TRUE
  /\ Shows(t, Blank)
  /\ UNCHANGED <<has, activity, completed>>

-----------------------------------------------------------------------------
\* What else happens: areas and steps come and go, slices stay.
Comes(thing) == thing \notin has /\ has' = has \cup {thing}
GoesAway(thing) == thing \in has \ {"slice"} /\ has' = has \ {thing}

EventWritten(agent) ==
  /\ Cardinality(DOMAIN activity) < MaxEvents
  /\ activity' = [e \in 1..(Cardinality(DOMAIN activity) + 1) |->
                    IF e \in DOMAIN activity THEN activity[e]
                    ELSE [agent |-> agent, state |-> "open"]]

EventEnds(e, state) ==
  /\ activity[e].state = "open"
  /\ activity' = [activity EXCEPT ![e].state = state]

BoardGoesOn ==
  /\ \/ (\E thing \in Things : Comes(thing) \/ GoesAway(thing)) /\ UNCHANGED activity
     \/ /\ UNCHANGED has
        /\ \/ \E agent \in BOOLEAN : EventWritten(agent)
           \/ \E e \in DOMAIN activity, state \in {"committed", "undone"} : EventEnds(e, state)
  /\ UNCHANGED <<completed, dismissed, tab, over>>

GetStartedNext ==
  \/ \E t \in Tabs :
       \/ LoadOrg(t) \/ CountSteps(t) \/ SetBaseline(t) \/ ConnectKey(t) \/ Dismiss(t)
       \/ \E n \in 0..MaxEvents : AgentJoins(t, n) \/ StillListening(t, n)
  \/ BoardGoesOn

GetStartedSpec == GetStartedInit /\ [][GetStartedNext]_gvars

-----------------------------------------------------------------------------
\* Finished or dismissed in any tab, the checklist is on no page that is asked for
\* afterwards, whatever is deleted meanwhile.
NeverBack ==
  \A t \in Tabs : tab[t].late => tab[t].at \in {"plain", "blank"}

\* A tab that waits for the agent will be told of all it does, but for what was
\* committed after its steps were counted and is not above its cursor: in between, or
\* with an id that was given out before.
HearsTheAgent ==
  \A t \in Tabs : tab[t].at = "listening" =>
    \A e \in OfAgent(Committed) : e \in tab[t].gap \/ \E n \in tab[t].since : e > n

\* The checklist goes away for good, and its last step is not missed
\* (context_processors.py:109-145, views/onboarding.py:33-70).
ChecklistIsHonest == NeverBack /\ HearsTheAgent
=============================================================================
