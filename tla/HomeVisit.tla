----------------------------- MODULE HomeVisit -----------------------------
(***************************************************************************)
(* "Since your last visit" on Home: the newest events of the org, those    *)
(* later than the member's watermark badged, then the time taken and       *)
(* written over the watermark, whatever it is by then (since_last_visit,   *)
(* mark_home_seen and their order in pages.home).  Events are stamped when *)
(* they are written and seen once they commit; a member may have several   *)
(* tabs.  An event is the time it was stamped.                             *)
(***************************************************************************)
EXTENDS Naturals, FiniteSetsExt

CONSTANTS
  Members,
  Visits,      \* requests of Home that may overlap
  ShownLimit,  \* the limit of since_last_visit
  MaxTime      \* bound on the clock

ASSUME VisitAssumption == ShownLimit \in Nat /\ MaxTime \in Nat

VARIABLES
  now,       \* the clock: no two stamps are equal
  feed,      \* committed: [at, agent]
  writing,   \* stamped and not committed yet
  seen,      \* OrgMember.home_seen_at, 0 before the first visit
  visit,     \* each request: how far it is, its copy of the row, what it could see
  told,      \* history: stamps a finished visit of the member had listed
  slipped,   \* history: stamps a visit of the member marked without having seen them
  undone     \* history: stamps an overtaken save moved the watermark back over

hvars == <<now, feed, writing, seen, visit, told, slipped, undone>>

Times == 1..MaxTime
Event == [at : Times, agent : BOOLEAN]
NoVisit == [at |-> "none"]
Visit == [at : {"member", "list", "mark", "save"}, by : Members, copy : 0..MaxTime,
          known : SUBSET Times, visible : SUBSET Times, marked : 0..MaxTime]

VisitTypeOK ==
  /\ now \in 0..MaxTime
  /\ feed \subseteq Event /\ writing \subseteq Event
  /\ seen \in [Members -> 0..MaxTime]
  /\ visit \in [Visits -> Visit \cup {NoVisit}]
  /\ told \in [Members -> SUBSET Times] /\ slipped \in [Members -> SUBSET Times]
  /\ undone \in [Members -> SUBSET Times]

VisitInit ==
  /\ now = 0 /\ feed = {} /\ writing = {}
  /\ seen = [m \in Members |-> 0]
  /\ visit = [v \in Visits |-> NoVisit]
  /\ told = [m \in Members |-> {}] /\ slipped = [m \in Members |-> {}]
  /\ undone = [m \in Members |-> {}]

-----------------------------------------------------------------------------
\* record_activity inside a transaction, and its commit.
Record(agent) ==
  /\ now < MaxTime
  /\ now' = now + 1
  /\ writing' = writing \cup {[at |-> now + 1, agent |-> agent]}
  /\ UNCHANGED <<feed, seen, visit, told, slipped, undone>>

EventCommits(e) ==
  /\ e \in writing
  /\ writing' = writing \ {e} /\ feed' = feed \cup {e}
  /\ UNCHANGED <<now, seen, visit, told, slipped, undone>>

EventRollsBack(e) ==
  /\ e \in writing
  /\ writing' = writing \ {e}
  /\ UNCHANGED <<now, feed, seen, visit, told, slipped, undone>>

\* Mutant: the watermark moves before the news is computed.
NextAt_MarkFirst(at) ==
  CASE at = "member" -> "mark" [] at = "mark" -> "save" [] at = "save" -> "list"
    [] at = "list" -> "none"

\* The order of pages.home.
NextAt(at) ==
  CASE at = "member" -> "list" [] at = "list" -> "mark" [] at = "mark" -> "save"
    [] at = "save" -> "none"

Open(v, m) ==
  /\ visit[v] = NoVisit
  /\ visit' = [visit EXCEPT ![v] = [at |-> "member", by |-> m, copy |-> 0, known |-> {},
                                    visible |-> {}, marked |-> 0]]
  /\ UNCHANGED <<now, feed, writing, seen, told, slipped, undone>>

\* The rest of the visit, or its end: then what it could see has been told, and what
\* is older than its mark and was not to be seen yet has slipped through.
Goes(v, q) ==
  IF NextAt(q.at) # "none"
  THEN /\ visit' = [visit EXCEPT ![v] = [q EXCEPT !.at = NextAt(q.at)]]
       /\ UNCHANGED <<told, slipped>>
  ELSE /\ visit' = [visit EXCEPT ![v] = NoVisit]
       /\ told' = [told EXCEPT ![q.by] = @ \cup q.visible]
       /\ slipped' = [slipped EXCEPT ![q.by] = @ \cup (1..q.marked \ q.visible)]

LoadMember(v) ==
  /\ visit[v].at = "member"
  /\ Goes(v, [visit[v] EXCEPT !.copy = seen[visit[v].by], !.known = told[visit[v].by]])
  /\ UNCHANGED <<now, feed, writing, seen, undone>>

\* The newest of the org's events.
Listed == {e \in feed : Cardinality({f \in feed : f.at > e.at}) < ShownLimit}

IsNew(e, copy) == copy # 0 /\ e.at > copy

News(copy) == {e \in Listed : e.agent /\ IsNew(e, copy)}

List(v) ==
  /\ visit[v].at = "list"
  /\ Goes(v, [visit[v] EXCEPT !.visible = {e.at : e \in feed}])
  /\ UNCHANGED <<now, feed, writing, seen, undone>>

\* The request's copy of the row is stamped with the time ...
TakeTime(v) ==
  /\ visit[v].at = "mark" /\ now < MaxTime
  /\ now' = now + 1
  /\ Goes(v, [visit[v] EXCEPT !.copy = now + 1, !.marked = now + 1])
  /\ UNCHANGED <<feed, writing, seen, undone>>

\* ... and saved over the row, which another visit may have stamped later.
SaveMark(v) ==
  /\ visit[v].at = "save"
  /\ LET m == visit[v].by
         t == visit[v].marked
     IN /\ seen' = [seen EXCEPT ![m] = t]
        /\ undone' = [undone EXCEPT ![m] = @ \cup ((t + 1)..seen[m])]
  /\ Goes(v, visit[v])
  /\ UNCHANGED <<now, feed, writing>>

\* The request ends early.
Abandon(v) ==
  /\ visit[v] # NoVisit
  /\ visit' = [visit EXCEPT ![v] = NoVisit]
  /\ UNCHANGED <<now, feed, writing, seen, told, slipped, undone>>

VisitNext ==
  \/ \E agent \in BOOLEAN : Record(agent)
  \/ \E e \in writing : EventCommits(e) \/ EventRollsBack(e)
  \/ \E v \in Visits, m \in Members : Open(v, m)
  \/ \E v \in Visits : LoadMember(v) \/ List(v) \/ TakeTime(v) \/ SaveMark(v) \/ Abandon(v)

VisitSpec == VisitInit /\ [][VisitNext]_hvars

-----------------------------------------------------------------------------
\* What an agent did is badged on the first later visit that can see it, and on none
\* that begins after that one ended, unless a save that another visit overtook moved
\* the watermark back over it; the first visit of all badges nothing.  Only an event
\* that was not committed when a visit listed, and is older than its mark, is never
\* badged (state.py:560-595, pages.py:44-54).
NewsIsBadgedOnce ==
  \A v \in Visits :
    visit[v].at = "list" =>
      LET m == visit[v].by
          news == {e.at : e \in News(visit[v].copy)}
      IN
      /\ news \cap visit[v].known \subseteq undone[m]
      /\ seen[m] = 0 => news = {}
      /\ visit[v].copy # 0 =>
           \A e \in Listed : e.agent => e.at \in news \cup told[m] \cup slipped[m]
=============================================================================
