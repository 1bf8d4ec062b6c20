--------------------------- MODULE SlackWorkspace ---------------------------
(***************************************************************************)
(* The Slack workspace of an org: installed through a redirect to Slack    *)
(* and back, pointed at another workspace only after somebody confirmed    *)
(* it, disconnected; the links by which Slack users become members of the  *)
(* org; and the cards drawn under tuckit links pasted there, not again     *)
(* within an hour (slack/views.py, identity.py, handlers.handle_link_      *)
(* shared).  What a mention does is module SlackMention.                   *)
(***************************************************************************)
EXTENDS Naturals, FiniteSets

CONSTANTS
  People,       \* users of tuckit, each with one browser session
  Teams,        \* Slack workspaces
  SlackUsers,   \* their users
  Refs,         \* slices of the org that links may name
  Channels,     \* channels of Slack where they may be pasted
  LinkJobs,     \* link_shared jobs that may run together
  MaxInstalls,  \* bound on the SlackInstall rows ever made
  MaxDrawn,     \* bound on the cards of one ref in one channel and window
  None

ASSUME WorkspaceAssumption == MaxInstalls \in Nat /\ MaxDrawn \in Nat

VARIABLES
  role,        \* per person: "admin", "member" or "gone" (ended_at set)
  install,     \* the org's SlackInstall row: [id, team], or None
  made,        \* how many there have been
  begun,       \* a signed install state is out and younger than STATE_MAX_AGE_SECONDS
  callback,    \* per person: None, or their callback between its look and its write
  pending,     \* per person: the switch stashed in the session, [team, fresh], or None
  links,       \* connect links out and younger than 900 s: [install, user]
  identities,  \* SlackIdentity rows: [install, user, person]
  cooling,     \* SlackUnfurl rows younger than UNFURL_COOLDOWN: [install, channel, ref]
  linkJob,     \* per job: None, or how far it is
  drawn,       \* history: calls that drew a ref's card in a channel in the running window
  excused      \* history: cards two jobs were about at once, or a job died over

account == <<role, install, made, begun, callback, pending, links, identities>>
wvars == <<role, install, made, begun, callback, pending, links, identities,
          cooling, linkJob, drawn, excused>>

Ids == 1..MaxInstalls
Install == [id : Ids, team : Teams]
CardKeys == [install : Ids, channel : Channels, ref : Refs]
Callback == [team : Teams, saw : Install \cup {None}]
LinkJob == [pc : {"call", "note"}, install : Ids, channel : Channels, refs : SUBSET Refs]

ASSUME NoneAssumption == None \notin Install \cup Callback \cup LinkJob

WorkspaceTypeOK ==
  /\ role \in [People -> {"admin", "member", "gone"}]
  /\ install \in Install \cup {None}
  /\ made \in 0..MaxInstalls /\ begun \in BOOLEAN
  /\ callback \in [People -> Callback \cup {None}]
  /\ pending \in [People -> [team : Teams, fresh : BOOLEAN] \cup {None}]
  /\ links \subseteq [install : Ids, user : SlackUsers]
  /\ identities \subseteq [install : Ids, user : SlackUsers, person : People]
  /\ cooling \subseteq CardKeys /\ excused \subseteq CardKeys
  /\ linkJob \in [LinkJobs -> LinkJob \cup {None}]
  /\ drawn \in [CardKeys -> 0..MaxDrawn]

\* An org nobody has connected yet.
WorkspaceInit ==
  /\ role \in [People -> {"admin", "member"}] /\ \E p \in People : role[p] = "admin"
  /\ install = None /\ made = 0 /\ begun = FALSE
  /\ callback = [p \in People |-> None] /\ pending = [p \in People |-> None]
  /\ links = {} /\ identities = {} /\ cooling = {}
  /\ linkJob = [j \in LinkJobs |-> None]
  /\ drawn = [k \in CardKeys |-> 0] /\ excused = {}

-----------------------------------------------------------------------------
(***************************************************************************)
(* Installing.                                                             *)
(***************************************************************************)
Begin(p) ==
  /\ role[p] = "admin" /\ begun' = TRUE
  /\ UNCHANGED <<role, install, made, callback, pending, links, identities,
                 cooling, linkJob, drawn, excused>>

StateExpires ==
  /\ begun' = FALSE
  /\ UNCHANGED <<role, install, made, callback, pending, links, identities,
                 cooling, linkJob, drawn, excused>>

InstallId == IF install = None THEN 0 ELSE install.id

\* Another workspace for an org that has one.
AsksFirst(team) == install # None /\ install.team # team

\* Back from Slack, which granted a token for `team`: the state is young, the person
\* an admin still, and the row is looked up.
CallbackLooks(p, team) ==
  /\ begun /\ role[p] = "admin" /\ callback[p] = None
  /\ IF AsksFirst(team)
     THEN /\ pending' = [pending EXCEPT ![p] = [team |-> team, fresh |-> TRUE]]
          /\ UNCHANGED callback
     ELSE /\ callback' = [callback EXCEPT ![p] = [team |-> team, saw |-> install]]
          /\ UNCHANGED pending
  /\ UNCHANGED <<role, install, made, begun, links, identities, cooling, linkJob, drawn, excused>>

\* update_or_create by org: the row that is there by now keeps its id.
Pointed(team) == IF install = None THEN [id |-> made + 1, team |-> team]
                 ELSE [install EXCEPT !.team = team]

Apply(team) ==
  /\ install # None \/ made < MaxInstalls
  /\ install' = Pointed(team)
  /\ made' = IF install = None THEN made + 1 ELSE made

CallbackWrites(p) ==
  /\ callback[p] # None
  /\ Apply(callback[p].team)
  /\ callback' = [callback EXCEPT ![p] = None]
  /\ UNCHANGED <<role, begun, pending, links, identities, cooling, linkJob, drawn, excused>>

\* STATE_MAX_AGE_SECONDS after it was stashed.
PendingAges(p) ==
  /\ pending[p] # None /\ pending[p].fresh
  /\ pending' = [pending EXCEPT ![p].fresh = FALSE]
  /\ UNCHANGED <<role, install, made, begun, callback, links, identities,
                 cooling, linkJob, drawn, excused>>

\* Mutant: the session's own lifetime is the only one.
Popped_Ageless(p) == pending[p]

\* _pop_pending_switch_if_expired.
Popped(p) == IF pending[p] # None /\ ~pending[p].fresh THEN None ELSE pending[p]

\* The settings page drops what has expired, and on request what is pending.
SettingsPage(p, cancel) ==
  /\ role[p] # "gone"
  /\ pending' = [pending EXCEPT ![p] = IF cancel THEN None ELSE Popped(p)]
  /\ UNCHANGED <<role, install, made, begun, callback, links, identities,
                 cooling, linkJob, drawn, excused>>

\* The person's role is asked again, not remembered from the callback.
Confirm(p) ==
  /\ role[p] = "admin"
  /\ IF Popped(p) = None THEN UNCHANGED <<install, made>> ELSE Apply(pending[p].team)
  /\ pending' = [pending EXCEPT ![p] = None]
  /\ UNCHANGED <<role, begun, callback, links, identities, cooling, linkJob, drawn, excused>>

\* The row goes, and by cascade its identities and its unfurls.
Disconnect(p) ==
  /\ role[p] = "admin"
  /\ install' = None
  /\ identities' = {i \in identities : i.install # InstallId}
  /\ cooling' = {k \in cooling : k.install # InstallId}
  /\ UNCHANGED <<role, made, begun, callback, pending, links, linkJob, drawn, excused>>

\* Promotions, demotions, departures and returns (module Membership).
RoleChanges(p, r) ==
  /\ role' = [role EXCEPT ![p] = r]
  /\ UNCHANGED <<install, made, begun, callback, pending, links, identities,
                 cooling, linkJob, drawn, excused>>

-----------------------------------------------------------------------------
(***************************************************************************)
(* Who a Slack user is.                                                    *)
(***************************************************************************)
\* The button under a refused mention, or /tuckit connect.
ConnectLink(u) ==
  /\ install # None
  /\ links' = links \cup {[install |-> install.id, user |-> u]}
  /\ UNCHANGED <<role, install, made, begun, callback, pending, identities,
                 cooling, linkJob, drawn, excused>>

LinkExpires(l) ==
  /\ links' = links \ {l}
  /\ UNCHANGED <<role, install, made, begun, callback, pending, identities,
                 cooling, linkJob, drawn, excused>>

\* Whoever is logged in and opens the link is, from now on, that Slack user.
ConnectCallback(p, l) ==
  /\ l \in links /\ l.install = InstallId /\ role[p] # "gone"
  /\ identities' = {i \in identities : i.install # l.install \/ i.user # l.user}
                     \cup {[install |-> l.install, user |-> l.user, person |-> p]}
  /\ UNCHANGED <<role, install, made, begun, callback, pending, links,
                 cooling, linkJob, drawn, excused>>

\* resolve_member: a row may outlive the membership, which is asked for itself.
ResolvedMember(u) ==
  {i.person : i \in {j \in identities : /\ j.install = InstallId /\ j.user = u
                                        /\ role[j.person] # "gone"}}

-----------------------------------------------------------------------------
(***************************************************************************)
(* Cards under pasted links.                                               *)
(***************************************************************************)
KeysOf(i, channel, refs) == {[install |-> i, channel |-> channel, ref |-> r] : r \in refs}

\* Mutant: a card in one channel silences the others.
Unexpanded_Elsewhere(channel, refs) ==
  {r \in refs : \A k \in cooling : k.install # InstallId \/ k.ref # r}

\* Those of the refs that were not expanded in the channel within the hour.
Unexpanded(channel, refs) ==
  {r \in refs : [install |-> InstallId, channel |-> channel, ref |-> r] \notin cooling}

\* What a job at work is about.
AtWork(j) == IF linkJob[j] = None THEN {}
             ELSE KeysOf(linkJob[j].install, linkJob[j].channel, linkJob[j].refs)

\* handle_link_shared up to the call: the workspace is the org's, the user who pasted
\* is a member, the message has a timestamp.  Two jobs may be about one ref of a channel.
LinkShared(j, team, u, channel, refs) ==
  /\ linkJob[j] = None /\ install # None /\ install.team = team
  /\ ResolvedMember(u) # {}
  /\ Unexpanded(channel, refs) # {}
  /\ linkJob' = [linkJob EXCEPT ![j] = [pc |-> "call", install |-> InstallId, channel |-> channel,
                                        refs |-> Unexpanded(channel, refs)]]
  /\ excused' = excused \cup (KeysOf(InstallId, channel, Unexpanded(channel, refs))
                                \cap UNION {AtWork(i) : i \in LinkJobs})
  /\ UNCHANGED <<account, cooling, drawn>>

\* chat.unfurl is accepted: the cards are drawn.
Drawn(j) ==
  /\ linkJob[j] # None /\ linkJob[j].pc = "call"
  /\ \A k \in AtWork(j) : drawn[k] < MaxDrawn
  /\ drawn' = [k \in CardKeys |-> IF k \in AtWork(j) THEN drawn[k] + 1 ELSE drawn[k]]
  /\ linkJob' = [linkJob EXCEPT ![j].pc = "note"]
  /\ UNCHANGED <<account, cooling, excused>>

CoolAfterRefusal(keys) == cooling

\* Slack refuses the call: silence, and no row.
Refused(j) ==
  /\ linkJob[j] # None /\ linkJob[j].pc = "call"
  /\ cooling' = CoolAfterRefusal(AtWork(j))
  /\ linkJob' = [linkJob EXCEPT ![j] = None]
  /\ UNCHANGED <<account, drawn, excused>>

\* One update_or_create per ref; when the install is gone, the insert fails and the
\* job with it.
Note(j, r) ==
  /\ linkJob[j] # None /\ linkJob[j].pc = "note" /\ r \in linkJob[j].refs
  /\ IF linkJob[j].install = InstallId
     THEN /\ cooling' = cooling \cup KeysOf(InstallId, linkJob[j].channel, {r})
          /\ linkJob' = [linkJob EXCEPT ![j] = IF linkJob[j].refs = {r} THEN None
                                       ELSE [linkJob[j] EXCEPT !.refs = @ \ {r}]]
     ELSE /\ linkJob' = [linkJob EXCEPT ![j] = None]
          /\ UNCHANGED cooling
  /\ UNCHANGED <<account, drawn, excused>>

\* The process dies; what was drawn and not noted may be drawn again.
JobDies(j) ==
  /\ linkJob[j] # None
  /\ excused' = excused \cup AtWork(j)
  /\ linkJob' = [linkJob EXCEPT ![j] = None]
  /\ UNCHANGED <<account, cooling, drawn>>

\* An hour without a card of this ref in its channel; no job lasts that long.
HourPasses(k) ==
  /\ \A j \in LinkJobs : k \notin AtWork(j)
  /\ cooling' = cooling \ {k} /\ excused' = excused \ {k}
  /\ drawn' = [drawn EXCEPT ![k] = 0]
  /\ UNCHANGED <<account, linkJob>>

InstallSteps ==
  \/ \E p \in People :
       \/ Begin(p) \/ CallbackWrites(p) \/ PendingAges(p) \/ Confirm(p) \/ Disconnect(p)
       \/ \E team \in Teams : CallbackLooks(p, team)
       \/ \E cancel \in BOOLEAN : SettingsPage(p, cancel)
       \/ \E r \in {"admin", "member", "gone"} : RoleChanges(p, r)
  \/ StateExpires

LinkSteps ==
  \/ \E p \in People, l \in links : ConnectCallback(p, l)
  \/ \E u \in SlackUsers : ConnectLink(u)
  \/ \E l \in links : LinkExpires(l)

CardSteps ==
  \/ \E j \in LinkJobs, team \in Teams, u \in SlackUsers,
        channel \in Channels, refs \in SUBSET Refs : LinkShared(j, team, u, channel, refs)
  \/ \E j \in LinkJobs : Drawn(j) \/ Refused(j) \/ JobDies(j)
  \/ \E j \in LinkJobs, r \in Refs : Note(j, r)
  \/ \E k \in CardKeys : HourPasses(k)

WorkspaceNext == InstallSteps \/ LinkSteps \/ CardSteps

WorkspaceSpec == WorkspaceInit /\ [][WorkspaceNext]_wvars

-----------------------------------------------------------------------------
Repoints == /\ install # None /\ install' # None
            /\ install.id = install'.id /\ install.team # install'.team

\* An installed workspace is exchanged for another only by an admin who confirms a
\* proposal of the last ten minutes for exactly that workspace, or by a callback that
\* another one overtook between its look and its write (views.py:271-308, 346-380).
RepointIsConfirmed ==
  [][Repoints => \E p \in People :
       \/ /\ role[p] = "admin" /\ pending[p] # None
          /\ pending[p].fresh /\ pending[p].team = install'.team
          /\ pending'[p] = None
       \/ /\ callback[p] # None /\ callback[p].team = install'.team
          /\ callback'[p] = None /\ callback[p].saw # install]_wvars

\* A ref gets one card an hour in a channel, unless two jobs were about it there at once
\* or a job died between the card and its note (handlers.py:210-249).
OneCardAnHour == \A k \in CardKeys \ excused : drawn[k] <= 1

\* A link is held back only where its card is there to be read: not because of a card in
\* another channel, nor of one that Slack refused (models.py:61-72, handlers.py:244-249).
SilenceMeansDrawn ==
  \A channel \in Channels : \A r \in Refs \ Unexpanded(channel, Refs) :
    drawn[[install |-> InstallId, channel |-> channel, ref |-> r]] > 0

\* An hour's silence in a channel follows a card there, and only a card.
CardsKeepTheirHour == OneCardAnHour /\ SilenceMeansDrawn
=============================================================================
