--------------------------- MODULE MCAgentAccess ---------------------------
(* Two scenes, because their product is large: the grants from an empty      *)
(* database on, with no request of the endpoint; and the endpoint over the   *)
(* tokens of an app that was connected (code 1, pair 2) and an API token (3), *)
(* which may expire and be revoked meanwhile.                                *)
EXTENDS McpEndpoint, TLC

VARIABLE scene

MCvars == <<vars, scene>>

Connected ==
  LET client == CHOOSE c \in Clients : TRUE
      org == CHOOSE o \in Orgs : TRUE
  IN
  /\ minted = 3 /\ codes = {} /\ expired = {}
  /\ access = {[id |-> 2, grant |-> 1, client |-> client, org |-> org]}
  /\ refresh = {2} /\ api = [n \in {3} |-> org]
  /\ job = [w \in Workers |-> Rest] /\ cut = NoCut
  /\ held = {2} /\ granted = {1} /\ stranded = {} /\ ended = {} /\ banned = {}

MCInit ==
  /\ EndpointInit
  /\ \/ scene = "grants" /\ GrantsInit
     \/ scene = "endpoint" /\ Connected

\* Asked of every state that is reached: a type that is broken stops the run.
WellTyped == Assert(TypeOK, "ill-typed state")

MCNext ==
  /\ WellTyped
  /\ UNCHANGED scene
  /\ \/ scene = "grants" /\ GrantsNext /\ UNCHANGED evars
     \/ scene = "endpoint" /\ EndpointNext
     \/ scene = "endpoint" /\ UNCHANGED evars
        /\ \/ \E n \in Ids : Expire(n)
           \/ \E o \in Orgs, n \in Ids : RevokeToken(o, n)

MCSpec == MCInit /\ [][MCNext]_MCvars /\ Fairness
=============================================================================
