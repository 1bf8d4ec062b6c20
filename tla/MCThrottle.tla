----------------------------- MODULE MCThrottle -----------------------------
(* Two connections of one org that share the org's bucket.                   *)
EXTENDS Throttle

CONSTANTS c1, c2, org, b1, b2

MCConns == {c1, c2}
MCOrgs == {org}
MCOrgOf == [c \in MCConns |-> org]
MCBearers == {b1, b2}
MCConnOf == [b \in MCBearers |-> IF b = b2 THEN c2 ELSE c1]
MCBurst == [k \in MCConns \cup MCOrgs |-> IF k = org THEN 4 ELSE 3]
MCRate == [k \in MCConns \cup MCOrgs |-> IF k = org THEN 2 ELSE 1]

=============================================================================
