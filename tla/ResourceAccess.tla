--------------------------- MODULE ResourceAccess ---------------------------
(***************************************************************************)
(* The access grants behind the URLs of resource deliveries: a delivery    *)
(* creates a grant and records it in the ledger before its URL is handed   *)
(* out, a reader uses the URL until the grant expires or is revoked, and   *)
(* a revocation is recorded too.  The grants live in a store of their own, *)
(* in memory or in SQLite, so each handler changes two stores and any of   *)
(* its appends may fail after the grant store has changed.                 *)
(***************************************************************************)
EXTENDS DaemonEventBus

CONSTANTS Accesses,      \* access ids, generated once each
          DeliveryKeys,  \* idempotency keys of delivery requests
          Never,         \* a grant that is not revoked
          Ttl,           \* the life of a grant
          MaxClock,      \* bound of the clock
          MaxServes,     \* bound of the accesses to one grant
          MaxRecords     \* bound of the log's length, these events included

ASSUME ClockAssumption == Ttl \in Nat \ {0} /\ MaxClock \in Nat /\ Never \notin Nat
ASSUME MaxRecordsAssumption == MaxRecords \in Nat

\* A requester does not ask under the key of a revocation, which the daemon
\* makes of a random access id.
ASSUME KeysAssumption == \A g \in Accesses : <<"revoked", g>> \notin DeliveryKeys \cup {NoKey}

VARIABLES grants,   \* grants[g]: the record of the grant store
          handed,   \* the accesses whose URL a requester got
          now       \* the clock

accessVars == <<grants, handed, now>>

Unused == [status |-> "unused", expiresAt |-> 0, revokedAt |-> Never, served |-> 0]

AccessInit == /\ grants = [g \in Accesses |-> Unused]
              /\ handed = {}
              /\ now = 0
-----------------------------------------------------------------------------
(***************************************************************************)
(* resource-delivery.ts: the events of the audit trail.                    *)
(***************************************************************************)
GrantCreated(g, p, expiresAt) ==
  [type |-> "resource_access_grant_created", key |-> <<"created", g>>,
   access |-> g, participant |-> p, expiresAt |-> expiresAt]

GrantRevoked(g, revokedAt) ==
  [type |-> "resource_access_grant_revoked", key |-> <<"revoked", g>>,
   access |-> g, revokedAt |-> revokedAt]

DeliveryPlanned(p, key, mode) ==
  [type |-> "resource_delivery_planned", key |-> key, participant |-> p, mode |-> mode]

\* The positions that log l has and the log of the session has not yet.
Appended(l) == DOMAIN l \ DOMAIN log
-----------------------------------------------------------------------------
(***************************************************************************)
(* createRedirectAccessDeliveryPlan, createHostedContentAccessDeliveryPlan:*)
(* the grant is stored first, then onAccessGrantCreated records it.        *)
(***************************************************************************)
CreateGrant(g) ==
  /\ grants[g].status = "unused"
  /\ grants' = [grants EXCEPT ![g] = [Unused EXCEPT !.status = "stored", !.expiresAt = now + Ttl]]

AfterGrant(g, p) == Append(log, GrantCreated(g, p, now + Ttl))

\* An append throws before the URL exists: the grant stays, and nobody has it.
GrantNotRecorded(g) ==
  /\ CreateGrant(g)
  /\ UNCHANGED <<log, handed, now, published, stream>>

(***************************************************************************)
(* POST /sessions/:sessionId/resources/:resourceId/deliveries, when the    *)
(* plan is a URL.  A request repeated under its key creates and records    *)
(* another grant before it comes to the plan recorded the first time.      *)
(***************************************************************************)
DeliverUrl(g, p, key) ==
  LET granted == AfterGrant(g, p)
      plan == DeliveryPlanned(p, key, "url")
  IN  /\ CreateGrant(g)
      /\ ~IsConflict(granted, plan)
      /\ log' = AfterAppend(granted, plan)
      /\ Publish(log', Appended(log'))
      /\ handed' = handed \cup {g}
      /\ UNCHANGED now

\* The plan is not recorded: the key has another plan, or the append throws.
PlanNotRecorded(g, p) ==
  /\ CreateGrant(g)
  /\ log' = AfterGrant(g, p)
  /\ Publish(log', Appended(log'))
  /\ UNCHANGED <<handed, now>>

\* The same request when the plan needs no grant.
DeliverDirectly(p, key) ==
  LET plan == DeliveryPlanned(p, key, "none")
  IN  /\ IsNew(log, plan)
      /\ log' = Append(log, plan)
      /\ Publish(log', Appended(log'))
      /\ UNCHANGED accessVars
-----------------------------------------------------------------------------
(***************************************************************************)
(* GET /resource-access/:accessId: recordAccess serves a grant, and        *)
(* forgets one that is past its time.                                      *)
(***************************************************************************)
IsActive(g) == grants[g].status = "stored" /\ grants[g].revokedAt = Never

Access(g) ==
  /\ g \in handed
  /\ IsActive(g) /\ now < grants[g].expiresAt
  /\ grants[g].served < MaxServes
  /\ grants' = [grants EXCEPT ![g].served = @ + 1]
  /\ UNCHANGED <<log, handed, now, published, stream>>

AccessExpired(g) ==
  /\ g \in handed
  /\ IsActive(g) /\ grants[g].expiresAt <= now
  /\ grants' = [grants EXCEPT ![g].status = "gone"]
  /\ UNCHANGED <<log, handed, now, published, stream>>

\* Mutant: the grant takes the time of the last revocation.
RevokedGrant_TimeMoves(g) == [grants[g] EXCEPT !.revokedAt = now]

\* revokeGrant, of an expired grant too.
RevokedGrant(g) ==
  [grants[g] EXCEPT !.revokedAt = IF @ = Never THEN now ELSE @]

\* Mutant: the revocation is recorded first, and then the grant store fails.
Revoke_RecordedFirst(g, recorded) ==
  LET revoked == GrantRevoked(g, RevokedGrant(g).revokedAt)
  IN  /\ g \in handed
      /\ grants[g].status = "stored"
      /\ recorded => ~IsConflict(log, revoked)
      /\ log' = AfterAppend(log, revoked)
      /\ Publish(log', Appended(log'))
      /\ grants' = IF recorded THEN [grants EXCEPT ![g] = RevokedGrant(g)] ELSE grants
      /\ UNCHANGED <<handed, now>>

\* POST /resource-access/:accessId/revoke.  When the append throws, the grant
\* is revoked all the same.
Revoke(g, recorded) ==
  LET revoked == GrantRevoked(g, RevokedGrant(g).revokedAt)
  IN  /\ g \in handed
      /\ grants[g].status = "stored"
      /\ recorded => ~IsConflict(log, revoked)
      /\ grants' = [grants EXCEPT ![g] = RevokedGrant(g)]
      /\ log' = IF recorded THEN AfterAppend(log, revoked) ELSE log
      /\ Publish(log', Appended(log'))
      /\ UNCHANGED <<handed, now>>

Tick == /\ now < MaxClock
        /\ now' = now + 1
        /\ UNCHANGED <<log, grants, handed, published, stream>>

AccessNext ==
  /\ \/ /\ Len(log) < MaxRecords
        /\ \/ \E g \in Accesses, p \in Participants, key \in DeliveryKeys \cup {NoKey} :
                PlanNotRecorded(g, p) \/ DeliverUrl(g, p, key)
           \/ \E p \in Participants, key \in DeliveryKeys : DeliverDirectly(p, key)
           \/ \E g \in Accesses, recorded \in BOOLEAN : Revoke(g, recorded)
     \/ \E g \in Accesses : GrantNotRecorded(g) \/ Access(g) \/ AccessExpired(g)
-----------------------------------------------------------------------------
\* A resource is served only on a grant that the ledger records as created, not
\* yet as revoked, and for a time that is not over: the grant store and the
\* ledger agree on it whatever appends failed and whenever the daemon restarted.
AccessAudited ==
  [][\A g \in Accesses : grants'[g].served > grants[g].served =>
       /\ \E i \in OfType(log, "resource_access_grant_created") :
            log[i].access = g /\ now < log[i].expiresAt
       /\ \A i \in OfType(log, "resource_access_grant_revoked") : log[i].access # g]_grants

\* A revocation whose record failed is repaired by revoking again, however much
\* later: the record it would write never conflicts with one that is there.
RevocationRepairable ==
  \A g \in Accesses :
    grants[g].status = "stored" /\ grants[g].revokedAt # Never =>
      ~IsConflict(log, GrantRevoked(g, grants[g].revokedAt))
=============================================================================
