---------------------------- MODULE TenantRename ----------------------------
(***************************************************************************)
(* Renaming a tenant: Service.RenameTenant as a saga of SQL statements,    *)
(* with the hold period that keeps the old slug acceptable, the lazy clear *)
(* of an expired rename, the compare-and-set that is to keep renames       *)
(* apart, the compensation when another tenant took the slug first, and    *)
(* the start-up scan after a crash.                                        *)
(*                                                                         *)
(* A step is one statement with the in-memory work that follows it; other  *)
(* requests run in between.  NoopKafkaAdmin makes the topic and ACL steps  *)
(* of the saga do nothing.                                                 *)
(***************************************************************************)
EXTENDS Integers, FiniteSets

CONSTANTS Tenant, Slug, NoSlug,
          Reserved,      \* the slugs isReservedSlug refuses
          Worker,        \* request goroutines
          MaxRequests,   \* bound: rename requests
          MaxFaults      \* bound: failed statements and crashes

VARIABLES
    status,     \* tenants.status: "absent", "active", "suspended", "deleted"
    slug,       \* tenants.slug (NoSlug: no row)
    prev,       \* tenants.previous_slug
    rstate,     \* tenants.slug_rename_state: "none", "pending", "complete"
    hold,       \* tenants.slug_renamed_at: "none", "running", "over"
    req,        \* the rename each worker is serving
    served, faults,
    epoch,      \* ghost: renames of the tenant committed so far
    stuck       \* ghost: tenants left pending by a failed commit or a crash

vars == <<status, slug, prev, rstate, hold, req, served, faults, epoch, stuck>>
row == <<status, slug, prev, rstate, hold>>

Idle == [pc |-> "idle", t |-> CHOOSE t \in Tenant : TRUE, new |-> NoSlug, slug |-> NoSlug, epoch |-> 0]

TypeOK ==
    /\ status \in [Tenant -> {"absent", "active", "suspended", "deleted"}]
    /\ slug \in [Tenant -> Slug \cup {NoSlug}] /\ prev \in [Tenant -> Slug \cup {NoSlug}]
    /\ rstate \in [Tenant -> {"none", "pending", "complete"}]
    /\ hold \in [Tenant -> {"none", "running", "over"}]
    /\ stuck \subseteq Tenant

Init ==
    /\ \E u \in Tenant, s \in Slug \ Reserved :
        /\ status = [t \in Tenant |-> IF t = u THEN "active" ELSE "absent"]
        /\ slug = [t \in Tenant |-> IF t = u THEN s ELSE NoSlug]
    /\ prev = [t \in Tenant |-> NoSlug]
    /\ rstate = [t \in Tenant |-> "none"]
    /\ hold = [t \in Tenant |-> "none"]
    /\ req = [w \in Worker |-> Idle]
    /\ epoch = [t \in Tenant |-> 0]
    /\ served = 0 /\ faults = 0 /\ stuck = {}

-----------------------------------------------------------------------------
isReservedSlug(s) == s \in Reserved

\* GetBySlug: rows that are not deleted.
HasSlug(t, s) == slug[t] = s /\ status[t] \notin {"absent", "deleted"}

\* uq_tenant_slug covers deleted rows too.
SlugFree(t, s) == \A u \in Tenant : u # t => slug[u] # s

\* The grace window: the previous slug of a recent rename is accepted.
InGrace(t) ==
    /\ status[t] = "active" /\ rstate[t] = "complete"
    /\ prev[t] # NoSlug /\ hold[t] = "running"

\* RequireTenant for a tenant's own token, and GetIDBySlugWithGrace.
Accepts(t, s) == HasSlug(t, s) \/ (InGrace(t) /\ prev[t] = s)

Fault == faults < MaxFaults /\ faults' = faults + 1
Sound == faults' = faults
Goto(w, pc) == req' = [req EXCEPT ![w].pc = pc]
Done(w) == req' = [req EXCEPT ![w] = Idle]

-----------------------------------------------------------------------------
\* The handler: the slug in the path resolves to an acceptable tenant, the new one is
\* well-formed and not reserved.
HandleRenameTenant(w) ==
    /\ req[w].pc = "idle" /\ served < MaxRequests
    /\ \E t \in Tenant, s \in Slug :
        /\ Accepts(t, slug[t]) /\ ~isReservedSlug(s)
        /\ req' = [req EXCEPT ![w] = [Idle EXCEPT !.pc = "read", !.t = t, !.new = s, !.slug = slug[t]]]
    /\ served' = served + 1
    /\ UNCHANGED <<row, faults, epoch, stuck>>

\* Steps 3 to 7: look the tenant up, gate on status, slug and hold period.
HoldGateNone(h) == TRUE
HoldGate(h) == h # "running"

LookUp(w) ==
    LET t == req[w].t IN
    /\ req[w].pc = "read"
    /\ IF /\ HasSlug(t, req[w].slug) /\ status[t] = "active"
          /\ req[w].new # slug[t] /\ HoldGate(hold[t])
         THEN req' = [req EXCEPT ![w].pc = IF hold[t] = "none" THEN "available" ELSE "clear",
                                 ![w].epoch = epoch[t]]
         ELSE Done(w)
    /\ UNCHANGED <<row, served, faults, epoch, stuck>>

\* ClearRenameState is unconditional.
ClearRenameState(t) ==
    /\ rstate' = [rstate EXCEPT ![t] = "none"]
    /\ prev' = [prev EXCEPT ![t] = NoSlug]
    /\ hold' = [hold EXCEPT ![t] = "none"]

\* Step 7: the lazy clear; its failure is logged only.
LazyClear(w) ==
    /\ req[w].pc = "clear"
    /\ \/ ClearRenameState(req[w].t) /\ Sound
       \/ Fault /\ UNCHANGED <<rstate, prev, hold>>
    /\ Goto(w, "available")
    /\ UNCHANGED <<status, slug, served, epoch, stuck>>

\* Step 8: nobody has the new slug; a failed lookup counts as free.
Available(w) ==
    /\ req[w].pc = "available"
    /\ \/ /\ Sound
          /\ IF \E u \in Tenant : HasSlug(u, req[w].new) THEN Done(w) ELSE Goto(w, "cas")
       \/ Fault /\ Goto(w, "cas")
    /\ UNCHANGED <<row, served, epoch, stuck>>

\* Step 9: SetRenameState, only from NULL or complete.
CasFrom == {"none", "complete"}

SetRenameState(w) ==
    LET t == req[w].t IN
    /\ req[w].pc = "cas"
    /\ \/ /\ rstate[t] \in CasFrom /\ Sound
          /\ rstate' = [rstate EXCEPT ![t] = "pending"]
          /\ prev' = [prev EXCEPT ![t] = req[w].slug]
          /\ stuck' = stuck \ {t}
          /\ Goto(w, "commit")
       \/ /\ (rstate[t] \notin CasFrom /\ Sound) \/ Fault
          /\ Done(w)
          /\ UNCHANGED <<rstate, prev, stuck>>
    /\ UNCHANGED <<status, slug, hold, served, epoch>>

\* Step 12: UpdateSlug; the unique key may refuse it, and it may fail.
UpdateSlug(w) ==
    LET t == req[w].t IN
    /\ req[w].pc = "commit"
    /\ \/ /\ SlugFree(t, req[w].new) /\ Sound
          /\ slug' = [slug EXCEPT ![t] = req[w].new]
          /\ prev' = [prev EXCEPT ![t] = slug[t]]
          /\ rstate' = [rstate EXCEPT ![t] = "complete"]
          /\ hold' = [hold EXCEPT ![t] = "running"]
          /\ epoch' = [epoch EXCEPT ![t] = @ + 1]
          /\ Done(w) /\ UNCHANGED stuck
       \/ /\ ~SlugFree(t, req[w].new) /\ Sound
          /\ Goto(w, "compensate")
          /\ UNCHANGED <<slug, prev, rstate, hold, epoch, stuck>>
       \/ /\ Fault
          /\ stuck' = stuck \cup {t}
          /\ Done(w)
          /\ UNCHANGED <<slug, prev, rstate, hold, epoch>>
    /\ UNCHANGED <<status, served>>

\* Another tenant won the slug: undo the pending state.
CompensateNot(w) ==
    /\ req[w].pc = "compensate"
    /\ Done(w)
    /\ UNCHANGED <<row, served, faults, epoch, stuck>>
Compensate(w) ==
    /\ req[w].pc = "compensate"
    /\ \/ ClearRenameState(req[w].t) /\ Sound /\ UNCHANGED stuck
       \/ /\ Fault /\ stuck' = stuck \cup {req[w].t}
          /\ UNCHANGED <<rstate, prev, hold>>
    /\ Done(w)
    /\ UNCHANGED <<status, slug, served, epoch>>

-----------------------------------------------------------------------------
\* The environment of a rename

\* CreateTenant inserts a row with a slug no row has.
CreateTenant(t, s) ==
    /\ status[t] = "absent" /\ ~isReservedSlug(s) /\ SlugFree(t, s)
    /\ status' = [status EXCEPT ![t] = "active"]
    /\ slug' = [slug EXCEPT ![t] = s]
    /\ UNCHANGED <<prev, rstate, hold, req, served, faults, epoch, stuck>>

\* TenantLifecycle moves the status while requests are under way.
ChangeStatus(t) ==
    /\ \/ status[t] = "active" /\ status' = [status EXCEPT ![t] = "suspended"]
       \/ status[t] = "suspended" /\ status' = [status EXCEPT ![t] = "deleted"]
    /\ UNCHANGED <<slug, prev, rstate, hold, req, served, faults, epoch, stuck>>

HoldExpires(t) ==
    /\ hold[t] = "running"
    /\ hold' = [hold EXCEPT ![t] = "over"]
    /\ UNCHANGED <<status, slug, prev, rstate, req, served, faults, epoch, stuck>>

\* The process dies and starts again: Start reports what it finds and changes no row.
Restart ==
    /\ Fault
    /\ stuck' = stuck \cup {t \in Tenant : rstate[t] = "pending"}
    /\ req' = [w \in Worker |-> Idle]
    /\ UNCHANGED <<row, served, epoch>>

Serve(w) ==
    LookUp(w) \/ LazyClear(w) \/ Available(w) \/ SetRenameState(w) \/ UpdateSlug(w) \/ Compensate(w)

Next ==
    \/ \E w \in Worker : HandleRenameTenant(w) \/ Serve(w)
    \/ \E t \in Tenant : ChangeStatus(t) \/ HoldExpires(t) \/ (\E s \in Slug : CreateTenant(t, s))
    \/ Restart

Spec == Init /\ [][Next]_vars

-----------------------------------------------------------------------------
\* Properties

Past(w, t) == req[w].t = t /\ req[w].pc \in {"commit", "compensate"}

\* PendingOwned: a tenant is pending only while a rename of it is past its
\* compare-and-set, or after a failed commit or a crash; a lost race for the slug is
\* undone (RenameTenant, steps 9 to 12).
PendingOwned ==
    \A t \in Tenant : rstate[t] = "pending" => t \in stuck \/ \E w \in Worker : Past(w, t)

\* GraceKept: the old slug stays acceptable until the hold period is over, the tenant
\* leaves the active status, or a rename acts that read the tenant before the one that
\* opened the window (the hold gate of RenameTenant, RequireTenant).
GraceKept ==
    [][\A t \in Tenant : (InGrace(t) /\ ~InGrace(t)') =>
        \/ hold'[t] = "over" \/ status'[t] # "active"
        \/ \E w \in Worker : req[w].pc \notin {"idle", "read"} /\ req[w].t = t /\ req[w].epoch < epoch[t]]_vars

\* RenameExclusive: at most one rename of a tenant is past its compare-and-set
\* (RenameTenant, step 9: "CAS lock - prevent concurrent renames").
RenameExclusive ==
    \A t \in Tenant : \A v, w \in Worker : (Past(v, t) /\ Past(w, t)) => v = w
=============================================================================
