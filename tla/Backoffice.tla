----------------------------- MODULE Backoffice -----------------------------
(***************************************************************************)
(* The administrators' own administration: roles and the permission codes  *)
(* they hold, the roles administrators have, and the gate that every       *)
(* request passes.  The gate is two reads; a role is looked up by id before *)
(* and by name inside the transactions that assign it; the codes of a role *)
(* are replaced by a deletion, which sees the rows of its own snapshot,    *)
(* and an insertion.  Audit rows are left out.                             *)
(***************************************************************************)
EXTENDS Naturals, FiniteSets, Relation, Transactions

CONSTANTS
  Admins,     \* usernames
  RoleIds, Names, Codes, Templates,
  Manage, CouponWrite,   \* role:manage and coupon:write
  Keep,                  \* an optional field that the request leaves out
  SeedAdmins, SeedRoles, SeedGrants,   \* the tables at first
  Calls,                 \* the requests that are made
  Attempts               \* DefaultTransactionAttempts

Request ==
  [kind : {"createRole"}, by : Admins, name : Names, codes : SUBSET Codes]
    \cup [kind : {"updateRole"}, by : Admins, role : RoleIds, name : Names \cup {Keep},
          replace : BOOLEAN, codes : SUBSET Codes]
    \cup [kind : {"updateAdmin"}, by : Admins, target : Admins, enabled : BOOLEAN \cup {Keep}, role : RoleIds]
    \cup [kind : {"updateAdmin"}, by : Admins, target : Admins, enabled : BOOLEAN, role : {Keep}]
    \cup [kind : {"bootstrap"}, target : Admins, name : Names]
    \cup [kind : {"createTemplate"}, by : Admins]
    \cup [kind : {"switch"}, by : Admins, template : Templates, status : {"active", "halted"}]

ASSUME OfficeAssumption ==
  /\ {Manage, CouponWrite} \subseteq Codes
  /\ Keep \notin RoleIds \cup Names
  /\ Calls \subseteq Request
  /\ DOMAIN SeedAdmins \subseteq Admins
  /\ SeedAdmins \in [DOMAIN SeedAdmins -> [on : BOOLEAN, role : DOMAIN SeedRoles]]
  /\ DOMAIN SeedRoles \subseteq RoleIds /\ SeedRoles \in [DOMAIN SeedRoles -> Names]
  /\ \A r, s \in DOMAIN SeedRoles : SeedRoles[r] = SeedRoles[s] => r = s
  /\ SeedGrants \in [RoleIds -> SUBSET Codes]
  /\ Attempts \in Nat \ {0}

VARIABLES
  admins,     \* admin_users: enabled and role_id of each there is
  roles,      \* roles: the name of each role there is
  grants,     \* role_permissions: the codes of each role
  templates,  \* coupon_templates: the status of each template there is
  past        \* history: what happened during the call of each process

officeVars == <<admins, roles, grants, templates, past, txVars>>
tables == <<admins, roles, grants, templates>>

Nothing == [role |-> Keep, name |-> Keep, drop |-> {}, try |-> 1]
NoPast == [lawful |-> FALSE, moved |-> {}, added |-> {}]

Required(c) == IF c.kind \in {"createTemplate", "switch"} THEN CouponWrite ELSE Manage

Holders(code) == {r \in DOMAIN roles : code \in grants[r]}

FirstStatement(c) ==
  CASE c.kind = "updateRole" -> "load"
    [] c.kind = "bootstrap" -> "byName"
    [] c.kind = "updateAdmin" -> IF c.role = Keep THEN "enable" ELSE "resolve"
    [] OTHER -> c.kind

Grants(r, codes) == {<<"grant", r, code>> : code \in codes}

Take(p, rows) == held' = [held EXCEPT ![p] = @ \cup rows]

AllFree(p, rows) == \A row \in rows : Free(row, p)

Drop(p) == End(p) /\ past' = [past EXCEPT ![p] = NoPast]

Creating(kind) == Cardinality({p \in Procs : call[p].kind = kind})

\* AdminAuth finds the account enabled, and PermissionsForAdmin reads its role.
Begin(p) ==
  /\ \E c \in Calls :
       /\ c.kind # "bootstrap"
       /\ c.by \in DOMAIN admins /\ admins[c.by].on
       /\ c.kind = "createRole" => Creating(c.kind) < Cardinality(RoleIds \ DOMAIN roles)
       /\ c.kind = "createTemplate" => Creating(c.kind) < Cardinality(Templates \ DOMAIN templates)
       /\ Serve(p, c, "gate", [Nothing EXCEPT !.role = admins[c.by].role])
       /\ past' = [past EXCEPT ![p].lawful = admins[c.by].role \in Holders(Required(c))]
  /\ UNCHANGED tables

-----------------------------------------------------------------------------
(* The permission gate *)

\* Mutant of Granted: what the role held when the server started.
GrantedOnce(r) == SeedGrants[r]

Granted(r) == grants[r]

\* PermissionsForAdmin's second read: the codes of the role that it has read.
Gate(p) ==
  /\ pc[p] = "gate"
  /\ IF Required(call[p]) \in Granted(seen[p].role)
     THEN /\ Goto(p, FirstStatement(call[p]))
          /\ seen' = [seen EXCEPT ![p] = Nothing]
          /\ past' = [past EXCEPT ![p] = NoPast]
          /\ UNCHANGED <<call, held, answer>>
     ELSE Drop(p)
  /\ UNCHANGED tables

-----------------------------------------------------------------------------
(* Roles *)

Taken == {roles[r] : r \in DOMAIN roles}

\* What the calls of the others have seen happen when p leaves r with `codes',
\* of which it has inserted `new'.
Witness(p, r, codes, new) ==
  past' = [q \in Procs |->
    IF q = p THEN NoPast
    ELSE [past[q] EXCEPT
            !.lawful = @ \/ (pc[q] = "gate" /\ seen[q].role = r /\ Required(call[q]) \in codes),
            !.moved = IF call[q].kind = "updateAdmin" /\ call[q].role = r /\ seen[p].name # Keep
                      THEN @ \cup {r} ELSE @,
            !.added = IF pc[q] \in {"delete", "plant", "commit"} /\ call[q].role = r
                      THEN @ \cup new ELSE @]]

\* Mutant of CreateRole: names are not unique.
CreateRoleAnyway(p) ==
  /\ pc[p] = "createRole"
  /\ Goto(p, "insert")
  /\ UNCHANGED <<tables, past, call, seen, held, answer>>

\* The INSERT waits for whoever is about to give or to leave the name.
CreateRole(p) ==
  /\ pc[p] = "createRole"
  /\ LET name == call[p].name
     IN  /\ Free(<<"name", name>>, p)
         /\ IF name \in Taken
            THEN Drop(p)
            ELSE Take(p, {<<"name", name>>}) /\ Goto(p, "insert") /\ UNCHANGED <<call, seen, answer, past>>
  /\ UNCHANGED tables

\* The new role and its codes appear together.
InsertRole(p) ==
  /\ pc[p] = "insert"
  /\ \E r \in RoleIds \ DOMAIN roles :
       /\ roles' = [s \in DOMAIN roles \cup {r} |-> IF s = r THEN call[p].name ELSE roles[s]]
       /\ grants' = [grants EXCEPT ![r] = call[p].codes]
       /\ Witness(p, r, call[p].codes, {})
  /\ End(p)
  /\ UNCHANGED <<admins, templates>>

\* UpdateRole reads the role and its codes, and looks for another with the name.
LoadRole(p) ==
  /\ pc[p] = "load"
  /\ LET c == call[p]
     IN  IF c.role \notin DOMAIN roles \/ (\E r \in DOMAIN roles \ {c.role} : roles[r] = c.name)
         THEN Drop(p)
         ELSE /\ Goto(p, IF c.name \notin {Keep, roles[c.role]} THEN "rename"
                         ELSE IF c.replace THEN "snapshot" ELSE "commit")
              /\ Note(p, "drop", grants[c.role])
              /\ UNCHANGED <<call, held, answer, past>>
  /\ UNCHANGED tables

\* The UPDATE of the name waits for the row (foreign keys share it), for its old
\* name's next owner and for the new name's.
Rename(p) ==
  /\ pc[p] = "rename"
  /\ LET r    == call[p].role
         name == call[p].name
     IN  /\ AllFree(p, {<<"role", r>>, <<"share", r>>, <<"name", name>>})
         /\ IF \E s \in DOMAIN roles \ {r} : roles[s] = name
            THEN Drop(p)
            ELSE /\ Take(p, {<<"role", r>>, <<"name", name>>, <<"name", roles[r]>>})
                 /\ Note(p, "name", name)
                 /\ Goto(p, IF call[p].replace THEN "snapshot" ELSE "commit")
                 /\ UNCHANGED <<call, answer, past>>
  /\ UNCHANGED tables

\* Mutant of Snapshot: the rows that LoadRole has read are deleted.
SnapshotOfLoad(p) ==
  /\ pc[p] = "snapshot"
  /\ Goto(p, "delete")
  /\ past' = [past EXCEPT ![p].added = {}]
  /\ UNCHANGED <<tables, call, seen, held, answer>>

\* replaceRolePermissions: the DELETE finds its rows in a snapshot ...
Snapshot(p) ==
  /\ pc[p] = "snapshot"
  /\ Note(p, "drop", grants[call[p].role])
  /\ Goto(p, "delete")
  /\ past' = [past EXCEPT ![p].added = {}]
  /\ UNCHANGED <<tables, call, held, answer>>

\* ... and passes over those that are gone when it is their turn.
Delete(p) ==
  /\ pc[p] = "delete"
  /\ LET r    == call[p].role
         rows == seen[p].drop \cap grants[r]
     IN  /\ AllFree(p, Grants(r, seen[p].drop))
         /\ Take(p, Grants(r, rows))
         /\ Note(p, "drop", rows)
  /\ Goto(p, "plant")
  /\ UNCHANGED <<tables, past, call, answer>>

\* The INSERT waits for rows with its keys that come or go, and for the role's
\* row; a row that is there ends the transaction with an error.
Plant(p) ==
  /\ pc[p] = "plant"
  /\ LET r     == call[p].role
         codes == call[p].codes
     IN  IF codes = {}
         THEN Goto(p, "commit") /\ UNCHANGED <<call, seen, held, answer, past>>
         ELSE /\ AllFree(p, Grants(r, codes) \cup {<<"role", r>>})
              /\ IF codes \cap (grants[r] \ seen[p].drop) # {}
                 THEN Drop(p)
                 ELSE /\ Take(p, Grants(r, codes) \cup {<<"share", r>>})
                      /\ Goto(p, "commit")
                      /\ UNCHANGED <<call, seen, answer, past>>
  /\ UNCHANGED tables

\* The name and the codes change together.
CommitRole(p) ==
  /\ pc[p] = "commit"
  /\ LET r     == call[p].role
         codes == IF call[p].replace THEN (grants[r] \ seen[p].drop) \cup call[p].codes ELSE grants[r]
     IN  /\ roles' = [roles EXCEPT ![r] = IF seen[p].name = Keep THEN @ ELSE seen[p].name]
         /\ grants' = [grants EXCEPT ![r] = codes]
         /\ Witness(p, r, codes, IF call[p].replace THEN call[p].codes ELSE {})
  /\ End(p)
  /\ UNCHANGED <<admins, templates>>

-----------------------------------------------------------------------------
(* Administrators *)

\* RoleNameByID, before the transactions.
Resolve(p) ==
  /\ pc[p] = "resolve"
  /\ IF call[p].role \in DOMAIN roles
     THEN /\ Note(p, "name", roles[call[p].role])
          /\ Goto(p, IF call[p].enabled = Keep THEN "byName" ELSE "enable")
          /\ past' = [past EXCEPT ![p].moved = {}]
          /\ UNCHANGED <<call, held, answer>>
     ELSE Drop(p)
  /\ UNCHANGED tables

Present(p) == call[p].target \in DOMAIN admins

\* UpdateAdmin, the first transaction (its token version is AdminAccount's).
Enable(p) ==
  /\ pc[p] = "enable"
  /\ admins' = IF Present(p) THEN [admins EXCEPT ![call[p].target].on = call[p].enabled] ELSE admins
  /\ IF ~Present(p) \/ call[p].role = Keep
     THEN Drop(p)
     ELSE Goto(p, "byName") /\ UNCHANGED <<call, seen, held, answer, past>>
  /\ UNCHANGED <<roles, grants, templates>>

\* Mutant of Named: the condition is lost.
NamedAnything(name) == DOMAIN roles

Named(name) == {r \in DOMAIN roles : roles[r] = name}

\* AssignRole, the second: the role is looked up again, by its name, and a
\* refusal leaves the first as it is.
ByName(p) ==
  /\ pc[p] = "byName"
  /\ LET name == IF call[p].kind = "bootstrap" THEN call[p].name ELSE seen[p].name
     IN  IF Named(name) = {} \/ (call[p].kind = "updateAdmin" /\ ~Present(p))
         THEN Drop(p)
         ELSE /\ \E r \in Named(name) : Note(p, "role", r)
              /\ Goto(p, IF call[p].kind = "bootstrap" THEN "insertAdmin" ELSE "assign")
              /\ UNCHANGED <<call, held, answer, past>>
  /\ UNCHANGED tables

\* The foreign key waits for a rename of the role.
AssignRole(p) ==
  /\ pc[p] = "assign"
  /\ Free(<<"role", seen[p].role>>, p)
  /\ admins' = [admins EXCEPT ![call[p].target].role = seen[p].role]
  /\ Drop(p)
  /\ UNCHANGED <<roles, grants, templates>>

\* The bootstrap command is run from a shell, past every gate.
Bootstrap(p) ==
  /\ \E c \in Calls : c.kind = "bootstrap" /\ Serve(p, c, FirstStatement(c), Nothing)
  /\ UNCHANGED <<past, tables>>

\* BootstrapAdministrator refuses a username that is there.
InsertAdmin(p) ==
  /\ pc[p] = "insertAdmin"
  /\ Free(<<"role", seen[p].role>>, p)
  /\ LET a == call[p].target
     IN  admins' = IF Present(p) THEN admins
                   ELSE [b \in DOMAIN admins \cup {a} |->
                           IF b = a THEN [on |-> TRUE, role |-> seen[p].role] ELSE admins[b]]
  /\ Drop(p)
  /\ UNCHANGED <<roles, grants, templates>>

-----------------------------------------------------------------------------
(* Coupon templates *)

CreateTemplate(p) ==
  /\ pc[p] = "createTemplate"
  /\ \E t \in Templates \ DOMAIN templates :
       templates' = [u \in DOMAIN templates \cup {t} |-> IF u = t THEN "active" ELSE templates[u]]
  /\ Drop(p)
  /\ UNCHANGED <<admins, roles, grants>>

\* SetTemplateStatus, which refuses a template that is not there.
Switch(p) ==
  /\ pc[p] = "switch"
  /\ templates' = [t \in DOMAIN templates |-> IF t = call[p].template THEN call[p].status ELSE templates[t]]
  /\ Drop(p)
  /\ UNCHANGED <<admins, roles, grants>>

-----------------------------------------------------------------------------
(* Deadlocks *)

Wanted(p) ==
  LET c == call[p]
  IN  CASE pc[p] = "createRole" -> {<<"name", c.name>>}
        [] pc[p] = "rename" -> {<<"role", c.role>>, <<"share", c.role>>, <<"name", c.name>>}
        [] pc[p] = "delete" -> Grants(c.role, seen[p].drop)
        [] pc[p] = "plant" -> IF c.codes = {} THEN {} ELSE Grants(c.role, c.codes) \cup {<<"role", c.role>>}
        [] pc[p] \in {"assign", "insertAdmin"} -> {<<"role", seen[p].role>>}
        [] OTHER -> {}

Waits(p, q) == p # q /\ Wanted(p) \cap held[q] # {}

WaitsFor == [pq \in Procs \X Procs |-> Waits(pq[1], pq[2])]

InCycle(p) ==
  /\ \E q \in Procs : Waits(p, q)
  /\ TransitiveClosure(WaitsFor, Procs)[p, p]

\* Mutant of Victim: nobody breaks a deadlock.
VictimWaits(p) == FALSE /\ UNCHANGED officeVars

\* RunTransaction runs a deadlock's victim again, unless it has done so often.
Victim(p) ==
  /\ InCycle(p)
  /\ IF seen[p].try < Attempts
     THEN /\ Goto(p, FirstStatement(call[p]))
          /\ held' = [held EXCEPT ![p] = {}]
          /\ seen' = [seen EXCEPT ![p] = [Nothing EXCEPT !.try = seen[p].try + 1]]
          /\ UNCHANGED <<call, answer, past>>
     ELSE Drop(p)
  /\ UNCHANGED tables

\* The client hangs up, or a statement fails.
Disconnect(p) == pc[p] # "idle" /\ Drop(p) /\ UNCHANGED tables

Step(p) ==
  \/ Gate(p) \/ CreateRole(p) \/ InsertRole(p)
  \/ LoadRole(p) \/ Rename(p) \/ Snapshot(p) \/ Delete(p) \/ Plant(p) \/ CommitRole(p)
  \/ Resolve(p) \/ Enable(p) \/ ByName(p) \/ AssignRole(p) \/ InsertAdmin(p)
  \/ CreateTemplate(p) \/ Switch(p)
  \/ Victim(p)

OfficeInit ==
  /\ admins = SeedAdmins /\ roles = SeedRoles /\ grants = SeedGrants
  /\ templates = <<>>
  /\ past = [p \in Procs |-> NoPast]
  /\ TxInit

OfficeNext == \E p \in Procs : Begin(p) \/ Bootstrap(p) \/ Step(p) \/ Disconnect(p)

OfficeSpec == OfficeInit /\ [][OfficeNext]_officeVars

\* The server runs every statement it can, the database breaks every deadlock,
\* and its lock queues are first come, first served.
FairOfficeSpec == OfficeSpec /\ \A p \in Procs : SF_officeVars(Step(p))

-----------------------------------------------------------------------------
(* Properties *)

\* Every process keeps within its program, and role names stay unique.
OfficeTypeOK ==
  /\ DOMAIN admins \subseteq Admins
  /\ admins \in [DOMAIN admins -> [on : BOOLEAN, role : DOMAIN roles]]
  /\ DOMAIN roles \subseteq RoleIds /\ roles \in [DOMAIN roles -> Names]
  /\ \A r, s \in DOMAIN roles : roles[r] = roles[s] => r = s
  /\ grants \in [RoleIds -> SUBSET Codes]
  /\ \A r \in RoleIds \ DOMAIN roles : grants[r] = SeedGrants[r]
  /\ DOMAIN templates \subseteq Templates /\ templates \in [DOMAIN templates -> {"active", "halted"}]
  /\ \A p \in Procs : pc[p] = "idle" => held[p] = {} /\ past[p] = NoPast

\* A replacement of permissions leaves what it asked for, and besides it at most
\* what replacements that overlapped its own deletion and insertion asked for.
ReplacementTakes ==
  [][\A p \in Procs : CommitRole(p) /\ call[p].replace =>
       LET r == call[p].role
       IN  /\ call[p].codes \subseteq grants'[r]
           /\ grants'[r] \subseteq call[p].codes \cup past[p].added]_officeVars

\* Permissions are decided anew for every request: whoever passes the gate had,
\* when the request came, a role that held the code during the request.
GateDecidesLive ==
  [][\A p \in Procs : pc[p] = "gate" /\ pc'[p] \notin {"gate", "idle"} =>
       past[p].lawful]_officeVars

\* An administrator gets the role the request names, unless that role was
\* renamed while the request was served.
AssignsRequestedRole ==
  [][\A p \in Procs : AssignRole(p) =>
       seen[p].role = call[p].role \/ call[p].role \in past[p].moved]_officeVars

\* Every request is answered, through lock waits and deadlocks.
EveryRequestEnds == \A p \in Procs : pc[p] # "idle" ~> pc[p] = "idle"
=============================================================================
