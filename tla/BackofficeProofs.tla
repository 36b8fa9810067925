-------------------------- MODULE BackofficeProofs --------------------------
(* Theorems about Backoffice, for every value of its constants. *)
EXTENDS Backoffice, TLAPS

Steps ==
  {"idle", "gate", "createRole", "insert", "load", "rename", "snapshot", "delete", "plant", "commit",
   "resolve", "enable", "byName", "assign", "insertAdmin", "createTemplate", "switch"}

Seen == [role : RoleIds \cup {Keep}, name : Names \cup {Keep}, drop : SUBSET Codes, try : Nat]

\* Every process has its program counter, and the rest.
ShapeInv ==
  /\ pc \in [Procs -> Steps]
  /\ call = [p \in Procs |-> call[p]] /\ seen = [p \in Procs |-> seen[p]]
  /\ held = [p \in Procs |-> held[p]]
  /\ past \in [Procs -> [lawful : BOOLEAN, moved : SUBSET RoleIds, added : SUBSET Codes]]

\* A process at step w of call c, with what it has seen and holds: its program ...
ProgramOK(w, c, s) ==
  /\ w # "idle" => c \in Request /\ s \in Seen
  /\ w \in {"createRole", "insert"} => c.kind = "createRole"
  /\ w \in {"load", "rename", "snapshot", "delete", "plant", "commit"} => c.kind = "updateRole"
  /\ w = "load" => s.name = Keep
  /\ w = "rename" => c.name \in Names
  /\ w \in {"rename", "snapshot", "delete", "plant", "commit"} => c.role \in DOMAIN roles
  /\ w \in {"snapshot", "delete", "plant"} => c.replace
  /\ w \in {"resolve", "enable", "assign"} => c.kind = "updateAdmin"
  /\ w = "resolve" => c.role \in RoleIds
  /\ w = "enable" => c.enabled \in BOOLEAN
  /\ w = "byName" => c.kind \in {"updateAdmin", "bootstrap"}
  /\ w = "insertAdmin" => c.kind = "bootstrap"
  /\ w \in {"gate", "assign", "insertAdmin"} => s.role \in DOMAIN roles
  /\ w = "assign" => c.target \in DOMAIN admins
  /\ w = "switch" => c.kind = "switch"

Renaming(w, s) == w \in {"snapshot", "delete", "plant", "commit"} /\ s.name # Keep

\* ... the names it locks, which nobody else can take ...
NamesOK(w, c, s, h) ==
  /\ w = "insert" => <<"name", c.name>> \in h /\ c.name \notin Taken
  /\ Renaming(w, s) =>
       /\ {<<"role", c.role>>, <<"name", s.name>>, <<"name", roles[c.role]>>} \subseteq h
       /\ \A r \in DOMAIN roles \ {c.role} : roles[r] # s.name
  /\ \A n : <<"name", n>> \in h =>
       \/ w = "insert" /\ n = c.name
       \/ Renaming(w, s) /\ n \in {s.name, roles[c.role]}

\* ... and what happened since it looked.
PastOK(w, c, s, pa) ==
  /\ w = "gate" => (Required(c) \in grants[s.role] => pa.lawful)
  /\ w \in {"delete", "plant", "commit"} /\ c.replace => grants[c.role] \ s.drop \subseteq pa.added
  /\ c.kind = "updateAdmin" /\ (w = "byName" \/ (w = "enable" /\ c.role # Keep)) =>
       c.role \in DOMAIN roles /\ (roles[c.role] = s.name \/ c.role \in pa.moved)
  /\ w = "assign" => s.role = c.role \/ c.role \in pa.moved

ProcInv(p) ==
  /\ ProgramOK(pc[p], call[p], seen[p])
  /\ NamesOK(pc[p], call[p], seen[p], held[p])
  /\ PastOK(pc[p], call[p], seen[p], past[p])
  /\ pc[p] = "idle" => held[p] = {} /\ past[p] = NoPast /\ call[p] = NoCall

\* The locks of names, and those of roles that are renamed, are exclusive.
Apart(h, i) ==
  /\ \A n : ~(<<"name", n>> \in h /\ <<"name", n>> \in i)
  /\ \A r : ~(<<"role", r>> \in h /\ <<"role", r>> \in i)

RowsInv ==
  /\ DOMAIN roles \subseteq RoleIds /\ roles \in [DOMAIN roles -> Names]
  /\ \A r, s \in DOMAIN roles : roles[r] = roles[s] => r = s
  /\ grants \in [RoleIds -> SUBSET Codes]
  /\ \A r \in RoleIds \ DOMAIN roles : grants[r] = SeedGrants[r]

PeopleInv ==
  /\ DOMAIN admins \subseteq Admins
  /\ admins \in [DOMAIN admins -> [on : BOOLEAN, role : DOMAIN roles]]
  /\ DOMAIN templates \subseteq Templates /\ templates \in [DOMAIN templates -> {"active", "halted"}]

OfficeInv ==
  /\ RowsInv /\ PeopleInv /\ ShapeInv
  /\ \A p \in Procs : ProcInv(p)
  /\ \A p, q \in Procs : p # q => Apart(held[p], held[q])

-----------------------------------------------------------------------------
(* Local steps *)

\* Process p moves on, and the roles stay.
LEMMA LocalStep ==
  ASSUME OfficeInv, NEW p \in Procs, ShapeInv',
         UNCHANGED <<roles, grants>>, PeopleInv', DOMAIN admins \subseteq DOMAIN admins',
         \A q \in Procs \ {p} :
           /\ pc'[q] = pc[q] /\ call'[q] = call[q] /\ seen'[q] = seen[q]
           /\ held'[q] = held[q] /\ past'[q] = past[q],
         ProcInv(p)',
         \A q \in Procs \ {p} : Apart(held'[p], held[q])
  PROVE  OfficeInv'
<1>1. RowsInv'  BY DEF OfficeInv, RowsInv
<1>2. ASSUME NEW q \in Procs  PROVE ProcInv(q)'
  <2>1. CASE q # p
    <3>1. ProcInv(q)  BY DEF OfficeInv
    <3>2. ProgramOK(pc[q], call[q], seen[q])'
      BY <2>1, <3>1 DEF ProcInv, ProgramOK
    <3>3. NamesOK(pc[q], call[q], seen[q], held[q])'
      BY <2>1, <3>1 DEF ProcInv, NamesOK, Renaming, Taken
    <3>4. PastOK(pc[q], call[q], seen[q], past[q])'
      BY <2>1, <3>1 DEF ProcInv, PastOK
    <3> QED  BY <2>1, <3>1, <3>2, <3>3, <3>4 DEF ProcInv
  <2> QED  BY <2>1
<1>3. \A q, r \in Procs : q # r => Apart(held'[q], held'[r])
  BY DEF OfficeInv, Apart
<1> QED  BY <1>1, <1>2, <1>3 DEF OfficeInv

\* The call of p is over.
LEMMA DropStep ==
  ASSUME OfficeInv, NEW p \in Procs, Drop(p), UNCHANGED <<roles, grants>>,
         PeopleInv', DOMAIN admins \subseteq DOMAIN admins'
  PROVE  OfficeInv'
<1>1. /\ pc'[p] = "idle" /\ held'[p] = {} /\ past'[p] = NoPast
      /\ call'[p] = NoCall /\ seen'[p] = NoCall
      /\ \A q \in Procs \ {p} :
           /\ pc'[q] = pc[q] /\ call'[q] = call[q] /\ seen'[q] = seen[q]
           /\ held'[q] = held[q] /\ past'[q] = past[q]
  BY DEF Drop, End, Goto, OfficeInv, ShapeInv
<1>2. ShapeInv'
  <2>1. NoPast \in [lawful : BOOLEAN, moved : SUBSET RoleIds, added : SUBSET Codes]
    BY DEF NoPast
  <2> QED  BY <2>1 DEF Drop, End, Goto, OfficeInv, ShapeInv, Steps
<1>3. ProcInv(p)'
  BY <1>1 DEF ProcInv, ProgramOK, NamesOK, PastOK, Renaming, NoCall
<1> QED  BY <1>1, <1>2, <1>3, LocalStep DEF Apart

\* Process p goes to step w, with what it has and sees given or as it was.
LEMMA Moved ==
  ASSUME OfficeInv, NEW p \in Procs, NEW w \in Steps, NEW c, NEW s, NEW h,
         NEW pa \in [lawful : BOOLEAN, moved : SUBSET RoleIds, added : SUBSET Codes],
         Goto(p, w),
         call' = [call EXCEPT ![p] = c] \/ (UNCHANGED call /\ c = call[p]),
         seen' = [seen EXCEPT ![p] = s] \/ (UNCHANGED seen /\ s = seen[p]),
         held' = [held EXCEPT ![p] = h] \/ (UNCHANGED held /\ h = held[p]),
         past' = [past EXCEPT ![p] = pa] \/ (UNCHANGED past /\ pa = past[p]),
         UNCHANGED <<roles, grants>>, PeopleInv', DOMAIN admins \subseteq DOMAIN admins',
         ProgramOK(w, c, s), NamesOK(w, c, s, h), PastOK(w, c, s, pa), w # "idle",
         \A q \in Procs \ {p} : Apart(h, held[q])
  PROVE  OfficeInv'
<1>1. /\ pc'[p] = w /\ call'[p] = c /\ seen'[p] = s /\ held'[p] = h /\ past'[p] = pa
      /\ \A q \in Procs \ {p} :
           /\ pc'[q] = pc[q] /\ call'[q] = call[q] /\ seen'[q] = seen[q]
           /\ held'[q] = held[q] /\ past'[q] = past[q]
  BY DEF Goto, OfficeInv, ShapeInv
<1>2. ShapeInv'
  <2>1. /\ call' = [q \in Procs |-> call'[q]] /\ seen' = [q \in Procs |-> seen'[q]]
        /\ held' = [q \in Procs |-> held'[q]]
    BY DEF OfficeInv, ShapeInv
  <2>2. pc' \in [Procs -> Steps]
    BY DEF Goto, OfficeInv, ShapeInv
  <2>3. past' \in [Procs -> [lawful : BOOLEAN, moved : SUBSET RoleIds, added : SUBSET Codes]]
    BY DEF OfficeInv, ShapeInv
  <2> QED  BY <2>1, <2>2, <2>3 DEF ShapeInv
<1>3. ProgramOK(w, c, s)' /\ NamesOK(w, c, s, h)' /\ PastOK(w, c, s, pa)'
  BY DEF ProgramOK, NamesOK, Renaming, Taken, PastOK
<1>4. ProcInv(p)'
  BY <1>1, <1>3 DEF ProcInv
<1> QED  BY <1>1, <1>2, <1>4, LocalStep

\* The state of a process, by its parts.
LEMMA Facts ==
  ASSUME OfficeInv, NEW p \in Procs
  PROVE  /\ ProgramOK(pc[p], call[p], seen[p]) /\ NamesOK(pc[p], call[p], seen[p], held[p])
         /\ PastOK(pc[p], call[p], seen[p], past[p])
         /\ past[p] \in [lawful : BOOLEAN, moved : SUBSET RoleIds, added : SUBSET Codes]
         /\ \A q \in Procs \ {p} : Apart(held[p], held[q])
         /\ pc[p] = "idle" => held[p] = {} /\ past[p] = NoPast /\ call[p] = NoCall
         /\ PeopleInv /\ RowsInv
BY DEF OfficeInv, ProcInv, ShapeInv

LEMMA NothingSeen ==
  /\ Nothing \in Seen /\ Nothing.role = Keep /\ Nothing.name = Keep /\ Nothing.drop = {}
  /\ \A r \in RoleIds : [Nothing EXCEPT !.role = r] \in Seen /\ [Nothing EXCEPT !.role = r].role = r
  /\ \A n \in Nat : [Nothing EXCEPT !.try = n] \in Seen /\ [Nothing EXCEPT !.try = n].name = Keep
BY DEF Nothing, Seen

\* The first statement of a call finds what it needs.
LEMMA FirstOK ==
  ASSUME NEW c \in Request, NEW s \in Seen, s.name = Keep, NEW h, \A n : <<"name", n>> \notin h, NEW pa
  PROVE  LET w == FirstStatement(c)
         IN  /\ w \in Steps \ {"idle"}
             /\ ProgramOK(w, c, s) /\ NamesOK(w, c, s, h) /\ PastOK(w, c, s, pa)
<1> DEFINE w == FirstStatement(c)
<1>1. CASE c \in [kind : {"createRole"}, by : Admins, name : Names, codes : SUBSET Codes]
  <2>1. w = "createRole" /\ c.kind = "createRole"  BY <1>1 DEF FirstStatement
  <2> QED  BY <2>1 DEF Steps, ProgramOK, NamesOK, PastOK, Renaming
<1>2. CASE c \in [kind : {"updateRole"}, by : Admins, role : RoleIds, name : Names \cup {Keep},
                  replace : BOOLEAN, codes : SUBSET Codes]
  <2>1. w = "load" /\ c.kind = "updateRole"  BY <1>2 DEF FirstStatement
  <2> QED  BY <2>1 DEF Steps, ProgramOK, NamesOK, PastOK, Renaming
<1>3. CASE c \in [kind : {"updateAdmin"}, by : Admins, target : Admins, enabled : BOOLEAN \cup {Keep}, role : RoleIds]
  <2>1. w = "resolve" /\ c.kind = "updateAdmin" /\ c.role \in RoleIds
    BY <1>3, OfficeAssumption DEF FirstStatement
  <2> QED  BY <2>1 DEF Steps, ProgramOK, NamesOK, PastOK, Renaming
<1>4. CASE c \in [kind : {"updateAdmin"}, by : Admins, target : Admins, enabled : BOOLEAN, role : {Keep}]
  <2>1. w = "enable" /\ c.kind = "updateAdmin" /\ c.role = Keep /\ c.enabled \in BOOLEAN
    BY <1>4 DEF FirstStatement
  <2> QED  BY <2>1 DEF Steps, ProgramOK, NamesOK, PastOK, Renaming
<1>5. CASE c \in [kind : {"bootstrap"}, target : Admins, name : Names]
  <2>1. w = "byName" /\ c.kind = "bootstrap"  BY <1>5 DEF FirstStatement
  <2> QED  BY <2>1 DEF Steps, ProgramOK, NamesOK, PastOK, Renaming
<1>6. CASE c \in [kind : {"createTemplate"}, by : Admins]
  <2>1. w = "createTemplate" /\ c.kind = "createTemplate"  BY <1>6 DEF FirstStatement
  <2> QED  BY <2>1 DEF Steps, ProgramOK, NamesOK, PastOK, Renaming
<1>7. CASE c \in [kind : {"switch"}, by : Admins, template : Templates, status : {"active", "halted"}]
  <2>1. w = "switch" /\ c.kind = "switch"  BY <1>7 DEF FirstStatement
  <2> QED  BY <2>1 DEF Steps, ProgramOK, NamesOK, PastOK, Renaming
<1> QED  BY <1>1, <1>2, <1>3, <1>4, <1>5, <1>6, <1>7 DEF Request

-----------------------------------------------------------------------------
(* The statements that leave the roles alone *)

\* The tables stay.
LEMMA TablesStay ==
  ASSUME OfficeInv, UNCHANGED tables
  PROVE  UNCHANGED <<roles, grants>> /\ PeopleInv' /\ DOMAIN admins \subseteq DOMAIN admins'
BY DEF OfficeInv, PeopleInv, tables

LEMMA BeginOK == ASSUME OfficeInv, NEW p \in Procs, Begin(p)  PROVE OfficeInv'
<1>1. PICK c \in Calls :
        /\ c.kind # "bootstrap" /\ c.by \in DOMAIN admins
        /\ Serve(p, c, "gate", [Nothing EXCEPT !.role = admins[c.by].role])
        /\ past' = [past EXCEPT ![p].lawful = admins[c.by].role \in Holders(Required(c))]
  BY DEF Begin
<1> DEFINE r == admins[c.by].role
<1>2. r \in DOMAIN roles /\ DOMAIN roles \subseteq RoleIds
  BY <1>1, Facts DEF PeopleInv, RowsInv
<1>3. PICK lawful \in BOOLEAN : lawful = (r \in Holders(Required(c)))
  <2>1. (r \in Holders(Required(c))) \in BOOLEAN  OBVIOUS
  <2> QED  BY <2>1, Zenon
<1>4. lawful <=> Required(c) \in grants[r]
  BY <1>2, <1>3 DEF Holders
<1>5. UNCHANGED <<roles, grants>> /\ PeopleInv' /\ DOMAIN admins \subseteq DOMAIN admins'
  BY TablesStay DEF Begin
<1> DEFINE s == [Nothing EXCEPT !.role = r]
           pa == [past[p] EXCEPT !.lawful = lawful]
<1>6. s \in Seen /\ s.role = r
  BY <1>2, NothingSeen
<1>7. pc[p] = "idle" /\ held[p] = {} /\ past[p] \in [lawful : BOOLEAN, moved : SUBSET RoleIds, added : SUBSET Codes]
  BY <1>1, Facts DEF Serve
<1>8. pa \in [lawful : BOOLEAN, moved : SUBSET RoleIds, added : SUBSET Codes] /\ pa.lawful = lawful
  BY <1>7
<1>9. past' = [past EXCEPT ![p] = pa]
  BY <1>1, <1>3
<1>10. c \in Request  BY OfficeAssumption
<1>11. /\ call' = [call EXCEPT ![p] = c] /\ seen' = [seen EXCEPT ![p] = s] /\ UNCHANGED held
       /\ Goto(p, "gate")
  BY <1>1 DEF Serve
<1> HIDE DEF r, s, pa
<1>12. ProgramOK("gate", c, s) /\ NamesOK("gate", c, s, held[p]) /\ PastOK("gate", c, s, pa)
  BY <1>2, <1>4, <1>6, <1>7, <1>8, <1>10 DEF ProgramOK, NamesOK, PastOK, Renaming
<1>13. \A q \in Procs \ {p} : Apart(held[p], held[q])
  BY Facts
<1> QED  BY <1>5, <1>8, <1>9, <1>11, <1>12, <1>13, Moved DEF Steps

LEMMA BootstrapOK == ASSUME OfficeInv, NEW p \in Procs, Bootstrap(p)  PROVE OfficeInv'
<1>1. PICK c \in Calls : c.kind = "bootstrap" /\ Serve(p, c, FirstStatement(c), Nothing)
  BY DEF Bootstrap
<1>2. UNCHANGED <<roles, grants, past>> /\ PeopleInv' /\ DOMAIN admins \subseteq DOMAIN admins'
  BY TablesStay DEF Bootstrap, tables
<1>3. /\ pc[p] = "idle" /\ held[p] = {}
      /\ past[p] \in [lawful : BOOLEAN, moved : SUBSET RoleIds, added : SUBSET Codes]
      /\ \A q \in Procs \ {p} : Apart(held[p], held[q])
  BY <1>1, Facts DEF Serve
<1>4. /\ call' = [call EXCEPT ![p] = c] /\ seen' = [seen EXCEPT ![p] = Nothing] /\ UNCHANGED held
      /\ Goto(p, FirstStatement(c)) /\ c \in Request
  BY <1>1, OfficeAssumption DEF Serve
<1>5. /\ FirstStatement(c) \in Steps \ {"idle"} /\ ProgramOK(FirstStatement(c), c, Nothing)
      /\ NamesOK(FirstStatement(c), c, Nothing, held[p]) /\ PastOK(FirstStatement(c), c, Nothing, past[p])
  BY <1>3, <1>4, FirstOK, NothingSeen
<1> QED  BY <1>2, <1>3, <1>4, <1>5, Moved

LEMMA GateOK == ASSUME OfficeInv, NEW p \in Procs, Gate(p)  PROVE OfficeInv'
<1>1. UNCHANGED <<roles, grants>> /\ PeopleInv' /\ DOMAIN admins \subseteq DOMAIN admins'
  BY TablesStay DEF Gate
<1>2. CASE ~Drop(p)
  <2>1. /\ pc[p] = "gate" /\ Goto(p, FirstStatement(call[p]))
        /\ seen' = [seen EXCEPT ![p] = Nothing] /\ past' = [past EXCEPT ![p] = NoPast]
        /\ UNCHANGED <<call, held>>
    BY <1>2 DEF Gate
  <2>2. /\ call[p] \in Request /\ \A n : <<"name", n>> \notin held[p]
        /\ \A q \in Procs \ {p} : Apart(held[p], held[q])
    BY <2>1, Facts DEF ProgramOK, NamesOK, Renaming
  <2>3. NoPast \in [lawful : BOOLEAN, moved : SUBSET RoleIds, added : SUBSET Codes]
    BY DEF NoPast
  <2>4. /\ FirstStatement(call[p]) \in Steps \ {"idle"} /\ ProgramOK(FirstStatement(call[p]), call[p], Nothing)
        /\ NamesOK(FirstStatement(call[p]), call[p], Nothing, held[p])
        /\ PastOK(FirstStatement(call[p]), call[p], Nothing, NoPast)
    BY <2>2, FirstOK, NothingSeen
  <2> QED  BY <1>1, <2>1, <2>2, <2>3, <2>4, Moved
<1> QED  BY <1>1, <1>2, DropStep

\* RunTransaction starts again with nothing locked and nothing seen.
LEMMA VictimOK == ASSUME OfficeInv, NEW p \in Procs, Victim(p)  PROVE OfficeInv'
<1>1. UNCHANGED <<roles, grants>> /\ PeopleInv' /\ DOMAIN admins \subseteq DOMAIN admins'
  BY TablesStay DEF Victim
<1>2. CASE ~Drop(p)
  <2> DEFINE s == [Nothing EXCEPT !.try = seen[p].try + 1]
             w == FirstStatement(call[p])
  <2>1. /\ Goto(p, w) /\ held' = [held EXCEPT ![p] = {}]
        /\ seen' = [seen EXCEPT ![p] = s]
        /\ UNCHANGED <<call, past>>
    BY <1>2 DEF Victim
  <2>2. pc[p] # "idle"
    BY DEF Victim, InCycle, Waits, Wanted
  <2>3. call[p] \in Request /\ seen[p].try + 1 \in Nat
    BY <2>2, Facts DEF ProgramOK, Seen
  <2>4. s \in Seen /\ s.name = Keep  BY <2>3, NothingSeen
  <2> HIDE DEF s
  <2>5. w \in Steps \ {"idle"} /\ ProgramOK(w, call[p], s) /\ NamesOK(w, call[p], s, {}) /\ PastOK(w, call[p], s, past[p])
    BY <2>3, <2>4, FirstOK
  <2>6. \A q \in Procs \ {p} : Apart({}, held[q])  BY DEF Apart
  <2> HIDE DEF w
  <2> QED  BY <1>1, <2>1, <2>5, <2>6, Facts, Moved
<1> QED  BY <1>1, <1>2, DropStep

LEMMA CreateRoleOK == ASSUME OfficeInv, NEW p \in Procs, CreateRole(p)  PROVE OfficeInv'
<1> DEFINE name == call[p].name
<1>1. UNCHANGED <<roles, grants>> /\ PeopleInv' /\ DOMAIN admins \subseteq DOMAIN admins'
  BY TablesStay DEF CreateRole
<1>2. CASE ~Drop(p)
  <2>1. /\ pc[p] = "createRole" /\ Free(<<"name", name>>, p) /\ name \notin Taken
        /\ held' = [held EXCEPT ![p] = @ \cup {<<"name", name>>}] /\ Goto(p, "insert")
        /\ UNCHANGED <<call, seen, past>>
    BY <1>2 DEF CreateRole, Take
  <2> DEFINE h == held[p] \cup {<<"name", name>>}
  <2>2. held' = [held EXCEPT ![p] = h]
    BY <2>1 DEF OfficeInv, ShapeInv
  <2>3. ProgramOK("insert", call[p], seen[p])
    BY <2>1, Facts DEF ProgramOK
  <2>4. NamesOK("insert", call[p], seen[p], h)
    BY <2>1, Facts DEF NamesOK, Renaming
  <2>5. PastOK("insert", call[p], seen[p], past[p])
    BY DEF PastOK
  <2>6. \A q \in Procs \ {p} : Apart(h, held[q])
    BY <2>1, Facts DEF Apart, Free
  <2> HIDE DEF h
  <2> QED  BY <1>1, <2>1, <2>2, <2>3, <2>4, <2>5, <2>6, Facts, Moved DEF Steps
<1> QED  BY <1>1, <1>2, DropStep

LEMMA NotedDrop ==
  ASSUME NEW s \in Seen, NEW d \in SUBSET Codes
  PROVE  LET t == [s EXCEPT !["drop"] = d]
         IN  t \in Seen /\ t.drop = d /\ t.name = s.name /\ t.role = s.role
BY DEF Seen

LEMMA NotedName ==
  ASSUME NEW s \in Seen, NEW n \in Names
  PROVE  LET t == [s EXCEPT !["name"] = n]
         IN  t \in Seen /\ t.drop = s.drop /\ t.name = n /\ t.role = s.role
BY DEF Seen

LEMMA NotedRole ==
  ASSUME NEW s \in Seen, NEW r \in RoleIds
  PROVE  LET t == [s EXCEPT !["role"] = r]
         IN  t \in Seen /\ t.drop = s.drop /\ t.name = s.name /\ t.role = r
BY DEF Seen

LEMMA LoadRoleOK == ASSUME OfficeInv, NEW p \in Procs, LoadRole(p)  PROVE OfficeInv'
<1> DEFINE c == call[p]
           s == [seen[p] EXCEPT !["drop"] = grants[c.role]]
<1>1. UNCHANGED <<roles, grants>> /\ PeopleInv' /\ DOMAIN admins \subseteq DOMAIN admins'
  BY TablesStay DEF LoadRole
<1>2. CASE ~Drop(p)
  <2>1. PICK w \in {"rename", "snapshot", "commit"} :
          /\ pc[p] = "load" /\ Goto(p, w) /\ c.role \in DOMAIN roles
          /\ (w = "snapshot" => c.replace) /\ (w = "commit" => ~c.replace)
          /\ (w = "rename" => c.name # Keep)
          /\ seen' = [seen EXCEPT ![p] = s]
          /\ UNCHANGED <<call, held, past>>
    BY <1>2 DEF LoadRole, Note, OfficeInv, ShapeInv
  <2>2. c \in Request /\ seen[p] \in Seen /\ c.kind = "updateRole" /\ (w = "rename" => c.name \in Names)
    BY <2>1, Facts DEF ProgramOK, Request
  <2>3. grants[c.role] \in SUBSET Codes /\ seen[p].name = Keep
    BY <2>1, Facts DEF RowsInv, ProgramOK
  <2>4. s \in Seen /\ s.name = Keep
    BY <2>2, <2>3, NotedDrop
  <2> HIDE DEF s
  <2>5. ProgramOK(w, c, s) /\ NamesOK(w, c, s, held[p]) /\ PastOK(w, c, s, past[p])
    BY <2>1, <2>2, <2>4, Facts DEF ProgramOK, NamesOK, PastOK, Renaming
  <2>6. w \in Steps /\ w # "idle"  BY DEF Steps
  <2> QED  BY <1>1, <2>1, <2>5, <2>6, Facts, Moved
<1> QED  BY <1>1, <1>2, DropStep

\* Whoever holds the name that role r has is renaming r, and has locked it.
LEMMA NameHolder ==
  ASSUME OfficeInv, NEW q \in Procs, NEW r \in DOMAIN roles, <<"name", roles[r]>> \in held[q]
  PROVE  <<"role", r>> \in held[q]
<1>1. ~(pc[q] = "insert" /\ roles[r] = call[q].name)
  BY Facts DEF NamesOK, Taken
<1>2. Renaming(pc[q], seen[q]) /\ roles[r] \in {seen[q].name, roles[call[q].role]}
  BY <1>1, Facts DEF NamesOK
<1>3. call[q].role \in DOMAIN roles
  BY <1>2, Facts DEF ProgramOK, Renaming
<1>4. r = call[q].role
  BY <1>2, <1>3, Facts DEF NamesOK, RowsInv
<1> QED  BY <1>2, <1>4, Facts DEF NamesOK

LEMMA RenameOK == ASSUME OfficeInv, NEW p \in Procs, Rename(p)  PROVE OfficeInv'
<1> DEFINE r == call[p].role
           name == call[p].name
           s == [seen[p] EXCEPT !["name"] = name]
           h == held[p] \cup {<<"role", r>>, <<"name", name>>, <<"name", roles[r]>>}
<1>1. UNCHANGED <<roles, grants>> /\ PeopleInv' /\ DOMAIN admins \subseteq DOMAIN admins'
  BY TablesStay DEF Rename
<1>2. CASE ~Drop(p)
  <2>1. PICK w \in {"snapshot", "commit"} :
          /\ pc[p] = "rename" /\ Goto(p, w)
          /\ (w = "snapshot" => call[p].replace) /\ (w = "commit" => ~call[p].replace)
          /\ AllFree(p, {<<"role", r>>, <<"share", r>>, <<"name", name>>})
          /\ ~\E t \in DOMAIN roles \ {r} : roles[t] = name
          /\ seen' = [seen EXCEPT ![p] = s] /\ held' = [held EXCEPT ![p] = h]
          /\ UNCHANGED <<call, past>>
    BY <1>2 DEF Rename, Note, Take, OfficeInv, ShapeInv
  <2>2. /\ call[p] \in Request /\ seen[p] \in Seen /\ call[p].kind = "updateRole" /\ r \in DOMAIN roles
    BY <2>1, Facts DEF ProgramOK
  <2>3. name \in Names /\ name # Keep
    BY <2>1, Facts, OfficeAssumption DEF ProgramOK
  <2>4. s \in Seen /\ s.name = name
    BY <2>2, <2>3, NotedName
  <2>5. \A n : <<"name", n>> \notin held[p]
    BY <2>1, Facts DEF NamesOK, Renaming
  <2>6. \A q \in Procs \ {p} : Apart(h, held[q])
    <3> SUFFICES ASSUME NEW q \in Procs \ {p}  PROVE Apart(h, held[q])
      OBVIOUS
    <3>1. <<"role", r>> \notin held[q] /\ <<"name", name>> \notin held[q]
      BY <2>1 DEF AllFree, Free
    <3>2. <<"name", roles[r]>> \notin held[q]
      BY <2>2, <3>1, NameHolder
    <3> QED  BY <3>1, <3>2, Facts DEF Apart
  <2> HIDE DEF s
  <2>7. NamesOK(w, call[p], s, h)
    <3>1. \A n : <<"name", n>> \in h => n \in {name, roles[r]}
      BY <2>5
    <3> QED  BY <2>1, <2>3, <2>4, <3>1 DEF NamesOK, Renaming
  <2>8. ProgramOK(w, call[p], s)
    BY <2>1, <2>2, <2>4 DEF ProgramOK
  <2>9. PastOK(w, call[p], s, past[p])
    BY <2>1, <2>2 DEF PastOK
  <2>10. w \in Steps /\ w # "idle"  BY DEF Steps
  <2> HIDE DEF h
  <2> QED  BY <1>1, <2>1, <2>6, <2>7, <2>8, <2>9, <2>10, Facts, Moved
<1> QED  BY <1>1, <1>2, DropStep

\* The names of a renaming process stay, whatever else it locks.
LEMMA NamesStay ==
  ASSUME NEW w, NEW v, NEW c, NEW s, NEW t, NEW h, NEW i, NamesOK(w, c, s, h), t.name = s.name,
         w \in {"snapshot", "delete", "plant"}, v \in {"delete", "plant", "commit"},
         \A n : <<"name", n>> \in i <=> <<"name", n>> \in h,
         \A r : <<"role", r>> \in h => <<"role", r>> \in i
  PROVE  NamesOK(v, c, t, i)
BY DEF NamesOK, Renaming

LEMMA SnapshotOK == ASSUME OfficeInv, NEW p \in Procs, Snapshot(p)  PROVE OfficeInv'
<1> DEFINE c == call[p]
           s == [seen[p] EXCEPT !["drop"] = grants[c.role]]
           pa == [past[p] EXCEPT !.added = {}]
<1>1. UNCHANGED <<roles, grants>> /\ PeopleInv' /\ DOMAIN admins \subseteq DOMAIN admins'
  BY TablesStay DEF Snapshot
<1>2. /\ pc[p] = "snapshot" /\ Goto(p, "delete") /\ UNCHANGED <<call, held>>
      /\ seen' = [seen EXCEPT ![p] = s] /\ past' = [past EXCEPT ![p] = pa]
  BY DEF Snapshot, Note, OfficeInv, ShapeInv
<1>3. /\ c \in Request /\ seen[p] \in Seen /\ c.kind = "updateRole" /\ c.role \in DOMAIN roles /\ c.replace
      /\ grants[c.role] \in SUBSET Codes
  BY <1>2, Facts DEF ProgramOK, RowsInv
<1>4. s \in Seen /\ s.name = seen[p].name /\ s.drop = grants[c.role]
  BY <1>3, NotedDrop
<1>5. pa \in [lawful : BOOLEAN, moved : SUBSET RoleIds, added : SUBSET Codes] /\ pa.added = {}
  BY Facts
<1> HIDE DEF s, pa
<1>6. ProgramOK("delete", c, s) /\ NamesOK("delete", c, s, held[p]) /\ PastOK("delete", c, s, pa)
  <2>1. NamesOK("delete", c, s, held[p])
    <3>1. NamesOK("snapshot", c, seen[p], held[p])  BY <1>2, Facts
    <3> HIDE DEF c
    <3> QED  BY <1>4, <3>1, NamesStay
  <2>2. ProgramOK("delete", c, s)  BY <1>3, <1>4 DEF ProgramOK
  <2>3. PastOK("delete", c, s, pa)  BY <1>3, <1>4 DEF PastOK
  <2> QED  BY <2>1, <2>2, <2>3
<1>7. "delete" \in Steps  BY DEF Steps
<1> QED  BY <1>1, <1>2, <1>5, <1>6, <1>7, Facts, Moved

LEMMA DeleteOK == ASSUME OfficeInv, NEW p \in Procs, Delete(p)  PROVE OfficeInv'
<1> DEFINE c == call[p]
           rows == seen[p].drop \cap grants[c.role]
           s == [seen[p] EXCEPT !["drop"] = rows]
           h == held[p] \cup Grants(c.role, rows)
<1>1. UNCHANGED <<roles, grants>> /\ PeopleInv' /\ DOMAIN admins \subseteq DOMAIN admins'
  BY TablesStay DEF Delete
<1>2. /\ pc[p] = "delete" /\ Goto(p, "plant") /\ UNCHANGED <<call, past>>
      /\ seen' = [seen EXCEPT ![p] = s] /\ held' = [held EXCEPT ![p] = h]
  BY DEF Delete, Note, Take, OfficeInv, ShapeInv
<1>3. /\ c \in Request /\ seen[p] \in Seen /\ c.kind = "updateRole" /\ c.role \in DOMAIN roles /\ c.replace
  BY <1>2, Facts DEF ProgramOK
<1>4. rows \in SUBSET Codes /\ grants[c.role] \ rows = grants[c.role] \ seen[p].drop
  BY <1>3 DEF Seen
<1>5. s \in Seen /\ s.name = seen[p].name /\ s.drop = rows
  BY <1>3, <1>4, NotedDrop
<1>6. \A n : (<<"name", n>> \in h <=> <<"name", n>> \in held[p]) /\ (<<"role", n>> \in h <=> <<"role", n>> \in held[p])
  BY DEF Grants
<1>7. \A q \in Procs \ {p} : Apart(h, held[q])
  BY <1>6, Facts DEF Apart
<1> HIDE DEF s, h
<1>8. ProgramOK("plant", c, s)
  BY <1>2, <1>3, <1>5, Facts DEF ProgramOK
<1>9. NamesOK("plant", c, s, h)
  <2>1. NamesOK("delete", c, seen[p], held[p])  BY <1>2, Facts
  <2> HIDE DEF c
  <2> QED  BY <1>5, <1>6, <2>1, NamesStay
<1>10. PastOK("plant", c, s, past[p])
  BY <1>2, <1>3, <1>4, <1>5, Facts DEF PastOK
<1>11. "plant" \in Steps  BY DEF Steps
<1> QED  BY <1>1, <1>2, <1>7, <1>8, <1>9, <1>10, <1>11, Facts, Moved

LEMMA PlantOK == ASSUME OfficeInv, NEW p \in Procs, Plant(p)  PROVE OfficeInv'
<1> DEFINE c == call[p]
<1>1. UNCHANGED <<roles, grants>> /\ PeopleInv' /\ DOMAIN admins \subseteq DOMAIN admins'
  BY TablesStay DEF Plant
<1>2. CASE ~Drop(p)
  <2>1. PICK rows \in {{}, Grants(c.role, c.codes) \cup {<<"share", c.role>>}} :
          /\ pc[p] = "plant" /\ Goto(p, "commit") /\ UNCHANGED <<call, seen, past>>
          /\ held' = [held EXCEPT ![p] = held[p] \cup rows]
    <3>1. CASE c.codes = {}
      <4>1. held' = [held EXCEPT ![p] = held[p] \cup {}]
        BY <1>2, <3>1 DEF Plant, OfficeInv, ShapeInv
      <4> QED  BY <1>2, <3>1, <4>1 DEF Plant
    <3>2. CASE c.codes # {}
      <4>1. held' = [held EXCEPT ![p] = held[p] \cup (Grants(c.role, c.codes) \cup {<<"share", c.role>>})]
        BY <1>2, <3>2 DEF Plant, Take, OfficeInv, ShapeInv
      <4> QED  BY <1>2, <3>2, <4>1 DEF Plant
    <3> QED  BY <3>1, <3>2
  <2> DEFINE h == held[p] \cup rows
  <2>2. /\ c \in Request /\ seen[p] \in Seen /\ c.kind = "updateRole" /\ c.role \in DOMAIN roles /\ c.replace
    BY <2>1, Facts DEF ProgramOK
  <2>3. \A n : (<<"name", n>> \in h <=> <<"name", n>> \in held[p]) /\ (<<"role", n>> \in h <=> <<"role", n>> \in held[p])
    BY <2>1 DEF Grants
  <2>4. \A q \in Procs \ {p} : Apart(h, held[q])
    BY <2>3, Facts DEF Apart
  <2> HIDE DEF h
  <2>5. ProgramOK("commit", c, seen[p]) /\ NamesOK("commit", c, seen[p], h) /\ PastOK("commit", c, seen[p], past[p])
    <3>1. NamesOK("commit", c, seen[p], h)
      <4>1. NamesOK("plant", c, seen[p], held[p])  BY <2>1, Facts
      <4> HIDE DEF c
      <4> QED  BY <2>3, <4>1, NamesStay
    <3>2. ProgramOK("commit", c, seen[p])  BY <2>2 DEF ProgramOK
    <3>3. PastOK("commit", c, seen[p], past[p])  BY <2>1, <2>2, Facts DEF PastOK
    <3> QED  BY <3>1, <3>2, <3>3
  <2>6. "commit" \in Steps  BY DEF Steps
  <2> QED  BY <1>1, <2>1, <2>4, <2>5, <2>6, Facts, Moved DEF h
<1> QED  BY <1>1, <1>2, DropStep

LEMMA ResolveOK == ASSUME OfficeInv, NEW p \in Procs, Resolve(p)  PROVE OfficeInv'
<1> DEFINE c == call[p]
           s == [seen[p] EXCEPT !["name"] = roles[c.role]]
           pa == [past[p] EXCEPT !.moved = {}]
<1>1. UNCHANGED <<roles, grants>> /\ PeopleInv' /\ DOMAIN admins \subseteq DOMAIN admins'
  BY TablesStay DEF Resolve
<1>2. CASE ~Drop(p)
  <2>1. PICK w \in {"byName", "enable"} :
          /\ pc[p] = "resolve" /\ Goto(p, w) /\ UNCHANGED <<call, held>> /\ c.role \in DOMAIN roles
          /\ w = "enable" => c.enabled # Keep
          /\ seen' = [seen EXCEPT ![p] = s] /\ past' = [past EXCEPT ![p] = pa]
    BY <1>2 DEF Resolve, Note, OfficeInv, ShapeInv
  <2>2. c \in Request /\ seen[p] \in Seen /\ c.kind = "updateAdmin" /\ roles[c.role] \in Names
    BY <2>1, Facts DEF ProgramOK, RowsInv
  <2>3. w = "enable" => c.enabled \in BOOLEAN
    BY <2>1, <2>2 DEF Request
  <2>4. s \in Seen /\ s.name = roles[c.role]
    BY <2>2, NotedName
  <2>5. pa \in [lawful : BOOLEAN, moved : SUBSET RoleIds, added : SUBSET Codes]
    BY Facts
  <2> HIDE DEF s, pa
  <2>6. ProgramOK(w, c, s)
    BY <2>2, <2>3, <2>4 DEF ProgramOK
  <2>7. NamesOK(w, c, s, held[p])
    BY <2>1, Facts DEF NamesOK, Renaming
  <2>8. PastOK(w, c, s, pa)
    BY <2>1, <2>4 DEF PastOK
  <2>9. w \in Steps /\ w # "idle"  BY DEF Steps
  <2> QED  BY <1>1, <2>1, <2>5, <2>6, <2>7, <2>8, <2>9, Facts, Moved
<1> QED  BY <1>1, <1>2, DropStep

\* An administrator's row changes, or is new.
LEMMA PeopleChange ==
  ASSUME OfficeInv, NEW a \in Admins, NEW on \in BOOLEAN, NEW r \in DOMAIN roles,
         admins' = [b \in DOMAIN admins \cup {a} |-> IF b = a THEN [on |-> on, role |-> r] ELSE admins[b]],
         UNCHANGED <<roles, grants, templates>>
  PROVE  PeopleInv' /\ DOMAIN admins \subseteq DOMAIN admins'
<1>1. [on |-> on, role |-> r] \in [on : BOOLEAN, role : DOMAIN roles]
  OBVIOUS
<1> QED  BY <1>1 DEF OfficeInv, PeopleInv

\* Both rows are records, so a change of a column is a row.
LEMMA RowOf ==
  ASSUME OfficeInv, NEW a \in DOMAIN admins
  PROVE  /\ admins[a].on \in BOOLEAN /\ admins[a].role \in DOMAIN roles /\ a \in Admins
         /\ \A on \in BOOLEAN : [admins[a] EXCEPT !.on = on] = [on |-> on, role |-> admins[a].role]
         /\ \A r : [admins[a] EXCEPT !.role = r] = [on |-> admins[a].on, role |-> r]
BY DEF OfficeInv, PeopleInv

LEMMA Replaced ==
  ASSUME OfficeInv, NEW a \in DOMAIN admins, NEW v
  PROVE  [admins EXCEPT ![a] = v] = [b \in DOMAIN admins \cup {a} |-> IF b = a THEN v ELSE admins[b]]
BY DEF OfficeInv, PeopleInv

LEMMA EnableOK == ASSUME OfficeInv, NEW p \in Procs, Enable(p)  PROVE OfficeInv'
<1> DEFINE c == call[p]
<1>1. /\ pc[p] = "enable" /\ c \in Request /\ c.kind = "updateAdmin" /\ c.enabled \in BOOLEAN
      /\ UNCHANGED <<roles, grants, templates>>
  BY Facts DEF Enable, ProgramOK
<1>2. PeopleInv' /\ DOMAIN admins \subseteq DOMAIN admins'
  <2>1. CASE Present(p)
    <3> DEFINE a == c.target
    <3>1. a \in DOMAIN admins /\ admins' = [admins EXCEPT ![a].on = c.enabled]
      BY <2>1 DEF Enable, Present
    <3> HIDE DEF a
    <3>2. PICK on \in BOOLEAN : on = c.enabled
      BY <1>1
    <3>3. admins' = [b \in DOMAIN admins \cup {a} |->
                       IF b = a THEN [on |-> on, role |-> admins[a].role] ELSE admins[b]]
      <4>1. admins' = [admins EXCEPT ![a] = [admins[a] EXCEPT !.on = on]]
        BY <3>1, <3>2
      <4>2. [admins[a] EXCEPT !.on = on] = [on |-> on, role |-> admins[a].role]
        BY <3>1, RowOf
      <4> QED  BY <3>1, <4>1, <4>2, Replaced
    <3> QED  BY <1>1, <3>1, <3>3, RowOf, PeopleChange
  <2>2. CASE ~Present(p)
    <3>1. UNCHANGED tables  BY <1>1, <2>2 DEF Enable, tables
    <3> QED  BY <3>1, TablesStay
  <2> QED  BY <2>1, <2>2
<1>3. CASE ~Drop(p)
  <2>1. Goto(p, "byName") /\ UNCHANGED <<call, seen, held, past>> /\ c.role # Keep
    BY <1>3 DEF Enable
  <2>2. ProgramOK("byName", c, seen[p]) /\ NamesOK("byName", c, seen[p], held[p])
    BY <1>1, Facts DEF ProgramOK, NamesOK, Renaming
  <2>3. PastOK("byName", c, seen[p], past[p])
    BY <1>1, <2>1, Facts DEF PastOK
  <2>4. "byName" \in Steps  BY DEF Steps
  <2> QED  BY <1>1, <1>2, <2>1, <2>2, <2>3, <2>4, Facts, Moved
<1> QED  BY <1>1, <1>2, <1>3, DropStep

LEMMA ByNameOK == ASSUME OfficeInv, NEW p \in Procs, ByName(p)  PROVE OfficeInv'
<1> DEFINE c == call[p]
<1>1. UNCHANGED <<roles, grants>> /\ PeopleInv' /\ DOMAIN admins \subseteq DOMAIN admins'
  BY TablesStay DEF ByName
<1>2. CASE ~Drop(p)
  <2>1. PICK r \in Named(IF c.kind = "bootstrap" THEN c.name ELSE seen[p].name) : Note(p, "role", r)
    BY <1>2 DEF ByName
  <2> DEFINE s == [seen[p] EXCEPT !["role"] = r]
             w == IF c.kind = "bootstrap" THEN "insertAdmin" ELSE "assign"
  <2>2. /\ pc[p] = "byName" /\ Goto(p, w) /\ UNCHANGED <<call, held, past>>
        /\ c.kind = "updateAdmin" => Present(p)
    BY <1>2 DEF ByName
  <2>3. seen' = [seen EXCEPT ![p] = s]
    BY <2>1 DEF Note, OfficeInv, ShapeInv
  <2>4. c \in Request /\ seen[p] \in Seen /\ c.kind \in {"updateAdmin", "bootstrap"}
    BY <2>2, Facts DEF ProgramOK
  <2>5. r \in DOMAIN roles /\ r \in RoleIds /\ roles[r] = IF c.kind = "bootstrap" THEN c.name ELSE seen[p].name
    BY <2>1, Facts DEF Named, RowsInv
  <2>6. s \in Seen /\ s.role = r
    BY <2>4, <2>5, NotedRole
  <2> HIDE DEF s
  <2>7. ProgramOK(w, c, s)
    BY <2>2, <2>4, <2>5, <2>6 DEF ProgramOK, Present
  <2>8. NamesOK(w, c, s, held[p])
    BY <2>2, Facts DEF NamesOK, Renaming
  <2>9. PastOK(w, c, s, past[p])
    BY <2>2, <2>4, <2>5, <2>6, Facts DEF PastOK, RowsInv
  <2>10. w \in Steps /\ w # "idle"  BY DEF Steps
  <2> HIDE DEF w
  <2> QED  BY <1>1, <2>2, <2>3, <2>7, <2>8, <2>9, <2>10, Facts, Moved
<1> QED  BY <1>1, <1>2, DropStep

LEMMA AssignRoleOK == ASSUME OfficeInv, NEW p \in Procs, AssignRole(p)  PROVE OfficeInv'
<1> DEFINE a == call[p].target
<1>1. /\ Drop(p) /\ UNCHANGED <<roles, grants, templates>> /\ a \in DOMAIN admins
      /\ admins' = [admins EXCEPT ![a].role = seen[p].role] /\ seen[p].role \in DOMAIN roles
  BY Facts DEF AssignRole, ProgramOK
<1> HIDE DEF a
<1>2. PICK r \in DOMAIN roles : r = seen[p].role
  BY <1>1
<1>3. admins' = [b \in DOMAIN admins \cup {a} |-> IF b = a THEN [on |-> admins[a].on, role |-> r] ELSE admins[b]]
  <2>1. admins' = [admins EXCEPT ![a] = [admins[a] EXCEPT !.role = r]]
    BY <1>1, <1>2
  <2>2. [admins[a] EXCEPT !.role = r] = [on |-> admins[a].on, role |-> r]
    BY <1>1, RowOf
  <2> QED  BY <1>1, <2>1, <2>2, Replaced
<1>4. PeopleInv' /\ DOMAIN admins \subseteq DOMAIN admins'
  BY <1>1, <1>3, RowOf, PeopleChange
<1> QED  BY <1>1, <1>4, DropStep

LEMMA InsertAdminOK == ASSUME OfficeInv, NEW p \in Procs, InsertAdmin(p)  PROVE OfficeInv'
<1>1. Drop(p) /\ UNCHANGED <<roles, grants, templates>>
  BY DEF InsertAdmin
<1>2. CASE Present(p)
  <2>1. UNCHANGED tables  BY <1>1, <1>2 DEF InsertAdmin, tables
  <2> QED  BY <1>1, <2>1, TablesStay, DropStep
<1>3. CASE ~Present(p)
  <2>1. call[p].target \in Admins /\ seen[p].role \in DOMAIN roles
    BY Facts DEF InsertAdmin, ProgramOK, Request
  <2>2. PICK on \in BOOLEAN : on = TRUE
    OBVIOUS
  <2>3. admins' = [b \in DOMAIN admins \cup {call[p].target} |->
                     IF b = call[p].target THEN [on |-> on, role |-> seen[p].role] ELSE admins[b]]
    BY <1>3, <2>2 DEF InsertAdmin
  <2> QED  BY <1>1, <2>1, <2>3, PeopleChange, DropStep
<1> QED  BY <1>2, <1>3

LEMMA TemplatesOK ==
  ASSUME OfficeInv, NEW p \in Procs, CreateTemplate(p) \/ Switch(p)  PROVE OfficeInv'
<1>1. Drop(p) /\ UNCHANGED <<admins, roles, grants>>
  BY DEF CreateTemplate, Switch
<1>2. CASE CreateTemplate(p)
  <2>1. PICK t \in Templates :
          templates' = [u \in DOMAIN templates \cup {t} |-> IF u = t THEN "active" ELSE templates[u]]
    BY <1>2 DEF CreateTemplate
  <2>2. PeopleInv'  BY <1>1, <2>1 DEF OfficeInv, PeopleInv
  <2> QED  BY <1>1, <2>2, DropStep
<1>3. CASE Switch(p)
  <2>1. call[p].status \in {"active", "halted"}
    BY <1>3, Facts DEF Switch, ProgramOK, Request
  <2>2. templates' = [t \in DOMAIN templates |-> IF t = call[p].template THEN call[p].status ELSE templates[t]]
    BY <1>3 DEF Switch
  <2>3. PeopleInv'  BY <1>1, <2>1, <2>2 DEF OfficeInv, PeopleInv
  <2> QED  BY <1>1, <2>3, DropStep
<1> QED  BY <1>2, <1>3

-----------------------------------------------------------------------------
(* The commits that change the roles *)

\* What q remembers when p leaves role r with `codes', of which it inserted `new'.
Remembers(p, q, r, codes, new) ==
  /\ past[q].lawful => past'[q].lawful
  /\ pc[q] = "gate" /\ seen[q].role = r /\ Required(call[q]) \in codes => past'[q].lawful
  /\ past[q].moved \subseteq past'[q].moved
  /\ call[q].kind = "updateAdmin" /\ call[q].role = r /\ seen[p].name # Keep => r \in past'[q].moved
  /\ past[q].added \subseteq past'[q].added
  /\ pc[q] \in {"delete", "plant", "commit"} /\ call[q].role = r => new \subseteq past'[q].added
  /\ pc[q] = "idle" /\ call[q] = NoCall => past'[q] = past[q]

LEMMA WitnessOf ==
  ASSUME OfficeInv, NEW p \in Procs, NEW r \in RoleIds, NEW codes \in SUBSET Codes, NEW new \in SUBSET Codes,
         Witness(p, r, codes, new)
  PROVE  /\ past' \in [Procs -> [lawful : BOOLEAN, moved : SUBSET RoleIds, added : SUBSET Codes]]
         /\ past'[p] = NoPast
         /\ \A q \in Procs \ {p} : Remembers(p, q, r, codes, new)
<1> DEFINE Past == [lawful : BOOLEAN, moved : SUBSET RoleIds, added : SUBSET Codes]
           Lawful(q) == past[q].lawful \/ (pc[q] = "gate" /\ seen[q].role = r /\ Required(call[q]) \in codes)
           MovedTo(q) == IF call[q].kind = "updateAdmin" /\ call[q].role = r /\ seen[p].name # Keep
                         THEN past[q].moved \cup {r} ELSE past[q].moved
           Added(q) == IF pc[q] \in {"delete", "plant", "commit"} /\ call[q].role = r
                       THEN past[q].added \cup new ELSE past[q].added
<1>1. ASSUME NEW q \in Procs \ {p}
      PROVE  /\ past'[q] = [past[q] EXCEPT !.lawful = Lawful(q), !.moved = MovedTo(q), !.added = Added(q)]
             /\ past[q] \in Past
  BY DEF Witness, OfficeInv, ShapeInv
<1>2. past'[p] = NoPast /\ NoPast \in Past /\ past' = [q \in Procs |-> past'[q]]
  BY DEF Witness, NoPast
<1>3. ASSUME NEW q \in Procs \ {p}
      PROVE  /\ past'[q] \in Past /\ (past'[q].lawful <=> Lawful(q))
             /\ past'[q].moved = MovedTo(q) /\ past'[q].added = Added(q)
  <2>1. PICK lawful \in BOOLEAN : lawful = Lawful(q)
    <3>1. Lawful(q) \in BOOLEAN  OBVIOUS
    <3> QED  BY <3>1, Zenon
  <2>2. MovedTo(q) \in SUBSET RoleIds /\ Added(q) \in SUBSET Codes
    BY <1>1
  <2>3. past'[q] = [past[q] EXCEPT !.lawful = lawful, !.moved = MovedTo(q), !.added = Added(q)]
    BY <1>1, <2>1
  <2> HIDE DEF Lawful, MovedTo, Added
  <2>4. past'[q] = [lawful |-> lawful, moved |-> MovedTo(q), added |-> Added(q)]
    BY <1>1, <2>3
  <2> QED  BY <2>1, <2>2, <2>4
<1>4. past' \in [Procs -> Past]
  <2>1. \A q \in Procs : past'[q] \in Past  BY <1>2, <1>3
  <2> QED  BY <1>2, <2>1
<1>5. ASSUME NEW q \in Procs \ {p}  PROVE Remembers(p, q, r, codes, new)
  <2>1. past[q] \in Past /\ past'[q] \in Past  BY <1>1, <1>3
  <2>2. past[q].lawful => past'[q].lawful  BY <1>3
  <2>3. pc[q] = "gate" /\ seen[q].role = r /\ Required(call[q]) \in codes => past'[q].lawful  BY <1>3
  <2>4. ASSUME pc[q] = "idle", call[q] = NoCall  PROVE past'[q] = past[q]
    <3>1. past'[q].moved = past[q].moved /\ past'[q].added = past[q].added
      <4>1. call[q].kind # "updateAdmin"  BY <2>4 DEF NoCall
      <4> QED  BY <1>3, <2>4, <4>1
    <3>2. past'[q].lawful = past[q].lawful
      <4>1. past'[q].lawful <=> past[q].lawful  BY <1>3, <2>4
      <4>2. past'[q].lawful \in BOOLEAN /\ past[q].lawful \in BOOLEAN  BY <2>1
      <4> QED  BY <4>1, <4>2
    <3>3. /\ past[q] = [lawful |-> past[q].lawful, moved |-> past[q].moved, added |-> past[q].added]
          /\ past'[q] = [lawful |-> past'[q].lawful, moved |-> past'[q].moved, added |-> past'[q].added]
      BY <2>1
    <3> QED  BY <3>1, <3>2, <3>3
  <2> HIDE DEF Past, Lawful
  <2> QED  BY <1>3, <2>2, <2>3, <2>4 DEF Remembers
<1> QED  BY <1>2, <1>4, <1>5

LEMMA RolesStep ==
  ASSUME OfficeInv, NEW p \in Procs, NEW r \in RoleIds, NEW name \in Names,
         NEW codes \in SUBSET Codes, NEW new \in SUBSET Codes,
         roles' = [s \in DOMAIN roles \cup {r} |-> IF s = r THEN name ELSE roles[s]],
         grants' = [grants EXCEPT ![r] = codes],
         Witness(p, r, codes, new), End(p), UNCHANGED <<admins, templates>>,
         \A s \in DOMAIN roles \ {r} : roles[s] # name,
         \/ r \in DOMAIN roles /\ name = roles[r]
         \/ /\ \A q \in Procs \ {p} : <<"name", name>> \notin held[q]
            /\ r \in DOMAIN roles => \A q \in Procs \ {p} : <<"role", r>> \notin held[q]
            /\ r \in DOMAIN roles => seen[p].name # Keep,
         r \in DOMAIN roles => codes \subseteq grants[r] \cup new
  PROVE  OfficeInv'
<1>0. \A q \in Procs \ {p} : Remembers(p, q, r, codes, new)
  BY WitnessOf
<1>1. /\ DOMAIN roles' = DOMAIN roles \cup {r} /\ DOMAIN roles \subseteq RoleIds
      /\ \A s \in DOMAIN roles \ {r} : roles'[s] = roles[s]
      /\ roles'[r] = name
  BY DEF OfficeInv, RowsInv
<1>2. RowsInv'
  BY DEF OfficeInv, RowsInv
<1>3. PeopleInv'
  BY <1>1 DEF OfficeInv, PeopleInv
<1>4. /\ pc'[p] = "idle" /\ call'[p] = NoCall /\ seen'[p] = NoCall /\ held'[p] = {}
      /\ \A q \in Procs \ {p} : pc'[q] = pc[q] /\ call'[q] = call[q] /\ seen'[q] = seen[q] /\ held'[q] = held[q]
  BY DEF End, Goto, OfficeInv, ShapeInv
<1>5. ShapeInv'
  <2>1. pc' \in [Procs -> Steps]  BY DEF End, Goto, Steps, OfficeInv, ShapeInv
  <2>2. /\ call' = [q \in Procs |-> call'[q]] /\ seen' = [q \in Procs |-> seen'[q]]
        /\ held' = [q \in Procs |-> held'[q]]
    BY DEF End, OfficeInv, ShapeInv
  <2> QED  BY <2>1, <2>2, WitnessOf DEF ShapeInv
<1>6. ProcInv(p)'
  <2>1. past'[p] = NoPast  BY WitnessOf
  <2> QED  BY <1>4, <2>1 DEF ProcInv, ProgramOK, NamesOK, PastOK, Renaming, NoCall
<1>7. ASSUME NEW q \in Procs \ {p}  PROVE ProcInv(q)'
  <2>1. ProgramOK(pc[q], call[q], seen[q]) /\ NamesOK(pc[q], call[q], seen[q], held[q])
        /\ PastOK(pc[q], call[q], seen[q], past[q]) /\ (pc[q] = "idle" => held[q] = {} /\ past[q] = NoPast /\ call[q] = NoCall)
    BY Facts
  <2>2. ProgramOK(pc[q], call[q], seen[q])'
    BY <1>1, <1>4, <2>1 DEF ProgramOK
  <2>3. NamesOK(pc[q], call[q], seen[q], held[q])'
    <3>1. CASE r \in DOMAIN roles /\ name = roles[r]
      <4>1. \A s \in DOMAIN roles : roles'[s] = roles[s]  BY <1>1, <3>1
      <4>2. DOMAIN roles' = DOMAIN roles  BY <1>1, <3>1
      <4>3. Taken' = Taken  BY <4>1, <4>2 DEF Taken
      <4>4. Renaming(pc[q], seen[q]) => call[q].role \in DOMAIN roles
        BY <2>1 DEF ProgramOK, Renaming
      <4> QED  BY <1>4, <2>1, <4>1, <4>2, <4>3, <4>4 DEF NamesOK, Renaming
    <3>2. CASE /\ <<"name", name>> \notin held[q]
               /\ r \in DOMAIN roles => <<"role", r>> \notin held[q]
      <4>1. Taken' \subseteq Taken \cup {name}
        BY <1>1 DEF Taken
      <4>2. ASSUME Renaming(pc[q], seen[q])
            PROVE  /\ call[q].role \in DOMAIN roles \ {r} /\ name # seen[q].name
                   /\ roles'[call[q].role] = roles[call[q].role]
        <5>1. call[q].role \in DOMAIN roles
          BY <2>1, <4>2 DEF ProgramOK, Renaming
        <5>2. <<"role", call[q].role>> \in held[q] /\ <<"name", seen[q].name>> \in held[q]
          BY <2>1, <4>2 DEF NamesOK
        <5> QED  BY <1>1, <3>2, <5>1, <5>2
      <4>3. pc[q] = "insert" => call[q].name \notin Taken'
        BY <2>1, <3>2, <4>1 DEF NamesOK
      <4>4. Renaming(pc[q], seen[q]) =>
              /\ {<<"role", call[q].role>>, <<"name", seen[q].name>>, <<"name", roles'[call[q].role]>>} \subseteq held[q]
              /\ \A s \in DOMAIN roles' \ {call[q].role} : roles'[s] # seen[q].name
        BY <1>1, <2>1, <4>2 DEF NamesOK
      <4>5. \A n : <<"name", n>> \in held[q] =>
              \/ pc[q] = "insert" /\ n = call[q].name
              \/ Renaming(pc[q], seen[q]) /\ n \in {seen[q].name, roles'[call[q].role]}
        BY <2>1, <4>2 DEF NamesOK
      <4>6. pc[q] = "insert" => <<"name", call[q].name>> \in held[q]
        BY <2>1 DEF NamesOK
      <4>7. /\ pc'[q] = pc[q] /\ call'[q] = call[q] /\ seen'[q] = seen[q] /\ held'[q] = held[q]
            /\ Renaming(pc[q], seen[q])' <=> Renaming(pc[q], seen[q])
        BY <1>4 DEF Renaming
      <4> QED  BY <4>3, <4>4, <4>5, <4>6, <4>7, SMTT(40) DEF NamesOK
    <3> QED  BY <3>1, <3>2
  <2>4. PastOK(pc[q], call[q], seen[q], past[q])'
    <3>1. Remembers(p, q, r, codes, new) /\ r \in DOMAIN grants
          /\ \A s \in RoleIds : grants'[s] = IF s = r THEN codes ELSE grants[s]
      BY <1>0 DEF OfficeInv, RowsInv
    <3>2. pc[q] = "gate" => (Required(call[q]) \in grants'[seen[q].role] => past'[q].lawful)
      <4>1. pc[q] = "gate" => seen[q].role \in RoleIds
        BY <1>1, <2>1 DEF ProgramOK
      <4> QED  BY <2>1, <3>1, <4>1 DEF PastOK, Remembers
    <3>3. pc[q] \in {"delete", "plant", "commit"} /\ call[q].replace =>
            grants'[call[q].role] \ seen[q].drop \subseteq past'[q].added
      <4> SUFFICES ASSUME pc[q] \in {"delete", "plant", "commit"}, call[q].replace
                   PROVE  grants'[call[q].role] \ seen[q].drop \subseteq past'[q].added
        OBVIOUS
      <4>1. call[q].role \in DOMAIN roles /\ call[q].role \in RoleIds
        BY <1>1, <2>1 DEF ProgramOK
      <4>2. grants[call[q].role] \ seen[q].drop \subseteq past[q].added
        BY <2>1 DEF PastOK
      <4>3. past[q].added \subseteq past'[q].added /\ (call[q].role = r => new \subseteq past'[q].added)
        BY <3>1 DEF Remembers
      <4>4. CASE call[q].role = r
        BY <3>1, <4>1, <4>2, <4>3, <4>4
      <4>5. CASE call[q].role # r
        BY <3>1, <4>1, <4>2, <4>3, <4>5
      <4> QED  BY <4>4, <4>5
    <3>4. ASSUME call[q].kind = "updateAdmin",
                 pc[q] = "byName" \/ (pc[q] = "enable" /\ call[q].role # Keep)
          PROVE  call[q].role \in DOMAIN roles' /\ (roles'[call[q].role] = seen[q].name \/ call[q].role \in past'[q].moved)
      <4>1. call[q].role \in DOMAIN roles /\ (roles[call[q].role] = seen[q].name \/ call[q].role \in past[q].moved)
        BY <2>1, <3>4 DEF PastOK
      <4>2. call[q].role = r /\ name # roles[r] => r \in past'[q].moved
        BY <3>1, <3>4, <4>1 DEF Remembers
      <4>3. past[q].moved \subseteq past'[q].moved
        BY <3>1 DEF Remembers
      <4> QED  BY <1>1, <4>1, <4>2, <4>3
    <3>5. pc[q] = "assign" => seen[q].role = call[q].role \/ call[q].role \in past'[q].moved
      BY <2>1, <3>1 DEF PastOK, Remembers
    <3> QED  BY <1>4, <3>2, <3>3, <3>4, <3>5 DEF PastOK, Required
  <2>5. pc[q] = "idle" => held'[q] = {} /\ past'[q] = NoPast /\ call'[q] = NoCall
    BY <1>4, <1>0, <2>1 DEF Remembers
  <2> QED  BY <1>4, <2>2, <2>3, <2>4, <2>5 DEF ProcInv
<1>8. \A q, t \in Procs : q # t => Apart(held'[q], held'[t])
  BY <1>4 DEF OfficeInv, Apart
<1> QED  BY <1>2, <1>3, <1>5, <1>6, <1>7, <1>8 DEF OfficeInv

LEMMA InsertRoleOK == ASSUME OfficeInv, NEW p \in Procs, InsertRole(p)  PROVE OfficeInv'
<1> DEFINE name == call[p].name
           codes == call[p].codes
<1>1. PICK r \in RoleIds \ DOMAIN roles :
        /\ roles' = [s \in DOMAIN roles \cup {r} |-> IF s = r THEN name ELSE roles[s]]
        /\ grants' = [grants EXCEPT ![r] = codes]
        /\ Witness(p, r, codes, {})
  BY DEF InsertRole
<1>2. pc[p] = "insert" /\ End(p) /\ UNCHANGED <<admins, templates>>
  BY DEF InsertRole
<1>3. call[p] \in Request /\ call[p].kind = "createRole"
  BY <1>2, Facts DEF ProgramOK
<1>4. name \in Names /\ codes \in SUBSET Codes
  BY <1>3 DEF Request
<1>5. <<"name", name>> \in held[p] /\ name \notin Taken
  BY <1>2, Facts DEF NamesOK
<1>6. \A q \in Procs \ {p} : <<"name", name>> \notin held[q]
  BY <1>5, Facts DEF Apart
<1>7. \A s \in DOMAIN roles \ {r} : roles[s] # name
  BY <1>5 DEF Taken
<1>8. r \in RoleIds /\ r \notin DOMAIN roles /\ {} \in SUBSET Codes
  OBVIOUS
<1> HIDE DEF name, codes
<1> QED  BY <1>1, <1>2, <1>4, <1>6, <1>7, <1>8, RolesStep

LEMMA CommitRoleOK == ASSUME OfficeInv, NEW p \in Procs, CommitRole(p)  PROVE OfficeInv'
<1> DEFINE r == call[p].role
           name == IF seen[p].name = Keep THEN roles[r] ELSE seen[p].name
           codes == IF call[p].replace THEN (grants[r] \ seen[p].drop) \cup call[p].codes ELSE grants[r]
           new == IF call[p].replace THEN call[p].codes ELSE {}
<1>1. /\ pc[p] = "commit" /\ End(p) /\ UNCHANGED <<admins, templates>>
      /\ roles' = [roles EXCEPT ![r] = IF seen[p].name = Keep THEN @ ELSE seen[p].name]
      /\ grants' = [grants EXCEPT ![r] = codes]
      /\ Witness(p, r, codes, new)
  BY DEF CommitRole
<1>2. /\ call[p] \in Request /\ call[p].kind = "updateRole" /\ seen[p] \in Seen
      /\ r \in DOMAIN roles /\ r \in RoleIds
  BY <1>1, Facts DEF ProgramOK, RowsInv
<1>3. /\ call[p].codes \in SUBSET Codes /\ grants[r] \in SUBSET Codes
      /\ seen[p].name \in Names \cup {Keep} /\ roles[r] \in Names
  BY <1>2, Facts DEF Request, Seen, RowsInv
<1>4. name \in Names /\ codes \in SUBSET Codes /\ new \in SUBSET Codes /\ codes \subseteq grants[r] \cup new
  BY <1>3
<1>5. roles' = [s \in DOMAIN roles \cup {r} |-> IF s = r THEN name ELSE roles[s]]
  <2>1. roles = [s \in DOMAIN roles |-> roles[s]]  BY DEF OfficeInv, RowsInv
  <2>2. DOMAIN roles \cup {r} = DOMAIN roles  BY <1>2
  <2> QED  BY <1>1, <2>1, <2>2
<1>6. CASE seen[p].name = Keep
  <2>1. name = roles[r]  BY <1>6
  <2>2. \A s \in DOMAIN roles \ {r} : roles[s] # name
    BY <1>2, <2>1, Facts DEF RowsInv
  <2> HIDE DEF r, name, codes, new
  <2> QED  BY <1>1, <1>2, <1>4, <1>5, <2>1, <2>2, RolesStep
<1>7. CASE seen[p].name # Keep
  <2>1. name = seen[p].name /\ Renaming(pc[p], seen[p])
    BY <1>1, <1>7 DEF Renaming
  <2>2. /\ <<"role", r>> \in held[p] /\ <<"name", name>> \in held[p]
        /\ \A s \in DOMAIN roles \ {r} : roles[s] # name
    BY <2>1, Facts DEF NamesOK
  <2>3. \A q \in Procs \ {p} : <<"name", name>> \notin held[q] /\ <<"role", r>> \notin held[q]
    BY <2>2, Facts DEF Apart
  <2> HIDE DEF r, name, codes, new
  <2> QED  BY <1>1, <1>2, <1>4, <1>5, <1>7, <2>2, <2>3, RolesStep
<1> QED  BY <1>6, <1>7

-----------------------------------------------------------------------------
(* Theorems *)

LEMMA OfficeStart == OfficeInit => OfficeInv
<1> SUFFICES ASSUME OfficeInit  PROVE OfficeInv
  OBVIOUS
<1>1. RowsInv
  BY OfficeAssumption DEF OfficeInit, RowsInv
<1>2. PeopleInv
  <2>1. DOMAIN templates = {} /\ templates \in [DOMAIN templates -> {"active", "halted"}]
    BY DEF OfficeInit
  <2> QED  BY <2>1, OfficeAssumption DEF OfficeInit, PeopleInv
<1>3. ShapeInv
  <2>1. NoPast \in [lawful : BOOLEAN, moved : SUBSET RoleIds, added : SUBSET Codes]
    BY DEF NoPast
  <2> QED  BY <2>1 DEF OfficeInit, TxInit, ShapeInv, Steps
<1>4. \A p \in Procs : ProcInv(p)
  BY DEF OfficeInit, TxInit, ProcInv, ProgramOK, NamesOK, Renaming, PastOK, NoCall
<1>5. \A p, q \in Procs : p # q => Apart(held[p], held[q])
  BY DEF OfficeInit, TxInit, Apart
<1> QED  BY <1>1, <1>2, <1>3, <1>4, <1>5 DEF OfficeInv

LEMMA OfficeStep == ASSUME OfficeInv, [OfficeNext]_officeVars  PROVE OfficeInv'
<1>1. ASSUME NEW p \in Procs, Disconnect(p)  PROVE OfficeInv'
  BY <1>1, TablesStay, DropStep DEF Disconnect
<1>2. ASSUME UNCHANGED officeVars  PROVE OfficeInv'
  <2>1. UNCHANGED <<admins, roles, grants, templates, past, pc, call, seen, held>>
    BY <1>2 DEF officeVars, txVars
  <2>2. ASSUME NEW p \in Procs  PROVE ProcInv(p)'
    BY <2>1, Facts DEF OfficeInv, ProcInv, ProgramOK, NamesOK, Renaming, Taken, PastOK
  <2>3. RowsInv' /\ PeopleInv' /\ ShapeInv'
    BY <2>1 DEF OfficeInv, RowsInv, PeopleInv, ShapeInv
  <2>4. \A p, q \in Procs : p # q => Apart(held[p], held[q])'
    BY <2>1 DEF OfficeInv, Apart
  <2> QED  BY <2>2, <2>3, <2>4 DEF OfficeInv
<1> QED
  BY <1>1, <1>2, BeginOK, BootstrapOK, GateOK, VictimOK, CreateRoleOK, InsertRoleOK, LoadRoleOK, RenameOK,
     SnapshotOK, DeleteOK, PlantOK, CommitRoleOK, ResolveOK, EnableOK, ByNameOK, AssignRoleOK, InsertAdminOK,
     TemplatesOK
     DEF OfficeNext, Step

LEMMA OfficeCorrect == OfficeSpec => []OfficeInv
BY OfficeStart, OfficeStep, PTL DEF OfficeSpec

\* Every process keeps within its program, and role names stay unique.
THEOREM OfficeTypeCorrect == OfficeSpec => []OfficeTypeOK
<1>1. OfficeInv => OfficeTypeOK
  BY DEF OfficeInv, RowsInv, PeopleInv, ProcInv, OfficeTypeOK
<1> QED  BY <1>1, OfficeCorrect, PTL

\* Whoever passes the gate held the permission while the request was served.
THEOREM GateLive == OfficeSpec => GateDecidesLive
<1> DEFINE Live == \A p \in Procs : pc[p] = "gate" /\ pc'[p] \notin {"gate", "idle"} => past[p].lawful
<1>1. ASSUME OfficeInv, [OfficeNext]_officeVars  PROVE [Live]_officeVars
  <2> SUFFICES ASSUME OfficeNext, NEW p \in Procs, pc[p] = "gate", pc'[p] \notin {"gate", "idle"}
               PROVE  past[p].lawful
    BY <1>1
  <2>1. PICK q \in Procs : Begin(q) \/ Bootstrap(q) \/ Step(q) \/ Disconnect(q)
    BY DEF OfficeNext
  <2>2. q = p
    <3>1. CASE Begin(q) \/ Bootstrap(q)
      BY <1>1, <3>1 DEF Begin, Bootstrap, Serve, Goto, OfficeInv, ShapeInv
    <3>2. CASE Gate(q) \/ Victim(q) \/ Disconnect(q)
      BY <1>1, <3>2 DEF Gate, Victim, Disconnect, Drop, End, Goto, OfficeInv, ShapeInv
    <3>3. CASE CreateRole(q) \/ InsertRole(q) \/ LoadRole(q) \/ Rename(q) \/ Snapshot(q) \/ Delete(q)
      BY <1>1, <3>3 DEF CreateRole, InsertRole, LoadRole, Rename, Snapshot, Delete, Drop, End, Goto, OfficeInv, ShapeInv
    <3>4. CASE Plant(q) \/ CommitRole(q) \/ Resolve(q) \/ Enable(q) \/ ByName(q) \/ AssignRole(q)
      BY <1>1, <3>4 DEF Plant, CommitRole, Resolve, Enable, ByName, AssignRole, Drop, End, Goto, OfficeInv, ShapeInv
    <3>5. CASE InsertAdmin(q) \/ CreateTemplate(q) \/ Switch(q)
      BY <1>1, <3>5 DEF InsertAdmin, CreateTemplate, Switch, Drop, End, Goto, OfficeInv, ShapeInv
    <3> QED  BY <2>1, <3>1, <3>2, <3>3, <3>4, <3>5 DEF Step
  <2>3. ~InCycle(p)
    BY DEF InCycle, Waits, Wanted
  <2>4. Gate(p)
    <3>1. ~Begin(p) /\ ~Bootstrap(p) /\ ~Victim(p)
      BY <2>3 DEF Begin, Bootstrap, Serve, Victim
    <3>2. ~Disconnect(p)
      BY <1>1 DEF Disconnect, Drop, End, Goto, OfficeInv, ShapeInv
    <3>3. Gate(p) \/ ~Step(p)
      BY <3>1 DEF Step, CreateRole, InsertRole, LoadRole, Rename, Snapshot, Delete, Plant, CommitRole,
                  Resolve, Enable, ByName, AssignRole, InsertAdmin, CreateTemplate, Switch
    <3> QED  BY <2>1, <2>2, <3>1, <3>2, <3>3
  <2>5. Required(call[p]) \in Granted(seen[p].role)
    BY <1>1, <2>4 DEF Gate, Drop, End, Goto, OfficeInv, ShapeInv
  <2> QED  BY <1>1, <2>5, Facts DEF PastOK, Granted
<1> QED  BY <1>1, OfficeCorrect, PTL DEF OfficeSpec, GateDecidesLive

\* A replacement leaves what it asked for, and what overlapping ones did.
THEOREM ReplacementsTake == OfficeSpec => ReplacementTakes
<1> DEFINE Takes ==
      \A p \in Procs : CommitRole(p) /\ call[p].replace =>
        LET r == call[p].role
        IN  /\ call[p].codes \subseteq grants'[r]
            /\ grants'[r] \subseteq call[p].codes \cup past[p].added
<1>1. ASSUME OfficeInv, [OfficeNext]_officeVars  PROVE [Takes]_officeVars
  <2> SUFFICES ASSUME NEW p \in Procs, CommitRole(p), call[p].replace
               PROVE  /\ call[p].codes \subseteq grants'[call[p].role]
                      /\ grants'[call[p].role] \subseteq call[p].codes \cup past[p].added
    OBVIOUS
  <2>1. pc[p] = "commit" /\ call[p].role \in RoleIds
    BY <1>1, Facts DEF CommitRole, ProgramOK, RowsInv
  <2>2. grants'[call[p].role] = (grants[call[p].role] \ seen[p].drop) \cup call[p].codes
    BY <1>1, <2>1, Facts DEF CommitRole, RowsInv
  <2>3. grants[call[p].role] \ seen[p].drop \subseteq past[p].added
    BY <1>1, <2>1, Facts DEF PastOK
  <2> QED  BY <2>2, <2>3
<1> QED  BY <1>1, OfficeCorrect, PTL DEF OfficeSpec, ReplacementTakes

\* An administrator gets the role that the request names, or one renamed meanwhile.
THEOREM RoleAsRequested == OfficeSpec => AssignsRequestedRole
<1> DEFINE Assigns ==
      \A p \in Procs : AssignRole(p) => seen[p].role = call[p].role \/ call[p].role \in past[p].moved
<1>1. ASSUME OfficeInv  PROVE Assigns
  BY <1>1, Facts DEF AssignRole, PastOK
<1> QED  BY <1>1, OfficeCorrect, PTL DEF OfficeSpec, AssignsRequestedRole
=============================================================================
