-------------------------- MODULE ImageVolumeProofs --------------------------
(* Theorems about ImageVolume, for every value of its constants. *)
EXTENDS ImageVolume, FiniteSetTheorems, TLAPS

Steps == {"idle", "put", "publish", "profile", "read", "touch", "commit"}

FileCall == [kind : {"image"}] \cup [kind : {"avatar"}, buyer : Buyers]
ProfileCall == [kind : {"avatar", "profile"}, buyer : Buyers]
ProductCall == [kind : {"create", "update"}, product : Products, next : SUBSET Keys]

Saving(p) == pc[p] \in {"read", "touch", "commit"}

\* What a process needs to know of its call at each step.
ProgramInv(p) ==
  /\ pc[p] \in {"put", "publish"} => call[p] \in FileCall
  /\ pc[p] = "profile" => call[p] \in ProfileCall
  /\ Saving(p) => call[p] \in ProductCall /\ call[p].next \subseteq DOMAIN made
  /\ pc[p] = "read" => call[p].product \in DOMAIN gallery
  /\ pc[p] # "idle" => seen[p] \in [keys : SUBSET DOMAIN made]

TablesInv ==
  /\ call \in [Procs -> FileCall \cup ProfileCall \cup ProductCall \cup {NoCall}]
  /\ seen \in [Procs -> [keys : SUBSET Keys] \cup {NoCall}]
  /\ held \in [Procs -> SUBSET ({Volume} \cup {Row(g) : g \in Products})]
  /\ \A p \in Procs : ProgramInv(p)

TypeInv == VolumeTypeOK /\ TablesInv

-----------------------------------------------------------------------------
(* Types *)

LEMMA InitType == VolumeInit => TypeInv
<1> SUFFICES ASSUME VolumeInit  PROVE TypeInv
  OBVIOUS
<1>1. \A S : DOMAIN <<>> = {} /\ <<>> \in [DOMAIN <<>> -> S]
  OBVIOUS
<1>2. /\ DOMAIN made \subseteq Keys /\ made \in [DOMAIN made -> {"image", "avatar"}]
      /\ DOMAIN files \subseteq DOMAIN made /\ files \in [DOMAIN files -> 0..clock]
      /\ DOMAIN gallery \subseteq Products /\ gallery \in [DOMAIN gallery -> SUBSET DOMAIN made]
      /\ DOMAIN left \subseteq DOMAIN made /\ left \in [DOMAIN left -> 0..clock]
  BY <1>1 DEF VolumeInit
<1>3. /\ sweep \in [step : {"idle", "ask", "stat", "delete"}, start : 0..clock,
                    todo : SUBSET DOMAIN made, target : SUBSET DOMAIN made]
      /\ avatar \in [Buyers -> SUBSET DOMAIN made]
  BY DEF VolumeInit, NoSweep
<1>4. VolumeTypeOK
  <2>1. pause \in BOOLEAN  BY Zenon DEF VolumeInit
  <2>2. clock \in 0..MaxClock /\ litter \in Nat /\ crashes \in 0..MaxCrashes
    BY VolumeAssumption DEF VolumeInit
  <2>3. /\ pc \in [Procs -> {"idle", "put", "publish", "profile", "read", "touch", "commit"}]
        /\ \A p \in Procs : held[p] # {} => pc[p] \in {"publish", "commit"}
    BY DEF VolumeInit, TxInit
  <2> QED  BY <1>2, <1>3, <2>1, <2>2, <2>3 DEF VolumeTypeOK
<1>5. TablesInv
  BY DEF VolumeInit, TxInit, TablesInv, ProgramInv, Saving
<1> QED  BY <1>4, <1>5 DEF TypeInv

\* The call of p is over.
LEMMA EndType ==
  ASSUME TypeInv, NEW p \in Procs, End(p),
         UNCHANGED <<clock, pause, files, litter, gallery, avatar, made, sweep, crashes, left>>
  PROVE  TypeInv'
<1>1. VolumeTypeOK'
  BY DEF TypeInv, VolumeTypeOK, TablesInv, End, Goto
<1>2. TablesInv'
  BY DEF TypeInv, VolumeTypeOK, TablesInv, ProgramInv, Saving, End, Goto
<1> QED  BY <1>1, <1>2 DEF TypeInv

\* A request is accepted.
LEMMA ServeType ==
  ASSUME TypeInv, NEW p \in Procs, NEW c, NEW w \in {"put", "profile", "read", "commit"},
         Serve(p, c, w, Keep({})), Elsewhere,
         w = "put" => c \in FileCall,
         w = "profile" => c \in ProfileCall,
         w \in {"read", "commit"} => c \in ProductCall /\ c.next \subseteq DOMAIN made,
         w = "read" => c.product \in DOMAIN gallery
  PROVE  TypeInv'
<1>1. VolumeTypeOK'
  BY DEF TypeInv, VolumeTypeOK, TablesInv, Serve, Goto, Elsewhere, tables, background
<1>2. c \in FileCall \cup ProfileCall \cup ProductCall
  OBVIOUS
<1>3. UNCHANGED <<made, gallery, held>> /\ Keep({}) \in [keys : SUBSET DOMAIN made]
  BY DEF Serve, Elsewhere, tables, Keep
<1>4. DOMAIN made \subseteq Keys
  BY DEF TypeInv, VolumeTypeOK
<1>5. /\ call' \in [Procs -> FileCall \cup ProfileCall \cup ProductCall \cup {NoCall}]
      /\ seen' \in [Procs -> [keys : SUBSET Keys] \cup {NoCall}]
      /\ held' \in [Procs -> SUBSET ({Volume} \cup {Row(g) : g \in Products})]
  BY <1>2, <1>3, <1>4 DEF TypeInv, TablesInv, Serve
<1>6. ASSUME NEW q \in Procs  PROVE ProgramInv(q)'
  <2>1. CASE q = p
    <3>1. pc'[p] = w /\ call'[p] = c /\ seen'[p] = Keep({})
      BY DEF Serve, Goto, TypeInv, VolumeTypeOK, TablesInv
    <3> QED  BY <1>3, <2>1, <3>1 DEF ProgramInv, Saving
  <2>2. CASE q # p
    <3>1. pc'[q] = pc[q] /\ call'[q] = call[q] /\ seen'[q] = seen[q]
      BY <2>2 DEF Serve, Goto, TypeInv, VolumeTypeOK, TablesInv
    <3> QED  BY <1>3, <3>1 DEF TypeInv, TablesInv, ProgramInv, Saving
  <2> QED  BY <2>1, <2>2
<1> QED  BY <1>1, <1>5, <1>6 DEF TypeInv, TablesInv

\* The statement of p ends and leaves it at step w; the tables stay.
LEMMA MoveType ==
  ASSUME TypeInv, NEW p \in Procs, NEW w \in {"publish", "touch", "commit"},
         Goto(p, w), UNCHANGED <<call, made, gallery>>,
         seen' \in [Procs -> [keys : SUBSET Keys] \cup {NoCall}],
         \A q \in Procs \ {p} : seen'[q] = seen[q],
         seen'[p] \in [keys : SUBSET DOMAIN made],
         pc[p] \in {"put", "read", "touch"},
         (pc[p] = "put" /\ w = "publish") \/ (pc[p] # "put" /\ w # "publish"),
         held' \in [Procs -> SUBSET ({Volume} \cup {Row(g) : g \in Products})]
  PROVE  TablesInv'
<1>1. ASSUME NEW q \in Procs  PROVE ProgramInv(q)'
  <2>1. CASE q = p
    <3>1. pc'[p] = w  BY DEF Goto, TypeInv, VolumeTypeOK
    <3> QED  BY <2>1, <3>1 DEF ProgramInv, Saving, TypeInv, TablesInv
  <2>2. CASE q # p
    <3>1. pc'[q] = pc[q] /\ call'[q] = call[q] /\ seen'[q] = seen[q]
      BY <2>2 DEF Goto, TypeInv, VolumeTypeOK
    <3> QED  BY <3>1 DEF TypeInv, TablesInv, ProgramInv, Saving
  <2> QED  BY <2>1, <2>2
<1> QED  BY <1>1 DEF TypeInv, TablesInv

LEMMA PutType == ASSUME TypeInv, NEW p \in Procs, Put(p)  PROVE TypeInv'
<1>1. CASE HasRoom
  <2>1. TablesInv'
    <3>1. held' \in [Procs -> SUBSET ({Volume} \cup {Row(g) : g \in Products})]
      BY <1>1 DEF Put, Lock, TypeInv, TablesInv
    <3>2. pc[p] = "put" /\ Goto(p, "publish") /\ UNCHANGED <<call, seen, made, gallery>>
      BY <1>1 DEF Put, Elsewhere, tables
    <3>3. seen[p] \in [keys : SUBSET DOMAIN made]
      BY <3>2 DEF TypeInv, TablesInv, ProgramInv
    <3> QED  BY <3>1, <3>2, <3>3, MoveType DEF TypeInv, TablesInv
  <2>2. VolumeTypeOK'
    BY <1>1 DEF Put, Lock, Goto, Elsewhere, tables, background, TypeInv, VolumeTypeOK, TablesInv
  <2> QED  BY <2>1, <2>2 DEF TypeInv
<1>2. CASE ~HasRoom  BY <1>2, EndType DEF Put, Elsewhere, tables, background
<1> QED  BY <1>1, <1>2

LEMMA ReadType == ASSUME TypeInv, NEW p \in Procs, Read(p)  PROVE TypeInv'
<1>1. gallery[call[p].product] \ call[p].next \subseteq DOMAIN made
  BY DEF Read, TypeInv, VolumeTypeOK, TablesInv, ProgramInv
<1>2. DOMAIN made \subseteq Keys  BY DEF TypeInv, VolumeTypeOK
<1>3. TablesInv'
  <2>1. /\ seen' \in [Procs -> [keys : SUBSET Keys] \cup {NoCall}]
        /\ \A q \in Procs \ {p} : seen'[q] = seen[q]
        /\ seen'[p] \in [keys : SUBSET DOMAIN made]
    BY <1>1, <1>2 DEF Read, Keep, TypeInv, TablesInv
  <2>2. /\ pc[p] = "read" /\ Goto(p, "touch") /\ UNCHANGED <<call, held, made, gallery>>
    BY DEF Read, Elsewhere, tables
  <2> QED  BY <2>1, <2>2, MoveType DEF TypeInv, TablesInv
<1>4. VolumeTypeOK'
  BY DEF Read, Goto, Elsewhere, tables, background, TypeInv, VolumeTypeOK
<1> QED  BY <1>3, <1>4 DEF TypeInv

LEMMA TouchType == ASSUME TypeInv, NEW p \in Procs, Touch(p)  PROVE TypeInv'
<1>1. TablesInv'
  <2>1. call[p].product \in Products
    BY DEF Touch, TypeInv, TablesInv, ProgramInv, Saving, ProductCall
  <2>2. held' \in [Procs -> SUBSET ({Volume} \cup {Row(g) : g \in Products})]
    BY <2>1 DEF Touch, Lock, TypeInv, TablesInv
  <2>3. /\ seen' \in [Procs -> [keys : SUBSET Keys] \cup {NoCall}]
        /\ \A q \in Procs \ {p} : seen'[q] = seen[q]
        /\ seen'[p] \in [keys : SUBSET DOMAIN made]
    BY DEF Touch, Keep, TypeInv, TablesInv
  <2>4. /\ pc[p] = "touch" /\ Goto(p, "commit") /\ UNCHANGED <<call, made, gallery>>
    BY DEF Touch, tables
  <2> QED  BY <2>2, <2>3, <2>4, MoveType
<1>2. clock \in 0..clock /\ DOMAIN files' = DOMAIN files /\ files' \in [DOMAIN files' -> 0..clock]
  BY DEF Touch, TypeInv, VolumeTypeOK
<1>3. VolumeTypeOK'
  BY <1>2 DEF Touch, Lock, Goto, tables, background, TypeInv, VolumeTypeOK, TablesInv
<1> QED  BY <1>1, <1>3 DEF TypeInv

LEMMA ProfileType == ASSUME TypeInv, NEW p \in Procs, Profile(p)  PROVE TypeInv'
<1>1. avatar' \in [Buyers -> SUBSET DOMAIN made]
  BY DEF Profile, TypeInv, VolumeTypeOK, TablesInv, ProgramInv
<1>2. VolumeTypeOK'
  BY <1>1 DEF Profile, End, Goto, background, TypeInv, VolumeTypeOK, TablesInv
<1>3. TablesInv'
  BY DEF Profile, End, Goto, TypeInv, VolumeTypeOK, TablesInv, ProgramInv, Saving
<1> QED  BY <1>2, <1>3 DEF TypeInv

LEMMA PublishType == ASSUME TypeInv, NEW p \in Procs, Publish(p)  PROVE TypeInv'
<1>1. PICK k \in Keys :
        /\ files' = [j \in DOMAIN files \cup {k} |-> IF j = k THEN clock ELSE files[j]]
        /\ made' = [j \in DOMAIN made \cup {k} |-> IF j = k THEN call[p].kind ELSE made[j]]
        /\ \/ call[p].kind = "image" /\ End(p)
           \/ /\ call[p].kind # "image"
              /\ seen' = [seen EXCEPT ![p] = Keep({k})]
              /\ held' = [held EXCEPT ![p] = {}]
              /\ Goto(p, "profile") /\ UNCHANGED call
  BY DEF Publish
<1>2. /\ call[p] \in FileCall /\ pc[p] = "publish" /\ clock \in 0..clock
      /\ call[p].kind # "image" => call[p] \in ProfileCall
      /\ call[p].kind \in {"image", "avatar"}
  BY DEF Publish, TypeInv, VolumeTypeOK, TablesInv, ProgramInv, FileCall, ProfileCall
<1>3. /\ DOMAIN made' \subseteq Keys /\ made' \in [DOMAIN made' -> {"image", "avatar"}]
      /\ DOMAIN made' = DOMAIN made \cup {k}
  BY <1>1, <1>2 DEF TypeInv, VolumeTypeOK
<1>4. DOMAIN files' \subseteq DOMAIN made' /\ files' \in [DOMAIN files' -> 0..clock]
  BY <1>1, <1>2, <1>3 DEF TypeInv, VolumeTypeOK
<1>5. UNCHANGED <<litter, left, gallery, avatar, clock, pause, sweep, crashes>>
  BY DEF Publish, tables, background
<1>6. /\ gallery' \in [DOMAIN gallery' -> SUBSET DOMAIN made']
      /\ avatar' \in [Buyers -> SUBSET DOMAIN made']
      /\ DOMAIN left' \subseteq DOMAIN made' /\ left' \in [DOMAIN left' -> 0..clock']
      /\ sweep' \in [step : {"idle", "ask", "stat", "delete"}, start : 0..clock',
                     todo : SUBSET DOMAIN made', target : SUBSET DOMAIN made']
  BY <1>3, <1>5 DEF TypeInv, VolumeTypeOK
<1>7. /\ pc' \in [Procs -> Steps] /\ held' \in [Procs -> SUBSET ({Volume} \cup {Row(g) : g \in Products})]
      /\ held'[p] = {} /\ \A q \in Procs \ {p} : held'[q] = held[q] /\ pc'[q] = pc[q]
      /\ pc'[p] = IF call[p].kind = "image" THEN "idle" ELSE "profile"
  BY <1>1 DEF End, Goto, Steps, TypeInv, VolumeTypeOK, TablesInv
<1>8. VolumeTypeOK'
  BY <1>3, <1>4, <1>5, <1>6, <1>7 DEF Steps, TypeInv, VolumeTypeOK
<1>9. Keep({k}) \in [keys : SUBSET DOMAIN made'] /\ Keep({k}) \in [keys : SUBSET Keys]
  BY <1>3 DEF Keep
<1>10. /\ call' \in [Procs -> FileCall \cup ProfileCall \cup ProductCall \cup {NoCall}]
       /\ seen' \in [Procs -> [keys : SUBSET Keys] \cup {NoCall}]
       /\ \A q \in Procs \ {p} : call'[q] = call[q] /\ seen'[q] = seen[q]
       /\ call[p].kind # "image" => call'[p] = call[p] /\ seen'[p] = Keep({k})
  BY <1>1, <1>9 DEF End, TypeInv, TablesInv
<1>11. ASSUME NEW q \in Procs  PROVE ProgramInv(q)'
  <2>1. CASE q = p  BY <1>2, <1>7, <1>9, <1>10, <2>1 DEF ProgramInv, Saving
  <2>2. CASE q # p
    BY <1>3, <1>5, <1>7, <1>10, <2>2 DEF ProgramInv, Saving, TypeInv, TablesInv
  <2> QED  BY <2>1, <2>2
<1> QED  BY <1>7, <1>8, <1>10, <1>11 DEF TypeInv, TablesInv

LEMMA CommitType == ASSUME TypeInv, NEW p \in Procs, Commit(p)  PROVE TypeInv'
<1> DEFINE g == call[p].product
<1>1. g \in Products /\ call[p].next \subseteq DOMAIN made /\ clock \in 0..clock
  BY DEF Commit, TypeInv, VolumeTypeOK, TablesInv, ProgramInv, Saving, ProductCall
<1>2. /\ gallery' = [h \in DOMAIN gallery \cup {g} |-> IF h = g THEN call[p].next ELSE gallery[h]]
      /\ left' = [k \in DOMAIN left \cup (Referenced \ Referenced') |->
                    IF k \in Referenced \ Referenced' THEN clock ELSE left[k]]
      /\ UNCHANGED <<files, litter, made, avatar, clock, pause, sweep, crashes>>
  BY DEF Commit, background
<1> HIDE DEF g
<1>3. /\ DOMAIN gallery' \subseteq Products /\ gallery' \in [DOMAIN gallery' -> SUBSET DOMAIN made]
      /\ DOMAIN gallery \subseteq DOMAIN gallery'
  BY <1>1, <1>2 DEF TypeInv, VolumeTypeOK
<1>4. Referenced \subseteq DOMAIN made  BY DEF Referenced, TypeInv, VolumeTypeOK
<1>5. DOMAIN left' \subseteq DOMAIN made /\ left' \in [DOMAIN left' -> 0..clock]
  BY <1>1, <1>2, <1>4 DEF TypeInv, VolumeTypeOK
<1>6. End(p)  BY DEF Commit
<1>7. VolumeTypeOK'
  BY <1>2, <1>3, <1>5, <1>6 DEF End, Goto, TypeInv, VolumeTypeOK, TablesInv
<1>8. TablesInv'
  BY <1>2, <1>3, <1>6 DEF End, Goto, TypeInv, VolumeTypeOK, TablesInv, ProgramInv, Saving
<1> QED  BY <1>7, <1>8 DEF TypeInv

\* A step of the sweep, of time, or of none.
LEMMA BackgroundType ==
  ASSUME TypeInv, UNCHANGED <<gallery, avatar, made, txVars>>,
         litter' = litter /\ crashes' = crashes /\ pause' \in BOOLEAN /\ clock' \in 0..MaxClock,
         clock <= clock',
         DOMAIN files' \subseteq DOMAIN made' /\ files' \in [DOMAIN files' -> 0..clock'],
         DOMAIN left' \subseteq DOMAIN made' /\ left' \in [DOMAIN left' -> 0..clock'],
         sweep' \in [step : {"idle", "ask", "stat", "delete"}, start : 0..clock',
                     todo : SUBSET DOMAIN made', target : SUBSET DOMAIN made']
  PROVE  TypeInv'
<1>1. VolumeTypeOK'  BY DEF TypeInv, VolumeTypeOK, txVars
<1>2. TablesInv'  BY DEF TypeInv, VolumeTypeOK, TablesInv, ProgramInv, Saving, txVars
<1> QED  BY <1>1, <1>2 DEF TypeInv

LEMMA SweepType ==
  ASSUME TypeInv, UNCHANGED <<clock, pause, crashes, litter, made, gallery, avatar, txVars>>,
         \/ UNCHANGED <<files, left>>
         \/ /\ files' = [j \in DOMAIN files \ sweep.target |-> files[j]]
            /\ left' = [j \in DOMAIN left \ sweep.target |-> left[j]],
         \/ UNCHANGED sweep
         \/ \E step \in {"idle", "ask", "stat", "delete"}, start \in {0, clock, sweep.start},
               todo \in SUBSET DOMAIN made, target \in SUBSET DOMAIN made :
              sweep' = [step |-> step, start |-> start, todo |-> todo, target |-> target]
  PROVE  TypeInv'
<1>1. /\ clock \in 0..clock /\ clock \in Nat /\ 0 \in 0..clock /\ sweep.start \in 0..clock
      /\ pause' \in BOOLEAN /\ clock' \in 0..MaxClock
  BY DEF TypeInv, VolumeTypeOK
<1>2. sweep' \in [step : {"idle", "ask", "stat", "delete"}, start : 0..clock',
                  todo : SUBSET DOMAIN made', target : SUBSET DOMAIN made']
  BY <1>1 DEF TypeInv, VolumeTypeOK
<1>3. /\ DOMAIN files' \subseteq DOMAIN made' /\ files' \in [DOMAIN files' -> 0..clock']
      /\ DOMAIN left' \subseteq DOMAIN made' /\ left' \in [DOMAIN left' -> 0..clock']
  BY DEF TypeInv, VolumeTypeOK
<1> QED  BY <1>1, <1>2, <1>3, BackgroundType

LEMMA CrashType == ASSUME TypeInv, Crash  PROVE TypeInv'
<1>1. litter + Cardinality({p \in Procs : pc[p] = "publish"}) \in Nat
  <2>1. {p \in Procs : pc[p] = "publish"} \subseteq Procs  OBVIOUS
  <2>2. IsFiniteSet({p \in Procs : pc[p] = "publish"})
    BY <2>1, FS_Subset, VolumeAssumption
  <2> QED  BY <2>2, FS_CardinalityType DEF TypeInv, VolumeTypeOK
<1>2. NoSweep \in [step : {"idle", "ask", "stat", "delete"}, start : 0..clock,
                   todo : SUBSET DOMAIN made, target : SUBSET DOMAIN made]
  BY DEF NoSweep, TypeInv, VolumeTypeOK
<1>3. crashes' \in 0..MaxCrashes
  BY VolumeAssumption DEF Crash, TypeInv, VolumeTypeOK
<1>4. VolumeTypeOK'
  BY <1>1, <1>2, <1>3 DEF Crash, tables, TypeInv, VolumeTypeOK
<1>5. TablesInv'
  BY DEF Crash, tables, TypeInv, TablesInv, ProgramInv, Saving
<1> QED  BY <1>4, <1>5 DEF TypeInv

LEMMA NextSweepType ==
  ASSUME TypeInv, StartSweep \/ Stat \/ Delete \/ EndSweep \/ \E k \in Keys : Ask(k) \/ AskFails(k)
  PROVE  TypeInv'
<1>1. sweep = [step |-> sweep.step, start |-> sweep.start, todo |-> sweep.todo, target |-> sweep.target]
  BY DEF TypeInv, VolumeTypeOK
<1>2. /\ DOMAIN files \subseteq DOMAIN made /\ sweep.step \in {"idle", "ask", "stat", "delete"}
      /\ sweep.todo \subseteq DOMAIN made /\ sweep.target \subseteq DOMAIN made
  BY DEF TypeInv, VolumeTypeOK
<1>3. CASE StartSweep
  BY <1>2, <1>3, SweepType DEF StartSweep, Sweep, Listed, tables
<1>4. ASSUME NextKey = sweep'  PROVE
        sweep' = [step |-> "ask", start |-> sweep.start, todo |-> sweep.todo, target |-> {}]
  BY <1>1, <1>4 DEF NextKey
<1>5. CASE Stat
  <2>1. CASE sweep' = [sweep EXCEPT !.step = "delete"]
    <3>1. sweep' = [step |-> "delete", start |-> sweep.start, todo |-> sweep.todo, target |-> sweep.target]
      BY <1>1, <2>1
    <3> QED  BY <1>2, <1>5, <3>1, SweepType DEF Stat, Sweep, tables
  <2>2. CASE sweep' = NextKey
    BY <1>2, <1>4, <1>5, <2>2, SweepType DEF Stat, Sweep, tables
  <2> QED  BY <1>5, <2>1, <2>2 DEF Stat, Sweep
<1>6. CASE Delete
  BY <1>2, <1>4, <1>6, SweepType DEF Delete, tables
<1>7. CASE EndSweep
  <2>1. sweep' = [step |-> "idle", start |-> 0, todo |-> {}, target |-> {}]
    BY <1>7 DEF EndSweep, Sweep, NoSweep
  <2> QED  BY <1>7, <2>1, SweepType DEF EndSweep, Sweep, tables
<1>8. ASSUME NEW k \in Keys, Ask(k)  PROVE TypeInv'
  <2>1. /\ sweep' = [step |-> IF k \in Referenced THEN "ask" ELSE "stat", start |-> sweep.start,
                     todo |-> sweep.todo \ {k}, target |-> IF k \in Referenced THEN {} ELSE {k}]
        /\ k \in DOMAIN made
    BY <1>1, <1>2, <1>8 DEF Ask, Sweep
  <2> DEFINE step == IF k \in Referenced THEN "ask" ELSE "stat"
             todo == sweep.todo \ {k}
             target == IF k \in Referenced THEN {} ELSE {k}
  <2>2. step \in {"idle", "ask", "stat", "delete"} /\ todo \in SUBSET DOMAIN made /\ target \in SUBSET DOMAIN made
    BY <1>2, <2>1
  <2>3. sweep' = [step |-> step, start |-> sweep.start, todo |-> todo, target |-> target]
    BY <2>1
  <2> HIDE DEF step, todo, target
  <2> QED  BY <1>8, <2>2, <2>3, SweepType DEF Ask, Sweep, tables
<1>9. ASSUME NEW k \in Keys, AskFails(k)  PROVE TypeInv'
  <2>1. sweep' = [step |-> sweep.step, start |-> sweep.start, todo |-> sweep.todo \ {k}, target |-> sweep.target]
    BY <1>1, <1>9 DEF AskFails, Sweep
  <2> QED  BY <1>2, <1>9, <2>1, SweepType DEF AskFails, Sweep, tables
<1> QED  BY <1>3, <1>5, <1>6, <1>7, <1>8, <1>9

LEMMA NextType == ASSUME TypeInv, [VolumeNext]_volumeVars  PROVE TypeInv'
<1>1. /\ clock \in Nat /\ clock <= MaxClock /\ MaxClock \in Nat /\ DOMAIN files \subseteq DOMAIN made
      /\ files \in [DOMAIN files -> 0..clock]
      /\ DOMAIN left \subseteq DOMAIN made /\ left \in [DOMAIN left -> 0..clock]
      /\ DOMAIN gallery \subseteq Products /\ gallery \in [DOMAIN gallery -> SUBSET DOMAIN made]
      /\ sweep \in [step : {"idle", "ask", "stat", "delete"}, start : 0..clock,
                    todo : SUBSET DOMAIN made, target : SUBSET DOMAIN made]
  BY VolumeAssumption DEF TypeInv, VolumeTypeOK
<1>2. ASSUME NEW p \in Procs, UploadImage(p) \/ UploadAvatar(p)  PROVE TypeInv'
  <2>1. PICK c \in FileCall : Upload(p, c)
    BY <1>2 DEF UploadImage, UploadAvatar, FileCall
  <2> QED  BY <2>1, ServeType DEF Upload
<1>3. ASSUME NEW p \in Procs, UpdateMe(p)  PROVE TypeInv'
  <2>1. PICK c \in ProfileCall : Serve(p, c, "profile", Keep({}))
    BY <1>3 DEF UpdateMe, ProfileCall
  <2> QED  BY <1>3, <2>1, ServeType DEF UpdateMe
<1>4. Recent \subseteq DOMAIN made /\ DOMAIN made \subseteq Keys
  BY DEF Recent, TypeInv, VolumeTypeOK
<1>5. ASSUME NEW p \in Procs, CreateProduct(p)  PROVE TypeInv'
  <2>1. PICK g \in Products, next \in SUBSET Recent :
          Serve(p, [kind |-> "create", product |-> g, next |-> next], "commit", Keep({}))
    BY <1>5 DEF CreateProduct
  <2>2. [kind |-> "create", product |-> g, next |-> next] \in ProductCall
    BY <1>4 DEF ProductCall
  <2> QED  BY <1>4, <1>5, <2>1, <2>2, ServeType DEF CreateProduct
<1>6. ASSUME NEW p \in Procs, UpdateProduct(p)  PROVE TypeInv'
  <2>1. PICK g \in DOMAIN gallery, next \in SUBSET Keys :
          /\ next \subseteq Recent \cup gallery[g]
          /\ Serve(p, [kind |-> "update", product |-> g, next |-> next], "read", Keep({}))
    BY <1>1, <1>4, <1>6 DEF UpdateProduct
  <2>2. next \subseteq DOMAIN made /\ g \in Products
    BY <1>1, <1>4, <2>1
  <2>3. [kind |-> "update", product |-> g, next |-> next] \in ProductCall
    BY <1>4, <2>2 DEF ProductCall
  <2> QED  BY <1>6, <2>1, <2>2, <2>3, ServeType DEF UpdateProduct
<1>7. ASSUME NEW p \in Procs, Disconnect(p)  PROVE TypeInv'
  BY <1>7, EndType DEF Disconnect, Elsewhere, tables, background
<1>8. ASSUME Pause \/ Tick  PROVE TypeInv'
  <2>1. pause' \in BOOLEAN  BY <1>8, Zenon DEF Pause, Tick
  <2>2. clock' \in 0..MaxClock /\ clock <= clock'
    <3>1. CASE Pause  BY <1>1, <3>1 DEF Pause
    <3>2. CASE Tick
      <4>1. clock < MaxClock
        BY <3>2 DEF Tick
      <4> QED  BY <1>1, <3>2, <4>1 DEF Tick
    <3> QED  BY <1>8, <3>1, <3>2
  <2>3. 0..clock \subseteq 0..clock'  BY <1>1, <2>2
  <2>4. UNCHANGED <<files, left, gallery, avatar, made, litter, crashes, sweep, txVars>>
    BY <1>8 DEF Pause, Tick, tables
  <2> QED  BY <1>1, <2>1, <2>2, <2>3, <2>4, BackgroundType
<1>9. ASSUME UNCHANGED volumeVars  PROVE TypeInv'
  <2>1. pause \in BOOLEAN /\ clock \in 0..MaxClock  BY DEF TypeInv, VolumeTypeOK
  <2> QED  BY <1>1, <1>9, <2>1, BackgroundType DEF volumeVars
<1> QED
  BY <1>2, <1>3, <1>5, <1>6, <1>7, <1>8, <1>9, CrashType, NextSweepType,
     PutType, PublishType, ProfileType, ReadType, TouchType, CommitType
     DEF VolumeNext, Step

\* Every request, the sweep and the tables keep within the program.
THEOREM VolumeTypeCorrect == VolumeSpec => []VolumeTypeOK
<1>1. TypeInv => VolumeTypeOK  BY DEF TypeInv
<1> QED  BY <1>1, InitType, NextType, PTL DEF VolumeSpec

-----------------------------------------------------------------------------
(* The sweep spares what is shown, or is about to be *)

Young(k) == k \in DOMAIN files /\ clock - files[k] <= Patience

Shown(g) == IF g \in DOMAIN gallery THEN gallery[g] ELSE {}

\* The form that p saves names young images and images of its product; what the
\* save drops from the gallery is young, or about to be touched.
FormInv(p) ==
  /\ Saving(p) =>
       \A k \in call[p].next : k \in DOMAIN files /\ (Young(k) \/ k \in Shown(call[p].product))
  /\ pc[p] = "touch" => \A k \in seen[p].keys : Young(k) \/ k \in Shown(call[p].product)
  /\ pc[p] \in {"touch", "commit"} =>
       \A k \in Shown(call[p].product) \ call[p].next :
         Young(k) \/ (pc[p] = "touch" /\ k \in seen[p].keys)

InUse(k) == k \in Referenced \/ \E p \in Procs : Saving(p) /\ k \in call[p].next

\* What the sweep is about to delete is in nobody's use, and too old to get there.
SweepInv ==
  /\ sweep.step \in {"idle", "ask"} => sweep.target = {}
  /\ \A k \in sweep.target :
       /\ \A j \in sweep.target : j = k
       /\ sweep.step = "stat" /\ InUse(k) => sweep.start - files[k] < Grace
       /\ sweep.step = "delete" /\ k \in DOMAIN files => ~InUse(k) /\ Expired(k)

\* A file is hardly older than its last use.
LeftInv == \A k \in DOMAIN left \cap DOMAIN files : left[k] <= files[k] + Patience

UseInv ==
  /\ GalleriesServed
  /\ \A p \in Procs : FormInv(p)
  /\ SweepInv
  /\ LeftInv

LEMMA InitUse == VolumeInit => UseInv
BY DEF VolumeInit, TxInit, NoSweep, UseInv, GalleriesServed, Referenced, FormInv, Saving,
       SweepInv, LeftInv

LEMMA Numbers ==
  ASSUME TypeInv
  PROVE  /\ clock \in Nat /\ Patience \in Nat /\ Grace \in Nat /\ Patience < Grace
         /\ sweep.start \in Nat /\ sweep.start <= clock
         /\ \A k \in DOMAIN files : files[k] \in Nat /\ files[k] <= clock
         /\ \A k \in DOMAIN left : left[k] \in Nat /\ left[k] <= clock
         /\ DOMAIN files \subseteq DOMAIN made /\ DOMAIN left \subseteq DOMAIN made
         /\ sweep.target \subseteq DOMAIN made
BY VolumeAssumption DEF TypeInv, VolumeTypeOK

LEMMA ShownReferenced ==
  ASSUME NEW g, NEW k \in Shown(g)  PROVE k \in Referenced
BY DEF Shown, Referenced

LEMMA UsedPresent ==
  ASSUME TypeInv, UseInv, NEW k, InUse(k)  PROVE k \in DOMAIN files
BY DEF UseInv, GalleriesServed, FormInv, InUse

\* A young file has not expired.
LEMMA YoungStays ==
  ASSUME TypeInv, NEW k, Young(k)  PROVE sweep.start - files[k] < Grace /\ ~Expired(k)
BY Numbers DEF Young, Expired

\* Files get younger and more, and p goes on or is done.
LEMMA FormKept ==
  ASSUME TypeInv, TypeInv', NEW p \in Procs, FormInv(p), UNCHANGED <<clock, gallery>>,
         \A k \in DOMAIN files : k \in DOMAIN files' /\ files[k] <= files'[k],
         \/ ~Saving(p)'
         \/ pc'[p] = pc[p] /\ call'[p] = call[p] /\ seen'[p] = seen[p]
  PROVE  FormInv(p)'
<1>1. \A k : Young(k) => Young(k)'
  <2> SUFFICES ASSUME NEW k, Young(k)  PROVE Young(k)'
    OBVIOUS
  <2>1. k \in DOMAIN files /\ k \in DOMAIN files' /\ clock - files[k] <= Patience /\ files[k] <= files'[k]
    BY DEF Young
  <2>2. /\ files[k] \in Nat /\ files'[k] \in Nat /\ clock \in Nat /\ Patience \in Nat
        /\ clock' = clock
    BY <2>1, Numbers DEF TypeInv, VolumeTypeOK
  <2> QED  BY <2>1, <2>2 DEF Young
<1>2. \A g : Shown(g)' = Shown(g)  BY DEF Shown
<1>3. CASE ~Saving(p)'  BY <1>3 DEF FormInv, Saving
<1>4. CASE Saving(p)' /\ pc'[p] = pc[p] /\ call'[p] = call[p] /\ seen'[p] = seen[p]
  BY <1>1, <1>2, <1>4 DEF FormInv, Saving
<1> QED  BY <1>3, <1>4

\* A step that only makes files younger, and only files that somebody uses.
LEMMA RequestUse ==
  ASSUME TypeInv, TypeInv', UseInv, UNCHANGED <<clock, gallery, sweep, left>>,
         \A k \in DOMAIN files :
           /\ k \in DOMAIN files'
           /\ files'[k] = files[k] \/ (files'[k] = clock /\ (InUse(k) \/ Young(k))),
         \A k \in DOMAIN files' \ DOMAIN files : k \notin DOMAIN made,
         \A p \in Procs : FormInv(p)',
         \A p \in Procs : Saving(p)' => \A k \in call'[p].next : InUse(k) \/ Young(k)
  PROVE  UseInv'
<1>1. GalleriesServed'  BY DEF UseInv, GalleriesServed, Referenced
<1>2. \A k : InUse(k)' => InUse(k) \/ Young(k)
  BY DEF InUse, Referenced
<1>3. \A k \in DOMAIN files : files[k] \in Nat /\ files'[k] \in Nat /\ files[k] <= files'[k]
  BY Numbers
<1>4. SweepInv'
  <2> SUFFICES ASSUME NEW k \in sweep.target
               PROVE  /\ sweep.step = "stat" /\ InUse(k)' => sweep.start - files'[k] < Grace
                      /\ sweep.step = "delete" /\ k \in DOMAIN files' => ~InUse(k)' /\ Expired(k)'
    BY DEF UseInv, SweepInv
  <2>1. ASSUME sweep.step = "stat", InUse(k)'  PROVE sweep.start - files'[k] < Grace
    <3>1. k \in DOMAIN files  BY <1>2, <2>1, UsedPresent DEF Young
    <3>2. sweep.start - files[k] < Grace
      BY <1>2, <2>1, YoungStays DEF UseInv, SweepInv
    <3> QED  BY <1>3, <3>1, <3>2, Numbers
  <2>2. ASSUME sweep.step = "delete", k \in DOMAIN files'  PROVE ~InUse(k)' /\ Expired(k)'
    <3>1. k \in DOMAIN files  BY <2>2, Numbers
    <3>2. ~InUse(k) /\ Expired(k)  BY <2>2, <3>1 DEF UseInv, SweepInv
    <3>3. ~Young(k)  BY <3>2, YoungStays
    <3> QED  BY <1>2, <3>1, <3>2, <3>3 DEF Expired
  <2> QED  BY <2>1, <2>2
<1>5. LeftInv'
  <2> SUFFICES ASSUME NEW k \in DOMAIN left, k \in DOMAIN files'  PROVE left[k] <= files'[k] + Patience
    BY DEF LeftInv
  <2>1. k \in DOMAIN files  BY Numbers
  <2>2. left[k] <= files[k] + Patience  BY <2>1 DEF UseInv, LeftInv
  <2> QED  BY <1>3, <2>1, <2>2, Numbers
<1> QED  BY <1>1, <1>4, <1>5 DEF UseInv

\* A request begins, ends, or moves on with a form that it had before, or one that
\* it may have; the files stay.
LEMMA QuietUse ==
  ASSUME TypeInv, TypeInv', UseInv, NEW p \in Procs,
         UNCHANGED <<clock, gallery, sweep, left, files>>,
         \A q \in Procs \ {p} : pc'[q] = pc[q] /\ call'[q] = call[q] /\ seen'[q] = seen[q],
         ~Saving(p)' \/ (FormInv(p)' /\ \A k \in call'[p].next : InUse(k) \/ Young(k))
  PROVE  UseInv'
<1>1. \A k \in DOMAIN files : files[k] <= files'[k]  BY Numbers
<1>2. ASSUME NEW q \in Procs  PROVE FormInv(q)'
  <2>1. CASE q # p \/ ~Saving(p)'
    BY <1>1, <2>1, FormKept DEF UseInv
  <2> QED  BY <2>1
<1>3. ASSUME NEW q \in Procs, Saving(q)'  PROVE \A k \in call'[q].next : InUse(k) \/ Young(k)
  <2>1. CASE q # p  BY <1>3, <2>1 DEF InUse, Saving
  <2> QED  BY <1>3, <2>1
<1> QED  BY <1>2, <1>3, RequestUse

LEMMA OthersStay ==
  ASSUME TypeInv, NEW p \in Procs, NEW w, NEW c, NEW s,
         pc' = [pc EXCEPT ![p] = w], call' = [call EXCEPT ![p] = c], seen' = [seen EXCEPT ![p] = s]
  PROVE  /\ \A q \in Procs \ {p} : pc'[q] = pc[q] /\ call'[q] = call[q] /\ seen'[q] = seen[q]
         /\ pc'[p] = w /\ call'[p] = c /\ seen'[p] = s
BY DEF TypeInv, VolumeTypeOK, TablesInv

LEMMA EndUse ==
  ASSUME TypeInv, TypeInv', UseInv, NEW p \in Procs, End(p),
         UNCHANGED <<clock, gallery, sweep, left, files>>
  PROVE  UseInv'
<1>1. /\ \A q \in Procs \ {p} : pc'[q] = pc[q] /\ call'[q] = call[q] /\ seen'[q] = seen[q]
      /\ pc'[p] = "idle"
  BY OthersStay DEF End, Goto
<1> QED  BY <1>1, QuietUse DEF Saving

LEMMA ServeUse ==
  ASSUME TypeInv, TypeInv', UseInv, NEW p \in Procs, NEW c, NEW w \in {"put", "profile", "read", "commit"},
         Serve(p, c, w, Keep({})), Elsewhere,
         w \in {"read", "commit"} => \A k \in c.next : Young(k) \/ k \in Shown(c.product),
         w = "commit" => Shown(c.product) = {}
  PROVE  UseInv'
<1>1. /\ \A q \in Procs \ {p} : pc'[q] = pc[q] /\ call'[q] = call[q] /\ seen'[q] = seen[q]
      /\ pc'[p] = w /\ call'[p] = c /\ seen'[p] = Keep({})
  BY OthersStay DEF Serve, Goto
<1>2. UNCHANGED <<clock, gallery, sweep, left, files>>  BY DEF Elsewhere, tables, background
<1>3. CASE w \in {"read", "commit"}
  <2>1. \A k : Young(k)' = Young(k)  BY <1>2 DEF Young
  <2>2. Shown(c.product)' = Shown(c.product)  BY <1>2 DEF Shown
  <2>3. \A k \in c.next : k \in DOMAIN files
    BY <1>3, ShownReferenced DEF Young, UseInv, GalleriesServed
  <2>4. FormInv(p)'  BY <1>1, <1>2, <1>3, <2>1, <2>2, <2>3 DEF FormInv, Saving
  <2>5. \A k \in c.next : InUse(k) \/ Young(k)
    BY <1>3, ShownReferenced DEF InUse
  <2> QED  BY <1>1, <1>2, <2>4, <2>5, QuietUse
<1>4. CASE w \notin {"read", "commit"}  BY <1>1, <1>2, <1>4, QuietUse DEF Saving
<1> QED  BY <1>3, <1>4

LEMMA BeginUse ==
  ASSUME TypeInv, TypeInv', UseInv, NEW p \in Procs,
         UploadImage(p) \/ UploadAvatar(p) \/ UpdateMe(p) \/ CreateProduct(p) \/ UpdateProduct(p)
  PROVE  UseInv'
<1>1. \A k \in Recent : Young(k)  BY DEF Recent, Young
<1>2. CASE UploadImage(p) \/ UploadAvatar(p)
  <2>1. PICK c : c \in FileCall /\ Serve(p, c, "put", Keep({})) /\ Elsewhere
    BY <1>2 DEF UploadImage, UploadAvatar, Upload, FileCall
  <2> QED  BY <2>1, ServeUse
<1>3. CASE UpdateMe(p)
  <2>1. PICK c \in ProfileCall : Serve(p, c, "profile", Keep({}))
    BY <1>3 DEF UpdateMe, ProfileCall
  <2> QED  BY <1>3, <2>1, ServeUse DEF UpdateMe
<1>4. CASE CreateProduct(p)
  <2>1. PICK g \in Products \ DOMAIN gallery, next \in SUBSET Recent :
          Serve(p, [kind |-> "create", product |-> g, next |-> next], "commit", Keep({}))
    BY <1>4 DEF CreateProduct
  <2>2. Shown(g) = {}  BY DEF Shown
  <2> QED  BY <1>1, <1>4, <2>1, <2>2, ServeUse DEF CreateProduct
<1>5. CASE UpdateProduct(p)
  <2>1. \E g \in DOMAIN gallery : \E next \in SUBSET (Recent \cup gallery[g]) :
          Serve(p, [kind |-> "update", product |-> g, next |-> next], "read", Keep({}))
    BY <1>5 DEF UpdateProduct
  <2>2. ASSUME NEW g \in DOMAIN gallery, NEW next \in SUBSET (Recent \cup gallery[g]),
               Serve(p, [kind |-> "update", product |-> g, next |-> next], "read", Keep({}))
        PROVE  UseInv'
    <3>1. \A k \in next : Young(k) \/ k \in Shown(g)  BY <1>1 DEF Shown
    <3> QED  BY <1>5, <2>2, <3>1, ServeUse DEF UpdateProduct
  <2> QED  BY <2>1, <2>2
<1> QED  BY <1>2, <1>3, <1>4, <1>5

LEMMA PutUse == ASSUME TypeInv, TypeInv', UseInv, NEW p \in Procs, Put(p)  PROVE UseInv'
<1>1. UNCHANGED <<clock, gallery, sweep, left, files>>
  BY DEF Put, Elsewhere, tables, background
<1>2. CASE End(p)  BY <1>1, <1>2, EndUse
<1>3. CASE Goto(p, "publish") /\ UNCHANGED <<call, seen>>
  <2>1. /\ \A q \in Procs \ {p} : pc'[q] = pc[q] /\ call'[q] = call[q] /\ seen'[q] = seen[q]
        /\ pc'[p] = "publish"
    BY <1>3 DEF Goto, TypeInv, VolumeTypeOK
  <2> QED  BY <1>1, <2>1, QuietUse DEF Saving
<1> QED  BY <1>2, <1>3 DEF Put

LEMMA PublishUse == ASSUME TypeInv, TypeInv', UseInv, NEW p \in Procs, Publish(p)  PROVE UseInv'
<1>1. PICK k \in Keys \ DOMAIN made :
        /\ files' = [j \in DOMAIN files \cup {k} |-> IF j = k THEN clock ELSE files[j]]
        /\ \/ End(p)
           \/ /\ seen' = [seen EXCEPT ![p] = Keep({k})]
              /\ Goto(p, "profile") /\ UNCHANGED call
  BY DEF Publish
<1>2. UNCHANGED <<clock, gallery, sweep, left>>
  BY DEF Publish, tables, background
<1>3. /\ \A q \in Procs \ {p} : pc'[q] = pc[q] /\ call'[q] = call[q] /\ seen'[q] = seen[q]
      /\ ~Saving(p)'
  BY <1>1 DEF End, Goto, Saving, TypeInv, VolumeTypeOK, TablesInv
<1>4. /\ \A j \in DOMAIN files : j \in DOMAIN files' /\ files'[j] = files[j] /\ files[j] <= files'[j]
      /\ \A j \in DOMAIN files' \ DOMAIN files : j \notin DOMAIN made
  BY <1>1, Numbers
<1>5. \A q \in Procs : FormInv(q)'
  BY <1>2, <1>3, <1>4, FormKept DEF UseInv
<1>6. \A q \in Procs : Saving(q)' => \A j \in call'[q].next : InUse(j) \/ Young(j)
  BY <1>3 DEF InUse, Saving
<1> QED  BY <1>2, <1>4, <1>5, <1>6, RequestUse

LEMMA ReadUse == ASSUME TypeInv, TypeInv', UseInv, NEW p \in Procs, Read(p)  PROVE UseInv'
<1> DEFINE drop == gallery[call[p].product] \ call[p].next
<1>1. UNCHANGED <<clock, gallery, sweep, left, files>>
  BY DEF Read, Elsewhere, tables, background
<1>2. /\ \A q \in Procs \ {p} : pc'[q] = pc[q] /\ call'[q] = call[q] /\ seen'[q] = seen[q]
      /\ pc'[p] = "touch" /\ call'[p] = call[p] /\ seen'[p] = Keep(drop)
  BY DEF Read, Goto, TypeInv, VolumeTypeOK, TablesInv
<1>3. pc[p] = "read" /\ Saving(p) /\ FormInv(p)
  BY DEF Read, Saving, UseInv
<1>4. \A k : Young(k)' = Young(k)  BY <1>1 DEF Young
<1>5. \A g : Shown(g)' = Shown(g)  BY <1>1 DEF Shown
<1>6. drop = Shown(call[p].product) \ call[p].next
  BY <1>3 DEF TypeInv, TablesInv, ProgramInv, Shown
<1> HIDE DEF drop
<1>7. FormInv(p)'
  BY <1>1, <1>2, <1>3, <1>4, <1>5, <1>6 DEF FormInv, Saving, Keep
<1>8. \A k \in call'[p].next : InUse(k) \/ Young(k)
  BY <1>2, <1>3 DEF InUse
<1> QED  BY <1>1, <1>2, <1>7, <1>8, QuietUse

LEMMA TouchUse == ASSUME TypeInv, TypeInv', UseInv, NEW p \in Procs, Touch(p)  PROVE UseInv'
<1>1. /\ files' = [k \in DOMAIN files |-> IF k \in seen[p].keys THEN clock ELSE files[k]]
      /\ UNCHANGED <<clock, gallery, sweep, left, call>>
  BY DEF Touch, tables, background
<1>2. /\ \A q \in Procs \ {p} : pc'[q] = pc[q] /\ call'[q] = call[q] /\ seen'[q] = seen[q]
      /\ pc'[p] = "commit" /\ call'[p] = call[p] /\ seen'[p] = Keep({})
  BY DEF Touch, Goto, TypeInv, VolumeTypeOK, TablesInv
<1>3. pc[p] = "touch" /\ Saving(p) /\ FormInv(p)
  BY DEF Touch, Saving, UseInv
<1>4. \A k \in seen[p].keys : InUse(k) \/ Young(k)
  BY <1>3, ShownReferenced DEF FormInv, InUse
<1>5. \A k \in DOMAIN files :
        /\ k \in DOMAIN files' /\ files[k] <= files'[k]
        /\ files'[k] = files[k] \/ (files'[k] = clock /\ (InUse(k) \/ Young(k)))
  BY <1>1, <1>4, Numbers
<1>6. \A k \in DOMAIN files : Young(k) \/ k \in seen[p].keys => Young(k)'
  BY <1>1, Numbers DEF Young
<1>7. (\A g : Shown(g)' = Shown(g)) /\ DOMAIN files' = DOMAIN files
  BY <1>1 DEF Shown
<1>8. \A k \in Shown(call[p].product) : k \in DOMAIN files
  BY ShownReferenced DEF UseInv, GalleriesServed
<1>9. FormInv(p)'
  BY <1>2, <1>3, <1>6, <1>7, <1>8 DEF FormInv, Saving
<1>10. \A q \in Procs : FormInv(q)'
  BY <1>1, <1>2, <1>5, <1>9, FormKept DEF UseInv
<1>11. \A q \in Procs : Saving(q)' => \A k \in call'[q].next : InUse(k) \/ Young(k)
  BY <1>2, <1>3 DEF InUse, Saving
<1> QED  BY <1>1, <1>5, <1>10, <1>11, RequestUse

\* A save: what it adds to the gallery is young, and so is what it removes.
LEMMA CommitUse == ASSUME TypeInv, TypeInv', UseInv, NEW p \in Procs, Commit(p)  PROVE UseInv'
<1> DEFINE g == call[p].product
           next == call[p].next
<1>1. /\ UNCHANGED <<clock, files, sweep>>
      /\ gallery' = [h \in DOMAIN gallery \cup {g} |-> IF h = g THEN next ELSE gallery[h]]
      /\ left' = [k \in DOMAIN left \cup (Referenced \ Referenced') |->
                    IF k \in Referenced \ Referenced' THEN clock ELSE left[k]]
  BY DEF Commit, background
<1>2. /\ \A q \in Procs \ {p} : pc'[q] = pc[q] /\ call'[q] = call[q] /\ seen'[q] = seen[q]
      /\ ~Saving(p)'
  BY DEF Commit, End, Goto, Saving, TypeInv, VolumeTypeOK, TablesInv
<1>3. pc[p] = "commit" /\ Saving(p) /\ FormInv(p)
  BY DEF Commit, Saving, UseInv
<1>4. /\ \A k \in next : k \in DOMAIN files /\ (Young(k) \/ k \in Shown(g))
      /\ \A k \in Shown(g) \ next : Young(k)
  BY <1>3 DEF FormInv
<1> HIDE DEF g, next
<1>5. \A k : Young(k)' = Young(k)  BY <1>1 DEF Young
<1>6. \A h : h # g => Shown(h)' = Shown(h)  BY <1>1 DEF Shown
<1>7. \A h : h = g => Shown(h)' = next  BY <1>1 DEF Shown
<1>8. \A k : k \in Referenced' <=> k \in next \/ \E h \in DOMAIN gallery \ {g} : k \in Shown(h)
  BY <1>1 DEF Referenced, Shown
<1>9. \A k : k \in Referenced <=> \E h \in DOMAIN gallery : k \in Shown(h)
  BY DEF Referenced, Shown
<1>10. \A k : k \in Shown(g) => g \in DOMAIN gallery  BY DEF Shown
<1>11. ASSUME NEW q \in Procs  PROVE FormInv(q)'
  <2>1. CASE ~Saving(q)'  BY <2>1 DEF FormInv, Saving
  <2>2. CASE Saving(q)'
    <3>1. q # p /\ pc'[q] = pc[q] /\ call'[q] = call[q] /\ seen'[q] = seen[q] /\ FormInv(q) /\ Saving(q)
      BY <1>2, <2>2 DEF Saving, UseInv
    <3>2. CASE call[q].product # g
      BY <1>1, <1>5, <1>6, <3>1, <3>2 DEF FormInv, Saving
    <3>3. CASE call[q].product = g
      <4>1. Shown(call[q].product)' = next
        BY <1>7, <3>1, <3>3
      <4>2. \A k \in call[q].next : k \in DOMAIN files' /\ (Young(k)' \/ k \in next)
        BY <1>1, <1>4, <1>5, <3>1, <3>3 DEF FormInv
      <4>3. pc[q] = "touch" => \A k \in seen[q].keys : Young(k)' \/ k \in next
        BY <1>4, <1>5, <3>1, <3>3 DEF FormInv
      <4>4. pc[q] \in {"touch", "commit"} =>
              \A k \in next \ call[q].next : Young(k)' \/ (pc[q] = "touch" /\ k \in seen[q].keys)
        BY <1>4, <1>5, <3>1, <3>3 DEF FormInv
      <4> QED  BY <3>1, <4>1, <4>2, <4>3, <4>4 DEF FormInv
    <3> QED  BY <3>2, <3>3
  <2> QED  BY <2>1, <2>2
<1>12. GalleriesServed'
  BY <1>1, <1>4, <1>8, <1>9 DEF UseInv, GalleriesServed
<1>13. \A k : InUse(k)' => InUse(k)
  <2> SUFFICES ASSUME NEW k, InUse(k)'  PROVE InUse(k)
    OBVIOUS
  <2>1. CASE k \in Referenced'
    <3>1. k \in next => InUse(k)  BY <1>3 DEF InUse, next
    <3> QED  BY <1>8, <1>9, <2>1, <3>1 DEF InUse
  <2>2. CASE k \notin Referenced'
    <3>1. PICK q \in Procs : Saving(q)' /\ k \in call'[q].next
      BY <2>2 DEF InUse
    <3> QED  BY <1>2, <3>1 DEF InUse, Saving
  <2> QED  BY <2>1, <2>2
<1>14. SweepInv'
  BY <1>1, <1>13 DEF UseInv, SweepInv, Expired
<1>15. LeftInv'
  <2> SUFFICES ASSUME NEW k \in DOMAIN left', k \in DOMAIN files  PROVE left'[k] <= files[k] + Patience
    BY <1>1 DEF LeftInv
  <2>1. CASE k \in Referenced /\ k \notin Referenced'
    <3>1. Young(k)  BY <1>4, <1>8, <1>9, <2>1
    <3>2. left'[k] = clock  BY <1>1, <2>1
    <3> QED  BY <3>1, <3>2, Numbers DEF Young
  <2>2. CASE ~(k \in Referenced /\ k \notin Referenced')
    <3>1. k \in DOMAIN left /\ left'[k] = left[k]  BY <1>1, <2>2
    <3> QED  BY <3>1 DEF UseInv, LeftInv
  <2> QED  BY <2>1, <2>2
<1> QED  BY <1>11, <1>12, <1>14, <1>15 DEF UseInv

\* The sweep deletes one file at most, which nobody uses.
LEMMA DeleteUse == ASSUME TypeInv, TypeInv', UseInv, Delete  PROVE UseInv'
<1>1. /\ files' = [j \in DOMAIN files \ sweep.target |-> files[j]]
      /\ left' = [j \in DOMAIN left \ sweep.target |-> left[j]]
      /\ sweep' = NextKey /\ UNCHANGED <<clock, gallery, pc, call, seen>>
  BY DEF Delete, tables, txVars
<1>2. \A k \in sweep.target \cap DOMAIN files : ~InUse(k) /\ ~Young(k)
  BY YoungStays DEF Delete, UseInv, SweepInv
<1>3. \A k : Young(k) => Young(k)'  BY <1>1, <1>2 DEF Young
<1>4. \A h : Shown(h)' = Shown(h)  BY <1>1 DEF Shown
<1>5. \A k : InUse(k) => k \in DOMAIN files'
  BY <1>1, <1>2, UsedPresent
<1>6. ASSUME NEW q \in Procs  PROVE FormInv(q)'
  <2>1. FormInv(q)  BY DEF UseInv
  <2>2. Saving(q) => \A k \in call[q].next : k \in DOMAIN files'
    BY <1>5 DEF InUse
  <2> QED  BY <1>1, <1>3, <1>4, <2>1, <2>2 DEF FormInv, Saving
<1>7. GalleriesServed'
  BY <1>1, <1>5 DEF GalleriesServed, InUse, Referenced
<1>8. SweepInv'
  <2>1. sweep'.target = {} /\ sweep'.step = "ask"
    BY <1>1 DEF NextKey, TypeInv, VolumeTypeOK
  <2> QED  BY <2>1 DEF SweepInv
<1>9. LeftInv'  BY <1>1 DEF UseInv, LeftInv
<1> QED  BY <1>6, <1>7, <1>8, <1>9 DEF UseInv

\* The other steps of the sweep.
LEMMA SweepUse ==
  ASSUME TypeInv, UseInv, StartSweep \/ Stat \/ EndSweep \/ \E k \in Keys : Ask(k) \/ AskFails(k)
  PROVE  UseInv'
<1>1. UNCHANGED <<files, left, clock, gallery, pc, call, seen>>
  BY DEF StartSweep, Stat, EndSweep, Ask, AskFails, Sweep, tables, txVars
<1>2. GalleriesServed' /\ LeftInv'
  BY <1>1 DEF UseInv, GalleriesServed, Referenced, LeftInv
<1>3. \A p \in Procs : FormInv(p)'
  BY <1>1 DEF UseInv, FormInv, Saving, Young, Shown
<1>4. \A k : InUse(k)' = InUse(k)
  BY <1>1 DEF InUse, Saving, Referenced
<1>5. sweep \in [step : {"idle", "ask", "stat", "delete"}, start : 0..clock,
                 todo : SUBSET DOMAIN made, target : SUBSET DOMAIN made]
  BY DEF TypeInv, VolumeTypeOK
<1>6. SweepInv'
  <2>1. CASE StartSweep \/ EndSweep
    <3>1. sweep'.target = {}  BY <2>1 DEF StartSweep, EndSweep, Sweep, NoSweep
    <3> QED  BY <3>1 DEF SweepInv
  <2>2. ASSUME NEW k \in Keys, AskFails(k)  PROVE SweepInv'
    <3>1. sweep'.target = sweep.target /\ sweep.step = "ask"
      BY <1>5, <2>2 DEF AskFails, Sweep
    <3>2. sweep'.target = {}  BY <3>1 DEF UseInv, SweepInv
    <3> QED  BY <3>2 DEF SweepInv
  <2>3. ASSUME NEW k \in Keys, Ask(k)  PROVE SweepInv'
    <3>1. /\ sweep'.target = (IF k \in Referenced THEN {} ELSE {k})
          /\ sweep'.step = (IF k \in Referenced THEN "ask" ELSE "stat")
          /\ sweep'.start = sweep.start
      BY <1>5, <2>3 DEF Ask, Sweep
    <3>2. CASE k \in Referenced  BY <3>1, <3>2 DEF SweepInv
    <3>3. CASE k \notin Referenced
      <4>1. InUse(k) => Young(k)
        BY <3>3, ShownReferenced DEF InUse, UseInv, FormInv
      <4>2. InUse(k) => sweep.start - files[k] < Grace
        BY <4>1, YoungStays
      <4> QED  BY <1>1, <1>4, <3>1, <3>3, <4>2 DEF SweepInv
    <3> QED  BY <3>2, <3>3
  <2>4. CASE Stat
    <3>1. CASE sweep' = NextKey
      <4>1. sweep'.target = {}  BY <1>5, <3>1 DEF NextKey
      <4> QED  BY <4>1 DEF SweepInv
    <3>2. CASE (\E k \in sweep.target \cap DOMAIN files : Expired(k)) /\ sweep' = [sweep EXCEPT !.step = "delete"]
      <4>1. sweep'.target = sweep.target /\ sweep'.step = "delete" /\ sweep'.start = sweep.start /\ sweep.step = "stat"
        BY <1>5, <2>4, <3>2 DEF Stat
      <4>2. \A k \in sweep.target : \A j \in sweep.target : j = k
        BY DEF UseInv, SweepInv
      <4>3. PICK k \in sweep.target \cap DOMAIN files : Expired(k)
        BY <3>2
      <4>4. ~(sweep.start - files[k] < Grace)
        BY <4>3, Numbers DEF Expired
      <4>5. ~InUse(k)
        BY <4>1, <4>4 DEF UseInv, SweepInv
      <4>6. Expired(k)' BY <1>1, <4>1, <4>3 DEF Expired
      <4> QED  BY <1>1, <1>4, <4>1, <4>2, <4>5, <4>6 DEF SweepInv
    <3> QED  BY <2>4, <3>1, <3>2 DEF Stat, Sweep
  <2> QED  BY <2>1, <2>2, <2>3, <2>4
<1> QED  BY <1>2, <1>3, <1>6 DEF UseInv

\* Time passes while there is no request; a crash leaves none.
LEMMA TimeUse == ASSUME TypeInv, UseInv, Pause \/ Tick \/ Crash  PROVE UseInv'
<1>1. UNCHANGED <<files, left, gallery>>
  BY DEF Pause, Tick, Crash, tables
<1>2. GalleriesServed' /\ LeftInv'
  BY <1>1 DEF UseInv, GalleriesServed, Referenced, LeftInv
<1>3. CASE Pause
  <2>1. UNCHANGED <<clock, sweep, pc, call, seen>>  BY <1>3 DEF Pause, txVars
  <2>2. \A p \in Procs : FormInv(p)'
    BY <1>1, <2>1 DEF UseInv, FormInv, Saving, Young, Shown
  <2>3. SweepInv'
    BY <1>1, <2>1 DEF UseInv, SweepInv, InUse, Saving, Referenced, Expired
  <2> QED  BY <1>2, <2>2, <2>3 DEF UseInv
<1>4. CASE Tick
  <2>1. UNCHANGED <<sweep, pc, call, seen>> /\ \A p \in Procs : pc[p] = "idle"
    BY <1>4 DEF Tick, txVars
  <2>2. \A p \in Procs : FormInv(p)'
    BY <2>1 DEF FormInv, Saving
  <2>3. SweepInv'
    BY <1>1, <2>1 DEF UseInv, SweepInv, InUse, Saving, Referenced, Expired
  <2> QED  BY <1>2, <2>2, <2>3 DEF UseInv
<1>5. CASE Crash
  <2>1. \A p \in Procs : FormInv(p)'
    BY <1>5 DEF Crash, FormInv, Saving
  <2>2. SweepInv'
    BY <1>5 DEF Crash, SweepInv, NoSweep
  <2> QED  BY <1>2, <2>1, <2>2 DEF UseInv
<1> QED  BY <1>3, <1>4, <1>5

LEMMA NextUse == ASSUME TypeInv, TypeInv', UseInv, [VolumeNext]_volumeVars  PROVE UseInv'
<1>1. ASSUME NEW p \in Procs, Profile(p) \/ Disconnect(p)  PROVE UseInv'
  <2>1. End(p) /\ UNCHANGED <<clock, gallery, sweep, left, files>>
    BY <1>1 DEF Profile, Disconnect, Elsewhere, tables, background
  <2> QED  BY <2>1, EndUse
<1>2. ASSUME UNCHANGED volumeVars  PROVE UseInv'
  BY <1>2 DEF volumeVars, txVars, UseInv, GalleriesServed, Referenced, FormInv, Saving, Young, Shown,
              SweepInv, InUse, Expired, LeftInv
<1> QED
  BY <1>1, <1>2, BeginUse, PutUse, PublishUse, ReadUse, TouchUse, CommitUse, DeleteUse, SweepUse, TimeUse
     DEF VolumeNext, Step

LEMMA VolumeCorrect == VolumeSpec => [](TypeInv /\ UseInv)
BY InitType, NextType, InitUse, NextUse, PTL DEF VolumeSpec

\* No picture that a product shows is ever deleted.
THEOREM GalleriesAlwaysServed == VolumeSpec => []GalleriesServed
<1>1. UseInv => GalleriesServed  BY DEF UseInv
<1> QED  BY <1>1, VolumeCorrect, PTL

\* A replaced image keeps its grace, but for the time its form took.
THEOREM GraceKept == VolumeSpec => GraceAfterReplacement
<1> DEFINE Kept ==
      \A k \in DOMAIN files \ DOMAIN files' :
        /\ k \notin Referenced
        /\ k \in DOMAIN left => left[k] + Grace <= clock + Patience
<1>1. ASSUME TypeInv, UseInv, [VolumeNext]_volumeVars  PROVE [Kept]_volumeVars
  <2> SUFFICES ASSUME VolumeNext, NEW k \in DOMAIN files, k \notin DOMAIN files'
               PROVE  k \notin Referenced /\ (k \in DOMAIN left => left[k] + Grace <= clock + Patience)
    BY <1>1
  <2>1. Delete
    <3>1. \A p \in Procs :
            UploadImage(p) \/ UploadAvatar(p) \/ UpdateMe(p) \/ CreateProduct(p) \/ UpdateProduct(p)
              \/ Put(p) \/ Profile(p) \/ Read(p) \/ Commit(p) \/ Disconnect(p) => files' = files
      BY DEF UploadImage, UploadAvatar, Upload, UpdateMe, CreateProduct, UpdateProduct, Put, Profile, Read,
             Commit, Disconnect, Elsewhere
    <3>2. \A p \in Procs : Publish(p) \/ Touch(p) => DOMAIN files \subseteq DOMAIN files'
      BY DEF Publish, Touch
    <3>3. StartSweep \/ Stat \/ EndSweep \/ Pause \/ Tick \/ Crash => files' = files
      BY DEF StartSweep, Stat, EndSweep, Pause, Tick, Crash
    <3>4. \A j \in Keys : Ask(j) \/ AskFails(j) => files' = files
      BY DEF Ask, AskFails
    <3> QED  BY <3>1, <3>2, <3>3, <3>4 DEF VolumeNext, Step
  <2>2. k \in sweep.target /\ sweep.step = "delete"
    BY <2>1 DEF Delete
  <2>3. ~InUse(k) /\ Expired(k)
    BY <1>1, <2>2 DEF UseInv, SweepInv
  <2>4. k \in DOMAIN left => left[k] <= files[k] + Patience
    BY <1>1 DEF UseInv, LeftInv
  <2> QED  BY <1>1, <2>3, <2>4, Numbers DEF InUse, Expired
<1> QED  BY <1>1, VolumeCorrect, PTL DEF VolumeSpec, GraceAfterReplacement

-----------------------------------------------------------------------------
(* The capacity *)

Publishing == {p \in Procs : pc[p] = "publish"}

RoomInv == IsFiniteSet(DOMAIN files) /\ CapacityKept

LEMMA AddedElement ==
  ASSUME NEW S, NEW x, IsFiniteSet(S)
  PROVE  /\ IsFiniteSet(S \cup {x}) /\ Cardinality(S \cup {x}) \in Nat
         /\ Cardinality(S \cup {x}) <= Cardinality(S) + 1
<1>1. IsFiniteSet(S \cup {x})  BY FS_AddElement
<1>2. Cardinality(S) \in Nat /\ Cardinality(S \cup {x}) \in Nat
  BY <1>1, FS_CardinalityType
<1>3. Cardinality(S \cup {x}) = IF x \in S THEN Cardinality(S) ELSE Cardinality(S) + 1
  BY FS_AddElement
<1> QED  BY <1>1, <1>2, <1>3

LEMMA RoomNumbers ==
  ASSUME TypeInv, RoomInv
  PROVE  /\ IsFiniteSet(Publishing) /\ Cardinality(Publishing) \in Nat
         /\ Cardinality(DOMAIN files) \in Nat /\ litter \in Nat /\ Capacity \in Nat
         /\ Cardinality(DOMAIN files) + litter + Cardinality(Publishing) <= Capacity
<1>1. IsFiniteSet(Publishing)  BY FS_Subset, VolumeAssumption DEF Publishing
<1> QED
  BY <1>1, FS_CardinalityType, VolumeAssumption DEF RoomInv, CapacityKept, Used, Publishing, TypeInv, VolumeTypeOK

\* Nothing more is written.
LEMMA RoomStays ==
  ASSUME TypeInv, RoomInv, litter' = litter, DOMAIN files' \subseteq DOMAIN files,
         Publishing' \subseteq Publishing
  PROVE  RoomInv'
<1>1. /\ IsFiniteSet(Publishing') /\ Cardinality(Publishing') <= Cardinality(Publishing)
      /\ IsFiniteSet(DOMAIN files') /\ Cardinality(DOMAIN files') <= Cardinality(DOMAIN files)
  BY RoomNumbers, FS_Subset DEF RoomInv
<1>2. Cardinality(Publishing') \in Nat /\ Cardinality(DOMAIN files') \in Nat
  BY <1>1, FS_CardinalityType
<1>3. Cardinality(DOMAIN files') + litter' + Cardinality(Publishing') <= Capacity
  BY <1>1, <1>2, RoomNumbers
<1> QED  BY <1>1, <1>3 DEF RoomInv, CapacityKept, Used, Publishing

LEMMA PutRoom == ASSUME TypeInv, RoomInv, NEW p \in Procs, Put(p)  PROVE RoomInv'
<1>1. litter' = litter /\ files' = files  BY DEF Put, Elsewhere
<1>2. CASE HasRoom
  <2>1. Publishing' = Publishing \cup {p}
    BY <1>2 DEF Put, Goto, Publishing, TypeInv, VolumeTypeOK
  <2>2. Cardinality(Publishing') <= Cardinality(Publishing) + 1 /\ Cardinality(Publishing') \in Nat
    BY <2>1, RoomNumbers, AddedElement
  <2>3. Cardinality(DOMAIN files) + litter + Cardinality(Publishing) + 1 <= Capacity
    BY <1>2 DEF HasRoom, Used, Publishing
  <2>4. Cardinality(DOMAIN files') + litter' + Cardinality(Publishing') <= Capacity
    BY <1>1, <2>2, <2>3, RoomNumbers
  <2> QED  BY <1>1, <2>4 DEF RoomInv, CapacityKept, Used, Publishing
<1>3. CASE ~HasRoom
  <2>1. Publishing' \subseteq Publishing
    BY <1>3 DEF Put, End, Goto, Publishing, TypeInv, VolumeTypeOK
  <2> QED  BY <1>1, <2>1, RoomStays
<1> QED  BY <1>2, <1>3

LEMMA PublishRoom == ASSUME TypeInv, RoomInv, NEW p \in Procs, Publish(p)  PROVE RoomInv'
<1>1. PICK k \in Keys : DOMAIN files' = DOMAIN files \cup {k}
  BY DEF Publish
<1>2. litter' = litter  BY DEF Publish
<1>3. p \in Publishing /\ Publishing' = Publishing \ {p}
  BY DEF Publish, End, Goto, Publishing, TypeInv, VolumeTypeOK
<1>4. Cardinality(Publishing') = Cardinality(Publishing) - 1 /\ Cardinality(Publishing') \in Nat
  BY <1>3, RoomNumbers, FS_RemoveElement, FS_CardinalityType
<1>5. /\ IsFiniteSet(DOMAIN files') /\ Cardinality(DOMAIN files') <= Cardinality(DOMAIN files) + 1
      /\ Cardinality(DOMAIN files') \in Nat
  BY <1>1, AddedElement DEF RoomInv
<1>6. Cardinality(DOMAIN files') + litter' + Cardinality(Publishing') <= Capacity
  BY <1>2, <1>4, <1>5, RoomNumbers
<1> QED  BY <1>5, <1>6 DEF RoomInv, CapacityKept, Used, Publishing

\* What was being written becomes litter.
LEMMA CrashRoom == ASSUME TypeInv, RoomInv, Crash  PROVE RoomInv'
<1>1. Publishing' = {} /\ Cardinality(Publishing') = 0
  BY FS_EmptySet DEF Crash, Publishing
<1>2. files' = files /\ litter' = litter + Cardinality(Publishing)
  BY DEF Crash, Publishing
<1>3. Cardinality(DOMAIN files') + litter' + Cardinality(Publishing') <= Capacity
  BY <1>1, <1>2, RoomNumbers
<1> QED  BY <1>2, <1>3 DEF RoomInv, CapacityKept, Used, Publishing

LEMMA NextRoom == ASSUME TypeInv, RoomInv, [VolumeNext]_volumeVars  PROVE RoomInv'
<1>1. ASSUME NEW p \in Procs,
             \/ UploadImage(p) \/ UploadAvatar(p) \/ UpdateMe(p) \/ CreateProduct(p) \/ UpdateProduct(p)
             \/ Profile(p) \/ Read(p) \/ Touch(p) \/ Commit(p) \/ Disconnect(p)
      PROVE  RoomInv'
  <2>1. litter' = litter /\ DOMAIN files' = DOMAIN files
    BY <1>1 DEF UploadImage, UploadAvatar, Upload, UpdateMe, CreateProduct, UpdateProduct,
                Profile, Read, Touch, Commit, Disconnect, Elsewhere
  <2>2. \E w \in Steps \ {"publish"} : pc' = [pc EXCEPT ![p] = w]
    BY <1>1 DEF UploadImage, UploadAvatar, Upload, UpdateMe, CreateProduct, UpdateProduct,
                Profile, Read, Touch, Commit, Disconnect, Serve, End, Goto, Steps
  <2>3. Publishing' \subseteq Publishing
    BY <2>2 DEF Publishing, TypeInv, VolumeTypeOK
  <2> QED  BY <2>1, <2>3, RoomStays
<1>2. ASSUME StartSweep \/ Stat \/ Delete \/ EndSweep \/ (\E k \in Keys : Ask(k) \/ AskFails(k)) \/ Pause \/ Tick
             \/ UNCHANGED volumeVars
      PROVE  RoomInv'
  <2>1. litter' = litter /\ DOMAIN files' \subseteq DOMAIN files /\ pc' = pc
    BY <1>2 DEF StartSweep, Stat, Delete, EndSweep, Ask, AskFails, Sweep, Pause, Tick, volumeVars, txVars
  <2> QED  BY <2>1, RoomStays DEF Publishing
<1> QED  BY <1>1, <1>2, PutRoom, PublishRoom, CrashRoom DEF VolumeNext, Step

\* Concurrent uploads and crashes never fill more than the volume.
THEOREM CapacityNeverExceeded == VolumeSpec => []CapacityKept
<1>1. VolumeInit => RoomInv
  <2> SUFFICES ASSUME VolumeInit  PROVE RoomInv
    OBVIOUS
  <2>1. DOMAIN files = {} /\ litter = 0 /\ Publishing = {}
    BY DEF VolumeInit, TxInit, Publishing
  <2>2. IsFiniteSet(DOMAIN files) /\ Cardinality(DOMAIN files) = 0 /\ Cardinality(Publishing) = 0
    BY <2>1, FS_EmptySet
  <2> QED  BY <2>1, <2>2, VolumeAssumption DEF RoomInv, CapacityKept, Used, Publishing
<1>2. RoomInv => CapacityKept  BY DEF RoomInv
<1> QED  BY <1>1, <1>2, InitType, NextType, NextRoom, PTL DEF VolumeSpec
=============================================================================
