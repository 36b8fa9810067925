----------------------------- MODULE ImageVolume -----------------------------
(***************************************************************************)
(* The image volume, the galleries and avatars that refer to its files, and *)
(* the periodic sweep that deletes the files no product refers to.  Files   *)
(* and tables do not change together: an upload stores first and is named   *)
(* later, a product update touches the files it drops before it commits,    *)
(* and the sweep asks, looks and deletes in three separate steps.           *)
(*                                                                         *)
(* The clock counts in units longer than any request, so time moves while   *)
(* there is none; the sweep may last for several units.  Every file has     *)
(* size one, and the disk does not fail.                                    *)
(***************************************************************************)
EXTENDS Integers, FiniteSets, Transactions

CONSTANTS
  Products, Buyers,
  Keys,        \* file names, a fresh UUID for each upload
  Grace,       \* IMAGE_GRACE_PERIOD
  Patience,    \* longest time between an upload and the save of a form with it
  Capacity,    \* IMAGE_STORAGE_CAPACITY, in files
  MaxClock,    \* bound on the clock
  MaxCrashes   \* bound on the crashes of the server

ASSUME VolumeAssumption ==
  /\ Keys \subseteq Nat
  /\ Grace \in Nat /\ Patience \in Nat /\ Patience < Grace
  /\ Capacity \in Nat /\ MaxClock \in Nat /\ MaxCrashes \in Nat /\ IsFiniteSet(Procs)

VARIABLES
  clock,
  pause,     \* time is about to move: no request begins before it has
  files,     \* the volume: modification time of each file present
  litter,    \* temporary files that a crash left in the volume
  gallery,   \* products.images: the keys each product refers to
  avatar,    \* users.avatar_url: the key each buyer refers to, if any
  made,      \* the keys given out so far, and what for
  sweep,     \* runImageCleanupLoop: its step, start, remaining keys, target
  crashes,
  left       \* history: when each key last left the galleries

volumeVars == <<clock, pause, files, litter, gallery, avatar, made, sweep, crashes, left, txVars>>

tables == <<gallery, avatar>>
background == <<clock, pause, sweep, crashes>>

Volume == <<"volume">>     \* LocalVolume.mu
NoSweep == [step |-> "idle", start |-> 0, todo |-> {}, target |-> {}]

Referenced == UNION {gallery[g] : g \in DOMAIN gallery}

\* usedBytesLocked counts what is being written and what was left behind too.
Used == Cardinality(DOMAIN files) + litter + Cardinality({p \in Procs : pc[p] = "publish"})

HasRoom == Used + 1 <= Capacity

\* What a request remembers: the keys it dropped, or the one it was given.
Keep(K) == [keys |-> K]

\* Product ids under way are fresh.
Creating == {call[p].product : p \in {q \in Procs : call[q].kind = "create"}}

Uploading == {p \in Procs : call[p].kind \in {"image", "avatar"}}

\* Keys an administrator may put into a form now.
Recent == {k \in DOMAIN files : made[k] = "image" /\ clock - files[k] <= Patience}

\* What every action on the requests leaves alone.
Elsewhere == UNCHANGED <<files, litter, made, left, tables, background>>

-----------------------------------------------------------------------------
(* Uploads *)

\* The handlers look for room before they generate a key; a full volume is
\* answered without a trace.
Upload(p, c) ==
  /\ ~pause
  /\ Cardinality(Uploading) < Cardinality(Keys \ DOMAIN made)
  /\ Free(Volume, p) /\ HasRoom
  /\ Serve(p, c, "put", Keep({}))
  /\ Elsewhere

UploadImage(p) == Upload(p, [kind |-> "image"])

UploadAvatar(p) == \E b \in Buyers : Upload(p, [kind |-> "avatar", buyer |-> b])

\* Mutant of Put: the handler's look is trusted.
PutUnchecked(p) ==
  /\ pc[p] = "put"
  /\ Lock(p, Volume)
  /\ Goto(p, "publish")
  /\ UNCHANGED <<call, seen, answer>>
  /\ Elsewhere

\* LocalVolume.Put looks again under its mutex and writes a temporary file.
Put(p) ==
  /\ pc[p] = "put"
  /\ Free(Volume, p)
  /\ IF HasRoom
     THEN Lock(p, Volume) /\ Goto(p, "publish") /\ UNCHANGED <<call, seen, answer>>
     ELSE End(p)
  /\ Elsewhere

\* The rename; an image upload is over, an avatar is written to the profile.
Publish(p) ==
  /\ pc[p] = "publish"
  /\ \E k \in Keys \ DOMAIN made :
       /\ \A j \in Keys \ DOMAIN made : k <= j
       /\ files' = [j \in DOMAIN files \cup {k} |-> IF j = k THEN clock ELSE files[j]]
       /\ made' = [j \in DOMAIN made \cup {k} |-> IF j = k THEN call[p].kind ELSE made[j]]
       /\ IF call[p].kind = "image" THEN End(p)
          ELSE /\ seen' = [seen EXCEPT ![p] = Keep({k})]
               /\ held' = [held EXCEPT ![p] = {}]
               /\ Goto(p, "profile")
               /\ UNCHANGED <<call, answer>>
  /\ UNCHANGED <<litter, left, tables, background>>

\* A buyer's own edit of the profile may put a picture from elsewhere there.
UpdateMe(p) ==
  /\ ~pause
  /\ \E b \in Buyers : Serve(p, [kind |-> "profile", buyer |-> b], "profile", Keep({}))
  /\ Elsewhere

\* UpdateProfile, one UPDATE.
Profile(p) ==
  /\ pc[p] = "profile"
  /\ avatar' = [avatar EXCEPT ![call[p].buyer] = seen[p].keys]
  /\ End(p)
  /\ UNCHANGED <<files, litter, made, left, gallery, background>>

-----------------------------------------------------------------------------
(* Products *)

Row(g) == <<"product", g>>

\* A form names images that were uploaded for it, and those of its product.
CreateProduct(p) ==
  /\ ~pause
  /\ \E g \in Products \ (DOMAIN gallery \cup Creating), next \in SUBSET Recent :
       Serve(p, [kind |-> "create", product |-> g, next |-> next], "commit", Keep({}))
  /\ Elsewhere

UpdateProduct(p) ==
  /\ ~pause
  /\ \E g \in DOMAIN gallery : \E next \in SUBSET (Recent \cup gallery[g]) :
       Serve(p, [kind |-> "update", product |-> g, next |-> next], "read", Keep({}))
  /\ Elsewhere

\* Update's plain read: the keys that it will have dropped.
Read(p) ==
  /\ pc[p] = "read"
  /\ seen' = [seen EXCEPT ![p] = Keep(gallery[call[p].product] \ call[p].next)]
  /\ Goto(p, "touch")
  /\ UNCHANGED <<call, held, answer>>
  /\ Elsewhere

\* Mutant of Touch: dropped files keep their age.
TouchNothing(p) ==
  /\ pc[p] = "touch"
  /\ Lock(p, Row(call[p].product))
  /\ Goto(p, "commit")
  /\ UNCHANGED <<call, seen, answer>>
  /\ Elsewhere

\* The UPDATE takes the row, and each dropped file that is still there gets the
\* time of its replacement; a file that cannot be touched is passed over.
Touch(p) ==
  /\ pc[p] = "touch"
  /\ Lock(p, Row(call[p].product))
  /\ files' = [k \in DOMAIN files |-> IF k \in seen[p].keys THEN clock ELSE files[k]]
  /\ Goto(p, "commit")
  /\ seen' = [seen EXCEPT ![p] = Keep({})]
  /\ UNCHANGED <<call, answer>>
  /\ UNCHANGED <<litter, made, left, tables, background>>

\* The gallery is replaced, or inserted with a new product.
Commit(p) ==
  /\ pc[p] = "commit"
  /\ LET g == call[p].product
     IN  /\ gallery' = [h \in DOMAIN gallery \cup {g} |->
                          IF h = g THEN call[p].next ELSE gallery[h]]
         /\ left' = [k \in DOMAIN left \cup (Referenced \ Referenced') |->
                       IF k \in Referenced \ Referenced' THEN clock ELSE left[k]]
  /\ End(p)
  /\ UNCHANGED <<files, litter, made, avatar, background>>

\* The client hangs up, or a statement fails; a temporary file is removed.
Disconnect(p) ==
  /\ pc[p] # "idle"
  /\ End(p)
  /\ Elsewhere

-----------------------------------------------------------------------------
(* The sweep *)

Sweep(s) == sweep' = s /\ UNCHANGED <<clock, pause, crashes, litter, made, left, tables, txVars>>

NextKey == [sweep EXCEPT !.step = "ask", !.target = {}]

\* ListObjects: litter has no valid key.
Listed == DOMAIN files

\* The loop starts a sweep, whose idea of now is read once.
StartSweep ==
  /\ sweep.step = "idle"
  /\ Sweep([step |-> "ask", start |-> clock, todo |-> Listed, target |-> {}])
  /\ UNCHANGED files

\* IsImageKeyReferenced
Ask(k) ==
  /\ sweep.step = "ask" /\ k \in sweep.todo
  /\ Sweep([sweep EXCEPT !.todo = @ \ {k},
                         !.target = IF k \in Referenced THEN {} ELSE {k},
                         !.step = IF k \in Referenced THEN "ask" ELSE "stat"])
  /\ UNCHANGED files

\* An error of the resolver passes the key over.
AskFails(k) ==
  /\ sweep.step = "ask" /\ k \in sweep.todo
  /\ Sweep([sweep EXCEPT !.todo = @ \ {k}])
  /\ UNCHANGED files

\* Mutant of Expired: by the time it is now.
ExpiredByNow(k) == clock - files[k] >= Grace

\* Mutant of Expired: a sweep that comes when the grace ends spares the file.
ExpiredLater(k) == sweep.start - files[k] > Grace

\* The file's grace period was over when the sweep started.
Expired(k) == sweep.start - files[k] >= Grace

\* The file is looked at again: it may be gone, or touched meanwhile.
Stat ==
  /\ sweep.step = "stat"
  /\ Sweep(IF \E k \in sweep.target \cap DOMAIN files : Expired(k)
           THEN [sweep EXCEPT !.step = "delete"] ELSE NextKey)
  /\ UNCHANGED files

Delete ==
  /\ sweep.step = "delete"
  /\ files' = [j \in DOMAIN files \ sweep.target |-> files[j]]
  /\ left' = [j \in DOMAIN left \ sweep.target |-> left[j]]
  /\ sweep' = NextKey
  /\ UNCHANGED <<clock, pause, crashes, litter, made, tables, txVars>>

EndSweep ==
  /\ sweep.step = "ask" /\ sweep.todo = {}
  /\ Sweep(NoSweep)
  /\ UNCHANGED files

-----------------------------------------------------------------------------
Pause ==
  /\ clock < MaxClock /\ ~pause
  /\ pause' = TRUE
  /\ UNCHANGED <<clock, files, litter, made, left, tables, sweep, crashes, txVars>>

Tick ==
  /\ pause /\ clock < MaxClock /\ \A p \in Procs : pc[p] = "idle"
  /\ clock' = clock + 1 /\ pause' = FALSE
  /\ UNCHANGED <<files, litter, made, left, tables, sweep, crashes, txVars>>

\* The server stops at any moment: transactions roll back, the sweep is gone,
\* and what was being written stays under its temporary name.
Crash ==
  /\ crashes < MaxCrashes
  /\ crashes' = crashes + 1
  /\ litter' = litter + Cardinality({p \in Procs : pc[p] = "publish"})
  /\ pc' = [p \in Procs |-> "idle"]
  /\ call' = [p \in Procs |-> NoCall]
  /\ seen' = [p \in Procs |-> NoCall]
  /\ held' = [p \in Procs |-> {}]
  /\ sweep' = NoSweep
  /\ UNCHANGED <<clock, pause, files, made, left, tables, answer>>

VolumeInit ==
  /\ clock = 0 /\ pause = FALSE /\ litter = 0 /\ crashes = 0
  /\ files = <<>> /\ made = <<>> /\ gallery = <<>> /\ left = <<>>
  /\ avatar = [b \in Buyers |-> {}]
  /\ sweep = NoSweep
  /\ TxInit

Step(p) ==
  Put(p) \/ Publish(p) \/ Profile(p) \/ Read(p) \/ Touch(p) \/ Commit(p)

VolumeNext ==
  \/ \E p \in Procs :
       UploadImage(p) \/ UploadAvatar(p) \/ UpdateMe(p) \/ CreateProduct(p) \/ UpdateProduct(p)
         \/ Step(p) \/ Disconnect(p)
  \/ StartSweep \/ Stat \/ Delete \/ EndSweep
  \/ \E k \in Keys : Ask(k) \/ AskFails(k)
  \/ Pause \/ Tick \/ Crash

VolumeSpec == VolumeInit /\ [][VolumeNext]_volumeVars

\* Requests end, time passes, the loop's ticker fires,
\* and the database answers the question about a key if it is asked forever.
VolumeFairness ==
  /\ \A p \in Procs : SF_volumeVars(Step(p))
  /\ WF_volumeVars(Pause) /\ WF_volumeVars(Tick)
  /\ WF_volumeVars(StartSweep) /\ WF_volumeVars(Stat) /\ WF_volumeVars(Delete)
  /\ WF_volumeVars(EndSweep)
  /\ \A k \in Keys : SF_volumeVars(Ask(k))

VolumeFairSpec == VolumeSpec /\ VolumeFairness

-----------------------------------------------------------------------------
(* Properties *)

VolumeTypeOK ==
  /\ clock \in 0..MaxClock /\ pause \in BOOLEAN /\ litter \in Nat /\ crashes \in 0..MaxCrashes
  /\ DOMAIN made \subseteq Keys /\ made \in [DOMAIN made -> {"image", "avatar"}]
  /\ DOMAIN files \subseteq DOMAIN made /\ files \in [DOMAIN files -> 0..clock]
  /\ DOMAIN gallery \subseteq Products /\ gallery \in [DOMAIN gallery -> SUBSET DOMAIN made]
  /\ avatar \in [Buyers -> SUBSET DOMAIN made]
  /\ DOMAIN left \subseteq DOMAIN made /\ left \in [DOMAIN left -> 0..clock]
  /\ sweep \in [step : {"idle", "ask", "stat", "delete"}, start : 0..clock,
                todo : SUBSET DOMAIN made, target : SUBSET DOMAIN made]
  /\ pc \in [Procs -> {"idle", "put", "publish", "profile", "read", "touch", "commit"}]
  /\ \A p \in Procs : held[p] # {} => pc[p] \in {"publish", "commit"}

\* Every picture a product shows is there to be shown, whatever the sweep, the
\* updates, the uploads and the crashes do meanwhile.
GalleriesServed == Referenced \subseteq DOMAIN files

\* The grace period of a replaced image starts at its replacement: no file goes
\* while a product refers to it, or less than Grace after the last one did.  An
\* update that overlapped the one that put an image into the gallery may remove
\* it without having seen it, and so without a touch: such an image loses as
\* much of its grace as its form took to be saved.
GraceAfterReplacement ==
  [][\A k \in DOMAIN files \ DOMAIN files' :
       /\ k \notin Referenced
       /\ k \in DOMAIN left => left[k] + Grace <= clock + Patience]_volumeVars

\* Concurrent uploads cannot jointly exceed the capacity, temporary files and
\* what crashes leave behind included.
CapacityKept == Used <= Capacity

\* A file that no product refers to is deleted in the end, once its grace
\* period is over (if it ends before the clock does).
OrphansGo ==
  \A k \in Keys :
    []<>(k \in DOMAIN files => k \in Referenced \/ files[k] + Grace > MaxClock)

\* specs/buyer-auth: after an upload, every later read returns the new avatar.
AvatarsServed == \A b \in Buyers : avatar[b] \subseteq DOMAIN files
=============================================================================
