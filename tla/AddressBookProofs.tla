------------------------- MODULE AddressBookProofs -------------------------
(* Theorems about AddressBook, for every value of its constants. *)
EXTENDS AddressBook, FiniteSetTheorems, TLAPS

-----------------------------------------------------------------------------
(* The invariant *)

Calls == CreateCalls \cup EditCalls \cup DeleteCalls \cup OrderCalls

Noted(s) == s = [flag |-> s.flag, target |-> s.target, cleared |-> s.cleared]

\* The call is to make a default of a row that was none.
Promoting(c, s) == Becomes(c) /\ ~s.flag

Named(c) == c.kind \in {"edit", "delete"}

\* A process at statement w of call c runs its own program on notes s ...
ProgramOK(w, c, s) ==
  /\ w \in {"idle", "read", "snapshot", "clear", "row", "index", "buyer", "commit", "done"}
  /\ c \in Calls \cup {NoCall}
  /\ w # "idle" => c \in Calls
  /\ w = "read" => c.kind = "edit"
  /\ w \in {"snapshot", "clear", "index"} => Promoting(c, s)
  /\ w = "row" => c.kind \in {"edit", "delete", "order"}
  /\ w = "buyer" => c.kind \in {"create", "order"}
  /\ w \notin {"idle", "done"} => Noted(s) /\ s.flag \in BOOLEAN
  /\ w \notin {"idle", "done"} /\ c.kind = "create" => ~s.flag
  /\ w \notin {"idle", "done"} /\ ~Promoting(c, s) => s.cleared = {}
  /\ w \in {"read", "snapshot", "clear"} => s.cleared = {}

\* ... has locked the rows it is about to write, which are as it found them ...
LocksOK(w, c, s, h) ==
  /\ w \in {"idle", "done"} => h = {}
  /\ w \notin {"idle", "done"} =>
       /\ s.cleared \subseteq Defaults
       /\ \A a \in s.cleared : <<"address", a>> \in h
       /\ s.cleared # {} => Slot \in h
       /\ \A a \in Addresses : <<"address", a>> \in h => a \in DOMAIN book
  /\ w \in {"index", "commit"} /\ Named(c) =>
       /\ <<"address", c.address>> \in h /\ c.address \in DOMAIN book
       /\ c.address \in Defaults => Slot \in h
  /\ w \in {"buyer", "commit"} /\ Promoting(c, s) =>
       Slot \in h /\ Defaults \subseteq s.cleared \cup (IF c.kind = "edit" THEN {c.address} ELSE {})

\* ... and who has the index entry has locked the default.
SlotOK(h) == Slot \in h => \A a \in Defaults : <<"address", a>> \in h

ProcOK(w, c, s, h) == ProgramOK(w, c, s) /\ LocksOK(w, c, s, h) /\ SlotOK(h)

ShapeInv ==
  /\ pc = [p \in Procs |-> pc[p]] /\ call = [p \in Procs |-> call[p]]
  /\ seen = [p \in Procs |-> seen[p]] /\ held = [p \in Procs |-> held[p]]
  /\ answer = [p \in Procs |-> answer[p]] /\ tries = [p \in Procs |-> tries[p]]
  /\ \A p \in Procs : answer[p] \in {"none", "ok", "rejected", "error", "lost"} /\ tries[p] \in 1..Attempts

Finished == {p \in Procs : pc[p] = "done"}

\* Every edit of a row ended a call.
TableInv ==
  /\ DOMAIN book \subseteq Addresses \ gone
  /\ book \in [DOMAIN book -> [default : BOOLEAN, version : Nat \ {0}]]
  /\ OneDefault
  /\ \A a \in DOMAIN book : book[a].version <= Cardinality(Finished) + 1

\* Rows and the index entry have one holder; the buyer's row can be shared.
Exclusive(h, k) == h \cap k \subseteq {Share}

BookInv ==
  /\ TableInv /\ ShapeInv
  /\ \A p \in Procs : ProcOK(pc[p], call[p], seen[p], held[p])
  /\ \A p, q \in Procs : p # q => Exclusive(held[p], held[q])

-----------------------------------------------------------------------------
(* What the steps of others leave alone *)

\* The rows in h stay as they are, and so does the default if h has the index.
Keeps(h) ==
  /\ \A a \in DOMAIN book : <<"address", a>> \in h => a \in DOMAIN book' /\ book'[a] = book[a]
  /\ \A a \in DOMAIN book' : <<"address", a>> \in h => a \in DOMAIN book
  /\ Slot \in h => Defaults' = Defaults

LEMMA CallFacts ==
  ASSUME NEW c \in Calls
  PROVE  \/ c \in CreateCalls /\ c.kind = "create" /\ c.default \in BOOLEAN
         \/ c \in EditCalls /\ c.kind = "edit" /\ c.address \in Addresses /\ c.default \in {"keep", "yes", "no"}
         \/ c \in DeleteCalls /\ c.kind = "delete" /\ c.address \in Addresses
         \/ c \in OrderCalls /\ c.kind = "order" /\ c.address \in Addresses
<1>1. CASE c \in CreateCalls
  <2>1. c \in [kind : {"create"}, default : BOOLEAN]  BY <1>1, BookAssumption
  <2> QED  BY <1>1, <2>1
<1>2. CASE c \in EditCalls
  <2>1. c \in [kind : {"edit"}, address : Addresses, default : {"keep", "yes", "no"}, content : BOOLEAN]
    BY <1>2, BookAssumption
  <2> QED  BY <1>2, <2>1
<1>3. CASE c \in DeleteCalls
  <2>1. c \in [kind : {"delete"}, address : Addresses]  BY <1>3, BookAssumption
  <2> QED  BY <1>3, <2>1
<1>4. CASE c \in OrderCalls
  <2>1. c \in [kind : {"order"}, address : Addresses]  BY <1>4, BookAssumption
  <2> QED  BY <1>4, <2>1
<1> QED  BY <1>1, <1>2, <1>3, <1>4 DEF Calls

LEMMA ProcKept ==
  ASSUME NEW w, NEW c, NEW s, NEW h, ProcOK(w, c, s, h), Keeps(h)
  PROVE  ProcOK(w, c, s, h)'
<1>1. ProgramOK(w, c, s) /\ LocksOK(w, c, s, h) /\ SlotOK(h)
  BY DEF ProcOK
<1>2. ProgramOK(w, c, s)'
  BY <1>1 DEF ProgramOK, Promoting, Becomes
<1>3. \A a : <<"address", a>> \in h => (a \in Defaults' <=> a \in Defaults)
  BY DEF Keeps, Defaults
<1>4. SlotOK(h)'
  BY <1>1 DEF SlotOK, Keeps
<1>5. LocksOK(w, c, s, h)'
  <2>1. w \notin {"idle", "done"} => s.cleared \subseteq Defaults'
    BY <1>1, <1>3 DEF LocksOK
  <2>2. w \in {"index", "commit"} /\ Named(c) =>
          c.address \in DOMAIN book' /\ (c.address \in Defaults' => Slot \in h)
    BY <1>1, <1>3 DEF LocksOK, Keeps
  <2>3. w \in {"buyer", "commit"} /\ Promoting(c, s) =>
          Slot \in h /\ Defaults' \subseteq s.cleared \cup (IF c.kind = "edit" THEN {c.address} ELSE {})
    BY <1>1 DEF LocksOK, Keeps
  <2>4. w \notin {"idle", "done"} =>
          \A a \in Addresses : <<"address", a>> \in h => a \in DOMAIN book'
    BY <1>1 DEF LocksOK, Keeps
  <2> QED  BY <1>1, <2>1, <2>2, <2>3, <2>4 DEF LocksOK, Named, Promoting, Becomes
<1> QED  BY <1>2, <1>4, <1>5 DEF ProcOK

LEMMA SameBook == UNCHANGED book => \A h : Keeps(h)
BY DEF Keeps, Defaults

LEMMA Facts ==
  ASSUME BookInv, NEW p \in Procs
  PROVE  /\ ProgramOK(pc[p], call[p], seen[p]) /\ LocksOK(pc[p], call[p], seen[p], held[p])
         /\ SlotOK(held[p])
         /\ \A q \in Procs \ {p} : Exclusive(held[p], held[q])
BY DEF BookInv, ProcOK

\* Process p takes a step, and the rows that the others have locked stay.
LEMMA LocalStep ==
  ASSUME BookInv, NEW p \in Procs, ShapeInv', TableInv',
         \A q \in Procs \ {p} : Keeps(held[q]),
         \A q \in Procs \ {p} :
           /\ pc'[q] = pc[q] /\ call'[q] = call[q] /\ seen'[q] = seen[q] /\ held'[q] = held[q],
         ProcOK(pc[p], call[p], seen[p], held[p])',
         \A q \in Procs \ {p} : Exclusive(held'[p], held[q])
  PROVE  BookInv'
<1>1. ASSUME NEW q \in Procs  PROVE ProcOK(pc[q], call[q], seen[q], held[q])'
  <2>1. CASE q # p
    <3>1. PICK w, c, s, h : w = pc[q] /\ c = call[q] /\ s = seen[q] /\ h = held[q]
      OBVIOUS
    <3>2. ProcOK(w, c, s, h) /\ Keeps(h)  BY <2>1, <3>1 DEF BookInv
    <3>3. ProcOK(w, c, s, h)'  BY <3>2, ProcKept
    <3> QED  BY <2>1, <3>1, <3>3
  <2> QED  BY <2>1
<1>2. ASSUME NEW q \in Procs, NEW r \in Procs, q # r  PROVE Exclusive(held'[q], held'[r])
  <2>1. CASE q # p /\ r # p
    BY <1>2, <2>1 DEF BookInv
  <2>2. CASE q = p
    BY <1>2, <2>2
  <2>3. CASE r = p
    <3>1. Exclusive(held'[p], held[q])  BY <1>2, <2>3
    <3> QED  BY <1>2, <2>3, <3>1 DEF Exclusive
  <2> QED  BY <2>1, <2>2, <2>3
<1>3. (\A q, r \in Procs : q # r => Exclusive(held[q], held[r]))'
  BY <1>2
<1> QED  BY <1>1, <1>3 DEF BookInv

\* Process p goes on to statement w of its transaction, and the book stays.
LEMMA Moved ==
  ASSUME BookInv, NEW p \in Procs, NEW w, NEW c, NEW s, NEW h, NEW t \in 1..Attempts,
         Goto(p, w), w # "done", pc[p] # "done",
         call' = [call EXCEPT ![p] = c] \/ (UNCHANGED call /\ c = call[p]),
         seen' = [seen EXCEPT ![p] = s] \/ (UNCHANGED seen /\ s = seen[p]),
         held' = [held EXCEPT ![p] = h] \/ (UNCHANGED held /\ h = held[p]),
         tries' = [tries EXCEPT ![p] = t] \/ (UNCHANGED tries /\ t = tries[p]),
         UNCHANGED <<book, gone, answer>>, ProcOK(w, c, s, h),
         \A q \in Procs \ {p} : Exclusive(h, held[q])
  PROVE  BookInv'
<1>1. /\ pc'[p] = w /\ call'[p] = c /\ seen'[p] = s /\ held'[p] = h /\ tries'[p] = t
      /\ \A q \in Procs \ {p} :
           /\ pc'[q] = pc[q] /\ call'[q] = call[q] /\ seen'[q] = seen[q]
           /\ held'[q] = held[q] /\ tries'[q] = tries[q]
  BY DEF Goto, BookInv, ShapeInv
<1>2. ShapeInv'
  <2>1. pc' = [q \in Procs |-> pc'[q]]  BY DEF Goto, BookInv, ShapeInv
  <2>2. call' = [q \in Procs |-> call'[q]]  BY DEF BookInv, ShapeInv
  <2>3. seen' = [q \in Procs |-> seen'[q]]  BY DEF BookInv, ShapeInv
  <2>4. held' = [q \in Procs |-> held'[q]]  BY DEF BookInv, ShapeInv
  <2>5. tries' = [q \in Procs |-> tries'[q]]  BY DEF BookInv, ShapeInv
  <2>6. answer' = [q \in Procs |-> answer'[q]]  BY DEF BookInv, ShapeInv
  <2>7. \A q \in Procs : answer'[q] \in {"none", "ok", "rejected", "error", "lost"} /\ tries'[q] \in 1..Attempts
    BY <1>1 DEF BookInv, ShapeInv
  <2> QED  BY <2>1, <2>2, <2>3, <2>4, <2>5, <2>6, <2>7 DEF ShapeInv
<1>3. TableInv'
  <2>1. Finished' = Finished  BY <1>1 DEF Finished
  <2>2. TableInv  BY DEF BookInv
  <2> QED  BY <2>1, <2>2 DEF TableInv, OneDefault
<1>4. \A k : Keeps(k)  BY SameBook
<1>5. ProcOK(w, c, s, h)'  BY <1>4, ProcKept
<1>6. ProcOK(pc[p], call[p], seen[p], held[p])'  BY <1>1, <1>5
<1> QED  BY <1>1, <1>2, <1>3, <1>4, <1>6, LocalStep

LEMMA OneMoreFinished ==
  ASSUME NEW p \in Procs, pc[p] # "done", pc'[p] = "done", \A q \in Procs \ {p} : pc'[q] = pc[q]
  PROVE  Cardinality(Finished) \in Nat /\ Cardinality(Finished') = Cardinality(Finished) + 1
<1>1. IsFiniteSet(Finished)  BY BookAssumption, FS_Subset DEF Finished
<1>2. p \notin Finished /\ Finished' = Finished \cup {p}  BY DEF Finished
<1>3. PICK F : F = Finished  OBVIOUS
<1>4. Cardinality(F \cup {p}) = Cardinality(F) + 1  BY <1>1, <1>2, <1>3, FS_AddElement
<1> QED  BY <1>1, <1>2, <1>3, <1>4, FS_CardinalityType

\* Process p ends its transaction; a row it wrote has at most one version more.
LEMMA Ended ==
  ASSUME BookInv, NEW p \in Procs, NEW a \in {"ok", "rejected", "error", "lost"},
         Finish(p, a), UNCHANGED tries, pc[p] \notin {"idle", "done"},
         DOMAIN book' \subseteq Addresses \ gone',
         book' \in [DOMAIN book' -> [default : BOOLEAN, version : Nat \ {0}]],
         OneDefault',
         \A x \in DOMAIN book' : book'[x].version <= Cardinality(Finished) + 2,
         \A q \in Procs \ {p} : Keeps(held[q])
  PROVE  BookInv'
<1>0. PICK c : c = call[p]  OBVIOUS
<1>1. /\ pc'[p] = "done" /\ call'[p] = c /\ seen'[p] = NoCall /\ held'[p] = {} /\ answer'[p] = a
      /\ \A q \in Procs \ {p} :
           /\ pc'[q] = pc[q] /\ call'[q] = call[q] /\ seen'[q] = seen[q]
           /\ held'[q] = held[q] /\ answer'[q] = answer[q]
  BY <1>0 DEF Finish, BookInv, ShapeInv
<1>2. ShapeInv'
  <2>1. /\ pc' = [q \in Procs |-> pc'[q]] /\ call' = [q \in Procs |-> call'[q]]
        /\ seen' = [q \in Procs |-> seen'[q]] /\ held' = [q \in Procs |-> held'[q]]
        /\ answer' = [q \in Procs |-> answer'[q]] /\ tries' = [q \in Procs |-> tries'[q]]
    BY DEF Finish, BookInv, ShapeInv
  <2>2. \A q \in Procs : answer'[q] \in {"none", "ok", "rejected", "error", "lost"} /\ tries'[q] \in 1..Attempts
    BY <1>1 DEF BookInv, ShapeInv
  <2> QED  BY <2>1, <2>2 DEF ShapeInv
<1>3. TableInv'
  <2>1. Cardinality(Finished) \in Nat /\ Cardinality(Finished') = Cardinality(Finished) + 1
    BY <1>1, OneMoreFinished
  <2>2. \A x \in DOMAIN book' : book'[x].version \in Nat \ {0}
    OBVIOUS
  <2>3. \A x \in DOMAIN book' : book'[x].version <= Cardinality(Finished') + 1
    BY <2>1, <2>2
  <2> QED  BY <2>3 DEF TableInv
<1>4. c \in Calls
  BY <1>0, Facts DEF ProgramOK
<1>5. ProcOK("done", c, NoCall, {})'
  <2>1. ProgramOK("done", c, NoCall)'  BY <1>4 DEF ProgramOK
  <2>2. LocksOK("done", c, NoCall, {})'  BY DEF LocksOK
  <2>3. SlotOK({})'  BY DEF SlotOK
  <2> QED  BY <2>1, <2>2, <2>3 DEF ProcOK
<1>6. ProcOK(pc[p], call[p], seen[p], held[p])'
  BY <1>1, <1>5
<1>7. \A q \in Procs \ {p} : Exclusive(held'[p], held[q])
  BY <1>1 DEF Exclusive
<1> QED  BY <1>1, <1>2, <1>3, <1>6, <1>7, LocalStep

\* A call that ends without a write.
LEMMA Replied ==
  ASSUME BookInv, NEW p \in Procs, NEW a \in {"rejected", "error", "lost"},
         Reply(p, a), pc[p] \notin {"idle", "done"}
  PROVE  BookInv'
<1>1. Finish(p, a) /\ UNCHANGED <<book, gone, tries>>  BY DEF Reply
<1>2. TableInv  BY DEF BookInv
<1>3. \A x \in DOMAIN book : book[x].version <= Cardinality(Finished) + 2
  <2>1. Cardinality(Finished) \in Nat
    <3>1. IsFiniteSet(Finished)  BY BookAssumption, FS_Subset DEF Finished
    <3> QED  BY <3>1, FS_CardinalityType
  <2>2. \A x \in DOMAIN book : book[x].version \in Nat  BY <1>2 DEF TableInv
  <2> QED  BY <1>2, <2>1, <2>2 DEF TableInv
<1>4. /\ DOMAIN book' \subseteq Addresses \ gone'
      /\ book' \in [DOMAIN book' -> [default : BOOLEAN, version : Nat \ {0}]]
      /\ \A x \in DOMAIN book' : book'[x].version <= Cardinality(Finished) + 2
  BY <1>1, <1>2, <1>3 DEF TableInv
<1>5. OneDefault'
  BY <1>1, <1>2 DEF TableInv, OneDefault
<1> QED  BY <1>1, <1>4, <1>5, SameBook, Ended

-----------------------------------------------------------------------------
(* The statements that leave the book alone *)

\* What notes s become when one of their fields is v.
Flagged(s, v) == [flag |-> v, target |-> s.target, cleared |-> s.cleared]
Targeted(s, v) == [flag |-> s.flag, target |-> v, cleared |-> s.cleared]
ClearedOf(s, v) == [flag |-> s.flag, target |-> s.target, cleared |-> v]

LEMMA Notes ==
  ASSUME NEW s, Noted(s), NEW v
  PROVE  /\ [s EXCEPT !["flag"] = v] = Flagged(s, v)
         /\ [s EXCEPT !["target"] = v] = Targeted(s, v)
         /\ [s EXCEPT !["cleared"] = v] = ClearedOf(s, v)
<1> DEFINE f == [flag |-> s.flag, target |-> s.target, cleared |-> s.cleared]
<1>1. s = f  BY DEF Noted
<1>2. [f EXCEPT !["flag"] = v] = Flagged(s, v)  BY DEF Flagged
<1>3. [f EXCEPT !["target"] = v] = Targeted(s, v)  BY DEF Targeted
<1>4. [f EXCEPT !["cleared"] = v] = ClearedOf(s, v)  BY DEF ClearedOf
<1> HIDE DEF f
<1> QED  BY <1>1, <1>2, <1>3, <1>4

LEMMA FirstOK ==
  ASSUME NEW c \in Calls
  PROVE  FirstStatement(c) # "done" /\ ProcOK(FirstStatement(c), c, Nothing, {})
<1>1. Noted(Nothing) /\ Nothing.flag = FALSE /\ Nothing.cleared = {}
  BY DEF Noted, Nothing
<1>2. SlotOK({})  BY DEF SlotOK
<1>3. CASE c.kind = "create" /\ c.default
  <2>1. FirstStatement(c) = "snapshot"  BY <1>3 DEF FirstStatement
  <2> QED  BY <1>1, <1>2, <1>3, <2>1 DEF ProcOK, ProgramOK, LocksOK, Promoting, Becomes, Named
<1>4. CASE c.kind = "create" /\ ~c.default
  <2>1. FirstStatement(c) = "buyer"  BY <1>4 DEF FirstStatement
  <2> QED  BY <1>1, <1>2, <1>4, <2>1 DEF ProcOK, ProgramOK, LocksOK, Promoting, Becomes, Named
<1>5. CASE c.kind = "edit"
  <2>1. FirstStatement(c) = "read"  BY <1>5 DEF FirstStatement
  <2> QED  BY <1>1, <1>2, <1>5, <2>1 DEF ProcOK, ProgramOK, LocksOK, Promoting, Becomes, Named
<1>6. CASE c.kind = "delete"
  <2>1. FirstStatement(c) = "row"  BY <1>6 DEF FirstStatement
  <2> QED  BY <1>1, <1>2, <1>6, <2>1 DEF ProcOK, ProgramOK, LocksOK, Promoting, Becomes, Named
<1>7. CASE c.kind = "order"
  <2>1. FirstStatement(c) = "buyer"  BY <1>7 DEF FirstStatement
  <2> QED  BY <1>1, <1>2, <1>7, <2>1 DEF ProcOK, ProgramOK, LocksOK, Promoting, Becomes, Named
<1> QED  BY <1>3, <1>4, <1>5, <1>6, <1>7, CallFacts

LEMMA NothingHeld == \A h : Exclusive({}, h)
BY DEF Exclusive

LEMMA BeginOK == ASSUME BookInv, NEW p \in Procs, Begin(p)  PROVE BookInv'
<1>1. PICK c \in Calls : Serve(p, c, FirstStatement(c), Nothing)
  BY DEF Begin, Calls
<1>2. UNCHANGED <<book, gone, tries, held, answer>> /\ pc[p] = "idle"
  BY <1>1 DEF Begin, Serve
<1>3. held[p] = {} /\ tries[p] \in 1..Attempts
  BY <1>2, Facts DEF LocksOK, BookInv, ShapeInv
<1>4. FirstStatement(c) # "done" /\ ProcOK(FirstStatement(c), c, Nothing, {})
  BY FirstOK
<1> QED  BY <1>1, <1>2, <1>3, <1>4, NothingHeld, Moved DEF Serve

LEMMA ReadOK == ASSUME BookInv, NEW p \in Procs, Read(p)  PROVE BookInv'
<1> DEFINE c == call[p]
           s == seen[p]
           v == c.address \in Defaults
           w == IF c.default = "yes" /\ ~v THEN "snapshot" ELSE "row"
<1>1. pc[p] = "read"  BY DEF Read
<1>2. CASE Reply(p, "rejected")
  BY <1>1, <1>2, Replied
<1>3. CASE Note(p, "flag", v) /\ Goto(p, w) /\ UNCHANGED <<book, gone, tries, call, held, answer>>
  <2>0. ProgramOK("read", c, s) /\ LocksOK("read", c, s, held[p]) /\ SlotOK(held[p])
    BY <1>1, Facts
  <2>1. /\ c \in Calls /\ c.kind = "edit" /\ Noted(s) /\ s.cleared = {} /\ v \in BOOLEAN
        /\ tries[p] \in 1..Attempts
    BY <2>0 DEF ProgramOK, BookInv, ShapeInv
  <2>2. seen' = [seen EXCEPT ![p] = Flagged(s, v)]
    BY <1>3, <2>1, Notes DEF Note, BookInv, ShapeInv
  <2>3. Noted(Flagged(s, v)) /\ Flagged(s, v).flag = v /\ Flagged(s, v).cleared = {}
    BY <2>1 DEF Noted, Flagged
  <2>4. ProgramOK(w, c, Flagged(s, v))
    BY <2>1, <2>3 DEF ProgramOK, Promoting, Becomes
  <2>5. LocksOK(w, c, Flagged(s, v), held[p])
    BY <2>0, <2>1, <2>3 DEF LocksOK
  <2>6. ProcOK(w, c, Flagged(s, v), held[p])
    BY <2>0, <2>4, <2>5 DEF ProcOK
  <2>7. w # "done"  OBVIOUS
  <2> HIDE DEF w, v, s
  <2> QED  BY <1>1, <1>3, <2>1, <2>2, <2>6, <2>7, Facts, Moved
<1> QED  BY <1>2, <1>3 DEF Read

LEMMA SnapshotOK == ASSUME BookInv, NEW p \in Procs, Snapshot(p)  PROVE BookInv'
<1> DEFINE c == call[p]
           s == seen[p]
           v == IF c.kind = "edit" THEN Defaults \ {c.address} ELSE Defaults
<1>1. /\ pc[p] = "snapshot" /\ Note(p, "target", v) /\ Goto(p, "clear")
      /\ UNCHANGED <<book, gone, tries, call, held, answer>>
  BY DEF Snapshot
<1> HIDE DEF v
<1>2. ProgramOK("snapshot", c, s) /\ LocksOK("snapshot", c, s, held[p]) /\ SlotOK(held[p])
  BY <1>1, Facts
<1>3. Noted(s) /\ tries[p] \in 1..Attempts
  BY <1>2 DEF ProgramOK, BookInv, ShapeInv
<1>4. seen' = [seen EXCEPT ![p] = Targeted(s, v)]
  BY <1>1, <1>3, Notes DEF Note, BookInv, ShapeInv
<1>5. /\ Noted(Targeted(s, v)) /\ Targeted(s, v).flag = s.flag
      /\ Targeted(s, v).cleared = s.cleared
  BY <1>3 DEF Noted, Targeted
<1>6. ProgramOK("clear", c, Targeted(s, v))
  BY <1>2, <1>5 DEF ProgramOK, Promoting
<1>7. LocksOK("clear", c, Targeted(s, v), held[p])
  BY <1>2, <1>5 DEF LocksOK
<1>8. ProcOK("clear", c, Targeted(s, v), held[p])
  BY <1>2, <1>6, <1>7 DEF ProcOK
<1> HIDE DEF s
<1> QED  BY <1>1, <1>3, <1>4, <1>8, Facts, Moved

LEMMA RowNames ==
  /\ \A a, b : <<"address", a>> = <<"address", b>> => a = b
  /\ \A a : <<"address", a>> \notin {Slot, User, Share}
  /\ Slot # User /\ Slot # Share /\ User # Share
<1>1. ASSUME NEW a, NEW b, <<"address", a>> = <<"address", b>>  PROVE a = b
  BY <1>1
<1>2. ASSUME NEW a  PROVE <<"address", a>> \notin {Slot, User, Share}
  BY DEF Slot, User, Share
<1>3. Slot # User /\ Slot # Share /\ User # Share
  BY DEF Slot, User, Share
<1> QED  BY <1>1, <1>2, <1>3

\* Process p takes rows U: those of A, which are free, and the index entry
\* along with the default.
LEMMA Taking ==
  ASSUME BookInv, NEW p \in Procs, NEW A \in SUBSET DOMAIN book, NEW U,
         \A a \in A : <<"address", a>> \in U /\ Free(<<"address", a>>, p),
         \A x \in U : (\E a \in A : x = <<"address", a>>) \/ (x = Slot /\ A \cap Defaults # {})
  PROVE  /\ SlotOK(held[p] \cup U)
         /\ \A q \in Procs \ {p} : Exclusive(held[p] \cup U, held[q])
         /\ \A a \in Addresses : <<"address", a>> \in U => a \in DOMAIN book
<1>1. SlotOK(held[p]) /\ \A q \in Procs \ {p} : Exclusive(held[p], held[q]) /\ SlotOK(held[q])
  BY Facts
<1>2. \A a, b \in Defaults : a = b
  BY DEF BookInv, TableInv, OneDefault, Defaults
<1>3. SlotOK(held[p] \cup U)
  <2> SUFFICES ASSUME Slot \in held[p] \cup U, NEW b \in Defaults  PROVE <<"address", b>> \in held[p] \cup U
    BY DEF SlotOK
  <2>1. CASE Slot \in held[p]  BY <1>1, <2>1 DEF SlotOK
  <2>2. CASE Slot \in U
    <3>1. PICK a \in A \cap Defaults : TRUE  BY <2>2, RowNames
    <3> QED  BY <1>2, <3>1
  <2> QED  BY <2>1, <2>2
<1>4. ASSUME NEW q \in Procs \ {p}  PROVE Exclusive(held[p] \cup U, held[q])
  <2>1. ASSUME NEW x \in U  PROVE x \notin held[q]
    <3>1. CASE \E a \in A : x = <<"address", a>>  BY <3>1 DEF Free
    <3>2. CASE x = Slot /\ A \cap Defaults # {}
      <4>1. PICK a \in A \cap Defaults : TRUE  BY <3>2
      <4>2. <<"address", a>> \notin held[q]  BY <4>1 DEF Free
      <4> QED  BY <1>1, <3>2, <4>1, <4>2 DEF SlotOK
    <3> QED  BY <3>1, <3>2
  <2> QED  BY <1>1, <2>1 DEF Exclusive
<1>5. \A a \in Addresses : <<"address", a>> \in U => a \in DOMAIN book
  BY RowNames
<1> QED  BY <1>3, <1>4, <1>5

LEMMA ClearOK == ASSUME BookInv, NEW p \in Procs, Clear(p)  PROVE BookInv'
<1> DEFINE c == call[p]
           s == seen[p]
           v == s.target \cap Defaults
           U == UNION {Touched(a) : a \in v}
           h == held[p] \cup U
           w == IF c.kind = "create" THEN "index" ELSE "row"
           t == ClearedOf(s, v)
<1>1. /\ pc[p] = "clear" /\ Take(p, U) /\ Note(p, "cleared", v) /\ Goto(p, w)
      /\ \A a \in v : Free(<<"address", a>>, p)
      /\ UNCHANGED <<book, gone, tries, call, answer>>
  BY DEF Clear
<1>2. ProgramOK("clear", c, s) /\ LocksOK("clear", c, s, held[p])
  BY <1>1, Facts
<1>3. Noted(s) /\ tries[p] \in 1..Attempts
  BY <1>2 DEF ProgramOK, BookInv, ShapeInv
<1>4. v \subseteq Defaults /\ v \in SUBSET DOMAIN book
  BY DEF Defaults
<1>5. /\ \A a \in v : <<"address", a>> \in U /\ Slot \in U
      /\ \A x \in U : (\E a \in v : x = <<"address", a>>) \/ (x = Slot /\ v \cap Defaults # {})
  BY <1>4 DEF Touched
<1>6. w # "done" /\ w \in {"index", "row"} /\ (w = "index" <=> c.kind = "create")
  OBVIOUS
<1> HIDE DEF v, U, w
<1>7. /\ SlotOK(h) /\ \A q \in Procs \ {p} : Exclusive(h, held[q])
      /\ \A a \in Addresses : <<"address", a>> \in U => a \in DOMAIN book
  BY <1>1, <1>4, <1>5, Taking
<1>8. seen' = [seen EXCEPT ![p] = t]
  BY <1>1, <1>3, Notes DEF Note, BookInv, ShapeInv
<1>9. Noted(t) /\ t.flag = s.flag /\ t.cleared = v
  BY <1>3 DEF Noted, ClearedOf
<1>10. ProgramOK(w, c, t)
  BY <1>2, <1>6, <1>9 DEF ProgramOK, Promoting, Becomes
<1>11. LocksOK(w, c, t, h)
  BY <1>2, <1>4, <1>5, <1>6, <1>7, <1>9 DEF LocksOK, Named
<1>12. ProcOK(w, c, t, h)
  BY <1>7, <1>10, <1>11 DEF ProcOK
<1>13. held' = [held EXCEPT ![p] = h]  BY <1>1 DEF Take
<1> HIDE DEF t, h
<1> QED  BY <1>1, <1>3, <1>6, <1>7, <1>8, <1>12, <1>13, Moved

LEMMA TakeRowOK == ASSUME BookInv, NEW p \in Procs, TakeRow(p)  PROVE BookInv'
<1> DEFINE c == call[p]
           s == seen[p]
           a == c.address
           U == IF c.kind = "order" THEN {<<"address", a>>} ELSE Touched(a)
           h == held[p] \cup U
           w == IF Becomes(c) /\ ~s.flag THEN "index" ELSE "commit"
<1>1. pc[p] = "row"  BY DEF TakeRow
<1>2. CASE Reply(p, IF c.kind = "edit" THEN "error" ELSE "rejected")
  BY <1>1, <1>2, Replied
<1>3. CASE /\ a \in DOMAIN book /\ Free(<<"address", a>>, p) /\ Take(p, U) /\ Goto(p, w)
           /\ UNCHANGED <<book, gone, tries, call, seen, answer>>
  <2>1. ProgramOK("row", c, s) /\ LocksOK("row", c, s, held[p])
    BY <1>1, Facts
  <2>2. /\ tries[p] \in 1..Attempts /\ c \in Calls /\ c.kind \in {"edit", "delete", "order"}
        /\ s.flag \in BOOLEAN
    BY <2>1 DEF ProgramOK, BookInv, ShapeInv
  <2>3. /\ <<"address", a>> \in U
        /\ \A x \in U : x = <<"address", a>> \/ (x = Slot /\ {a} \cap Defaults # {})
        /\ Named(c) /\ a \in Defaults => Slot \in U
    BY DEF Touched, Named
  <2>4. w # "done" /\ w \in {"index", "commit"} /\ (w = "index" <=> Promoting(c, s))
    BY DEF Promoting
  <2>4a. Promoting(c, s) => w # "commit"
    BY DEF Promoting
  <2>5. Named(c) => a \in Addresses
    BY <2>2, CallFacts DEF Named
  <2> HIDE DEF U, w
  <2>6. /\ SlotOK(h) /\ \A q \in Procs \ {p} : Exclusive(h, held[q])
        /\ \A b \in Addresses : <<"address", b>> \in U => b \in DOMAIN book
    <3>1. {a} \in SUBSET DOMAIN book  BY <1>3
    <3> QED  BY <1>3, <2>3, <3>1, Taking
  <2>7. ProgramOK(w, c, s)
    BY <2>1, <2>4 DEF ProgramOK
  <2>8. LocksOK(w, c, s, h)
    BY <1>3, <2>1, <2>3, <2>4, <2>4a, <2>6 DEF LocksOK
  <2>9. ProcOK(w, c, s, h)
    BY <2>6, <2>7, <2>8 DEF ProcOK
  <2>10. held' = [held EXCEPT ![p] = h]  BY <1>3 DEF Take
  <2> HIDE DEF h
  <2> QED  BY <1>1, <1>3, <2>2, <2>4, <2>6, <2>9, <2>10, Moved
<1> QED  BY <1>2, <1>3 DEF TakeRow

LEMMA TakeIndexOK == ASSUME BookInv, NEW p \in Procs, TakeIndex(p)  PROVE BookInv'
<1> DEFINE c == call[p]
           s == seen[p]
           h == held[p] \cup {Slot}
           w == IF c.kind = "create" THEN "buyer" ELSE "commit"
<1>1. pc[p] = "index" /\ Free(Slot, p)  BY DEF TakeIndex
<1>2. CASE Reply(p, "rejected")
  BY <1>1, <1>2, Replied
<1>3. CASE /\ Rivals(p) = {} /\ Take(p, {Slot}) /\ Goto(p, w)
           /\ UNCHANGED <<book, gone, tries, call, seen, answer>>
  <2>1. ProgramOK("index", c, s) /\ LocksOK("index", c, s, held[p])
    BY <1>1, Facts
  <2>2. tries[p] \in 1..Attempts /\ c \in Calls /\ Promoting(c, s) /\ c.kind \in {"create", "edit"}
    BY <2>1 DEF ProgramOK, BookInv, ShapeInv, Promoting, Becomes
  <2>3. /\ Defaults \subseteq s.cleared \cup (IF c.kind = "edit" THEN {c.address} ELSE {})
        /\ c.kind = "edit" => <<"address", c.address>> \in held[p]
        /\ \A a \in s.cleared : <<"address", a>> \in held[p]
    BY <1>3, <2>1 DEF Rivals, LocksOK, Named
  <2>4. SlotOK(h)
    BY <2>3 DEF SlotOK
  <2>5. ASSUME NEW q \in Procs \ {p}  PROVE Exclusive(h, held[q])
    BY <1>1, Facts DEF Exclusive, Free
  <2>6. w # "done" /\ w \in {"buyer", "commit"} /\ (w = "buyer" <=> c.kind = "create")
    OBVIOUS
  <2>7. ProgramOK(w, c, s)
    BY <2>1, <2>2, <2>6 DEF ProgramOK
  <2>8. \A a : <<"address", a>> \in h => <<"address", a>> \in held[p]
    BY RowNames
  <2>9. LocksOK(w, c, s, h)
    BY <2>1, <2>2, <2>3, <2>6, <2>8 DEF LocksOK, Named
  <2>10. ProcOK(w, c, s, h)
    BY <2>4, <2>7, <2>9 DEF ProcOK
  <2>11. held' = [held EXCEPT ![p] = h]  BY <1>3 DEF Take
  <2> HIDE DEF h, w
  <2> QED  BY <1>1, <1>3, <2>2, <2>5, <2>6, <2>10, <2>11, Moved
<1> QED  BY <1>1, <1>2, <1>3 DEF TakeIndex

LEMMA TakeBuyerOK == ASSUME BookInv, NEW p \in Procs, TakeBuyer(p)  PROVE BookInv'
<1> DEFINE c == call[p]
           s == seen[p]
<1>1. pc[p] = "buyer" /\ Free(User, p) /\ UNCHANGED <<book, gone, tries, call, seen, answer>>
  BY DEF TakeBuyer
<1>2. ProgramOK("buyer", c, s) /\ LocksOK("buyer", c, s, held[p]) /\ SlotOK(held[p])
  BY <1>1, Facts
<1>3. tries[p] \in 1..Attempts /\ c \in Calls /\ c.kind \in {"create", "order"}
  BY <1>2 DEF ProgramOK, BookInv, ShapeInv
<1>4. ASSUME NEW x \in {User, Share}, NEW w \in {"row", "commit"},
             w = IF c.kind = "order" THEN "row" ELSE "commit",
             c.kind = "order" <=> x = User
      PROVE  ProcOK(w, c, s, held[p] \cup {x})
  <2>1. \A y : y \in held[p] \cup {x} /\ (y = Slot \/ \E a : y = <<"address", a>>) => y \in held[p]
    BY RowNames
  <2>2. SlotOK(held[p] \cup {x})
    BY <1>2, <2>1 DEF SlotOK
  <2>3. ProgramOK(w, c, s)
    BY <1>2, <1>3, <1>4 DEF ProgramOK
  <2>4. \A a \in Addresses : <<"address", a>> \in held[p] \cup {x} => a \in DOMAIN book
    BY <1>2, <2>1 DEF LocksOK
  <2>5. LocksOK(w, c, s, held[p] \cup {x})
    BY <1>2, <1>3, <1>4, <2>4 DEF LocksOK, Named
  <2> QED  BY <2>2, <2>3, <2>5 DEF ProcOK
<1>5. CASE c.kind = "order"
  <2>1. Free(Share, p) /\ held' = [held EXCEPT ![p] = @ \cup {User}] /\ Goto(p, "row")
    BY <1>5 DEF TakeBuyer, Take
  <2>2. ProcOK("row", c, s, held[p] \cup {User})
    BY <1>4, <1>5
  <2>3. \A q \in Procs \ {p} : Exclusive(held[p] \cup {User}, held[q])
    BY <1>1, Facts DEF Exclusive, Free
  <2> QED  BY <1>1, <1>3, <2>1, <2>2, <2>3, Moved
<1>6. CASE c.kind # "order"
  <2>1. held' = [held EXCEPT ![p] = @ \cup {Share}] /\ Goto(p, "commit")
    BY <1>6 DEF TakeBuyer, Take
  <2>2. ProcOK("commit", c, s, held[p] \cup {Share})
    BY <1>4, <1>6, RowNames
  <2>3. \A q \in Procs \ {p} : Exclusive(held[p] \cup {Share}, held[q])
    BY Facts DEF Exclusive
  <2> QED  BY <1>1, <1>3, <2>1, <2>2, <2>3, Moved
<1> QED  BY <1>5, <1>6

LEMMA VictimOK == ASSUME BookInv, NEW p \in Procs, Victim(p)  PROVE BookInv'
<1> DEFINE c == call[p]
<1>1. pc[p] \notin {"idle", "done"}
  <2>1. PICK q \in Procs : Waits(p, q)  BY Zenon DEF Victim, InCycle
  <2>2. Wanted(p) # {}  BY <2>1 DEF Waits
  <2>3. pc[p] = "idle" => Wanted(p) = {}  BY Zenon DEF Wanted
  <2>4. pc[p] = "done" => Wanted(p) = {}  BY Zenon DEF Wanted
  <2> QED  BY <2>2, <2>3, <2>4
<1>2. CASE Reply(p, "error")
  BY <1>1, <1>2, Replied
<1>3. CASE /\ tries[p] < Attempts /\ tries' = [tries EXCEPT ![p] = @ + 1]
           /\ held' = [held EXCEPT ![p] = {}] /\ seen' = [seen EXCEPT ![p] = Nothing]
           /\ Goto(p, FirstStatement(c)) /\ UNCHANGED <<book, gone, call, answer>>
  <2>1. c \in Calls  BY <1>1, Facts DEF ProgramOK
  <2>2. tries[p] + 1 \in 1..Attempts
    BY <1>3, BookAssumption DEF BookInv, ShapeInv
  <2>3. FirstStatement(c) # "done" /\ ProcOK(FirstStatement(c), c, Nothing, {})
    BY <2>1, FirstOK
  <2> QED  BY <1>1, <1>3, <2>2, <2>3, NothingHeld, Moved
<1> QED  BY <1>2, <1>3 DEF Victim

-----------------------------------------------------------------------------
(* The commits *)

Rows == [default : BOOLEAN, version : Nat \ {0}]

LEMMA FlagCleared ==
  ASSUME NEW d, NEW n, NEW v
  PROVE  [[default |-> d, version |-> n] EXCEPT !.default = v] = [default |-> v, version |-> n]
OBVIOUS

LEMMA UndefaultedFacts ==
  ASSUME TableInv, NEW S
  PROVE  /\ DOMAIN Undefaulted(S) = DOMAIN book
         /\ \A a \in DOMAIN book :
              /\ Undefaulted(S)[a] \in Rows
              /\ Undefaulted(S)[a].version = book[a].version
              /\ a \notin S => Undefaulted(S)[a] = book[a]
              /\ a \notin Defaults => Undefaulted(S)[a] = book[a]
              /\ a \in S => Undefaulted(S)[a] = [default |-> FALSE, version |-> book[a].version]
<1>1. DOMAIN Undefaulted(S) = DOMAIN book  BY DEF Undefaulted
<1>2. ASSUME NEW a \in DOMAIN book
      PROVE  /\ Undefaulted(S)[a] \in Rows
             /\ Undefaulted(S)[a].version = book[a].version
             /\ a \notin S => Undefaulted(S)[a] = book[a]
             /\ a \notin Defaults => Undefaulted(S)[a] = book[a]
             /\ a \in S => Undefaulted(S)[a] = [default |-> FALSE, version |-> book[a].version]
  <2>1. PICK r \in Rows : r = book[a]
    BY DEF TableInv, Rows
  <2>2. /\ [r EXCEPT !.default = FALSE] = [default |-> FALSE, version |-> r.version]
        /\ r.version \in Nat \ {0}
    <3> DEFINE f == [default |-> r.default, version |-> r.version]
    <3>1. r = f /\ r.version \in Nat \ {0}  BY DEF Rows
    <3>2. [f EXCEPT !.default = FALSE] = [default |-> FALSE, version |-> r.version]  BY FlagCleared
    <3> HIDE DEF f
    <3> QED  BY <3>1, <3>2
  <2>3. a \notin Defaults => r = [default |-> FALSE, version |-> r.version]
    <3>1. a \notin Defaults => ~r.default  BY <2>1 DEF Defaults
    <3>2. r = [default |-> r.default, version |-> r.version] /\ r.default \in BOOLEAN  BY DEF Rows
    <3> QED  BY <3>1, <3>2
  <2>4. [default |-> FALSE, version |-> r.version] \in Rows
    BY <2>2 DEF Rows
  <2>5. Undefaulted(S)[a] = IF a \in S THEN [default |-> FALSE, version |-> r.version] ELSE r
    BY <2>1, <2>2 DEF Undefaulted
  <2> QED  BY <2>1, <2>3, <2>4, <2>5
<1> QED  BY <1>1, <1>2

LEMMA WithFacts ==
  ASSUME NEW t, NEW k, NEW r
  PROVE  /\ DOMAIN With(t, k, r) = DOMAIN t \cup {k} /\ With(t, k, r)[k] = r
         /\ \A x \in DOMAIN t \ {k} : With(t, k, r)[x] = t[x]
BY DEF With

\* Tables that agree off k are the same with a new row k.
LEMMA WithSame ==
  ASSUME NEW t, NEW u, NEW k, NEW r, DOMAIN t = DOMAIN u, \A x \in DOMAIN t \ {k} : t[x] = u[x]
  PROVE  With(t, k, r) = With(u, k, r)
BY DEF With

LEMMA OthersKeep ==
  ASSUME BookInv, NEW p \in Procs, DOMAIN book' \subseteq Addresses,
         \A a \in DOMAIN book :
           <<"address", a>> \notin held[p] => a \in DOMAIN book' /\ book'[a] = book[a],
         Slot \notin held[p] => Defaults' = Defaults,
         NEW q \in Procs \ {p}
  PROVE  Keeps(held[q])
<1>1. LocksOK(pc[q], call[q], seen[q], held[q]) /\ Exclusive(held[p], held[q])
  BY Facts
<1>2. \A a : <<"address", a>> \in held[q] => <<"address", a>> \notin held[p]
  BY <1>1, RowNames DEF Exclusive
<1>3. Slot \in held[q] => Slot \notin held[p]
  BY <1>1, RowNames DEF Exclusive
<1>4. \A a \in Addresses : <<"address", a>> \in held[q] => a \in DOMAIN book
  BY <1>1 DEF LocksOK
<1> QED  BY <1>2, <1>3, <1>4 DEF Keeps

\* The commit of a creation or an edit: the rows cl lose their flag, and row a
\* gets flag d and version v.
LEMMA Written ==
  ASSUME BookInv, NEW p \in Procs, NEW a \in Addresses \ gone, NEW d \in BOOLEAN,
         NEW v \in Nat \ {0}, NEW cl \in SUBSET Defaults, NEW r \in {"ok", "lost"},
         book' = With(Undefaulted(cl), a, [default |-> d, version |-> v]),
         Finish(p, r), UNCHANGED <<gone, tries>>, pc[p] \notin {"idle", "done"},
         v <= Cardinality(Finished) + 2,
         a \in DOMAIN book => <<"address", a>> \in held[p],
         \A x \in cl : <<"address", x>> \in held[p],
         Slot \in held[p] \/ (cl = {} /\ (a \in Defaults <=> d)),
         d => Defaults \subseteq cl \cup {a}
  PROVE  /\ BookInv'
         /\ d \/ (cl = {} /\ (a \in Defaults <=> d)) => (Defaults # {} => Defaults' # {})
<1> DEFINE t == Undefaulted(cl)
           row == [default |-> d, version |-> v]
<1>1. TableInv  BY DEF BookInv
<1>2. /\ DOMAIN t = DOMAIN book
      /\ \A x \in DOMAIN book :
           /\ t[x] \in Rows /\ t[x].version = book[x].version
           /\ x \notin cl => t[x] = book[x]
           /\ x \in cl => t[x] = [default |-> FALSE, version |-> book[x].version]
  BY <1>1, UndefaultedFacts
<1>4. row \in Rows /\ row.default = d /\ row.version = v
  BY DEF Rows
<1> HIDE DEF t, row
<1>3. DOMAIN book' = DOMAIN book \cup {a} /\ book'[a] = row /\ \A x \in DOMAIN book \ {a} : book'[x] = t[x]
  <2>1. book' = With(t, a, row)  BY DEF t, row
  <2>2. /\ DOMAIN With(t, a, row) = DOMAIN t \cup {a} /\ With(t, a, row)[a] = row
        /\ \A x \in DOMAIN t \ {a} : With(t, a, row)[x] = t[x]
    BY DEF With
  <2> QED  BY <1>2, <2>1, <2>2
<1>5. Cardinality(Finished) \in Nat
  <2>1. IsFiniteSet(Finished)  BY BookAssumption, FS_Subset DEF Finished
  <2> QED  BY <2>1, FS_CardinalityType
<1>6. \A x \in DOMAIN book' : book'[x] \in Rows
  BY <1>2, <1>3, <1>4
<1>7. \A x \in DOMAIN book' : book'[x].version <= Cardinality(Finished) + 2
  <2>1. ASSUME NEW x \in DOMAIN book \ {a}  PROVE book'[x].version <= Cardinality(Finished) + 2
    <3>1. book'[x].version = book[x].version  BY <1>2, <1>3
    <3>2. book[x].version \in Nat  BY <1>1 DEF TableInv
    <3> QED  BY <1>1, <1>5, <3>1, <3>2 DEF TableInv
  <2> QED  BY <1>3, <1>4, <2>1
<1>8. \A x \in DOMAIN book \ {a} : book'[x].default <=> (x \in Defaults /\ x \notin cl)
  <2> SUFFICES ASSUME NEW x \in DOMAIN book \ {a}
               PROVE  book'[x].default <=> (x \in Defaults /\ x \notin cl)
    OBVIOUS
  <2>1. CASE x \in cl  BY <1>2, <1>3, <2>1
  <2>2. CASE x \notin cl  BY <1>2, <1>3, <2>2 DEF Defaults
  <2> QED  BY <2>1, <2>2
<1>9. OneDefault'
  <2>1. \A x, y \in Defaults : x = y  BY <1>1 DEF TableInv, OneDefault, Defaults
  <2>2. ASSUME NEW x \in DOMAIN book', NEW y \in DOMAIN book', book'[x].default, book'[y].default
        PROVE  x = y
    BY <1>3, <1>4, <1>8, <2>1, <2>2
  <2> QED  BY <2>2 DEF OneDefault
<1>10. cl = {} /\ (a \in Defaults <=> d) => Defaults' = Defaults
  <2> SUFFICES ASSUME cl = {}, a \in Defaults <=> d  PROVE Defaults' = Defaults
    OBVIOUS
  <2>1. ASSUME NEW x  PROVE x \in Defaults' <=> x \in Defaults
    <3>1. CASE x = a  BY <1>3, <1>4, <3>1 DEF Defaults
    <3>2. CASE x # a  BY <1>3, <1>8, <3>2 DEF Defaults
    <3> QED  BY <3>1, <3>2
  <2> QED  BY <2>1
<1>11. \A q \in Procs \ {p} : Keeps(held[q])
  <2>1. \A x \in DOMAIN book :
          <<"address", x>> \notin held[p] => x \in DOMAIN book' /\ book'[x] = book[x]
    BY <1>2, <1>3
  <2>2. DOMAIN book' \subseteq Addresses  BY <1>1, <1>3 DEF TableInv
  <2> QED  BY <1>10, <2>1, <2>2, OthersKeep
<1>12. book' \in [DOMAIN book' -> Rows]
  <2>1. book' = [x \in DOMAIN book' |-> book'[x]]  BY DEF With
  <2> QED  BY <1>6, <2>1
<1>13. DOMAIN book' \subseteq Addresses \ gone'
  BY <1>1, <1>3 DEF TableInv
<1>14. BookInv'
  BY <1>7, <1>9, <1>11, <1>12, <1>13, Ended DEF Rows
<1>15. d => a \in Defaults'
  BY <1>3, <1>4 DEF Defaults
<1> QED  BY <1>10, <1>14, <1>15

\* Only what is done to the default matters.
LEMMA UndefaultedSame ==
  ASSUME TableInv, NEW S, NEW T, NEW x \in DOMAIN book, x \in Defaults => (x \in S <=> x \in T)
  PROVE  Undefaulted(S)[x] = Undefaulted(T)[x]
<1>1. /\ x \notin S => Undefaulted(S)[x] = book[x]
      /\ x \notin Defaults => Undefaulted(S)[x] = book[x]
      /\ x \in S => Undefaulted(S)[x] = [default |-> FALSE, version |-> book[x].version]
  BY UndefaultedFacts
<1>2. /\ x \notin T => Undefaulted(T)[x] = book[x]
      /\ x \notin Defaults => Undefaulted(T)[x] = book[x]
      /\ x \in T => Undefaulted(T)[x] = [default |-> FALSE, version |-> book[x].version]
  BY UndefaultedFacts
<1> QED  BY <1>1, <1>2

LEMMA UndefaultedNone == TableInv => Undefaulted({}) = book
<1> SUFFICES ASSUME TableInv  PROVE Undefaulted({}) = book
  OBVIOUS
<1>1. book = [x \in DOMAIN book |-> book[x]]  BY DEF TableInv
<1>2. Undefaulted({}) = [x \in DOMAIN book |-> book[x]]  BY DEF Undefaulted
<1> QED  BY <1>1, <1>2

\* What a transaction knows when it commits.
LEMMA CommitFacts ==
  ASSUME BookInv, NEW p \in Procs, pc[p] = "commit"
  PROVE  /\ ProgramOK("commit", call[p], seen[p]) /\ LocksOK("commit", call[p], seen[p], held[p])
         /\ TableInv /\ call[p] \in Calls /\ seen[p].flag \in BOOLEAN
         /\ seen[p].cleared \in SUBSET Defaults
         /\ \A x \in seen[p].cleared : <<"address", x>> \in held[p]
         /\ ~Promoting(call[p], seen[p]) => seen[p].cleared = {}
         /\ Cardinality(Finished) \in Nat
<1>1. ProgramOK("commit", call[p], seen[p]) /\ LocksOK("commit", call[p], seen[p], held[p])
  BY Facts
<1>2. /\ call[p] \in Calls /\ seen[p].flag \in BOOLEAN /\ TableInv
      /\ ~Promoting(call[p], seen[p]) => seen[p].cleared = {}
  BY <1>1 DEF ProgramOK, BookInv
<1>3. /\ seen[p].cleared \in SUBSET Defaults
      /\ \A x \in seen[p].cleared : <<"address", x>> \in held[p]
  BY <1>1 DEF LocksOK
<1>4. Cardinality(Finished) \in Nat
  <2>1. IsFiniteSet(Finished)  BY BookAssumption, FS_Subset DEF Finished
  <2> QED  BY <2>1, FS_CardinalityType
<1> QED  BY <1>1, <1>2, <1>3, <1>4

LEMMA CreateOK ==
  ASSUME BookInv, NEW p \in Procs, pc[p] = "commit", call[p].kind = "create",
         Write(p, call[p]), NEW r \in {"ok", "lost"}, Finish(p, r), UNCHANGED tries
  PROVE  BookInv' /\ Next /\ (Defaults # {} => Defaults' # {})
<1> DEFINE c == call[p]
           d == c.default
           cl == seen[p].cleared
<1>1. PICK a \in FreshIds :
        book' = With(Undefaulted(cl), a, [default |-> d, version |-> 1]) /\ UNCHANGED gone
  BY DEF Write
<1>2. a \in Addresses \ gone /\ a \notin DOMAIN book /\ a \notin Defaults
  BY <1>1 DEF FreshIds, Defaults
<1>3. /\ TableInv /\ c \in Calls /\ cl \in SUBSET Defaults
      /\ \A x \in cl : <<"address", x>> \in held[p]
      /\ ~Promoting(c, seen[p]) => cl = {}
      /\ ProgramOK("commit", c, seen[p]) /\ LocksOK("commit", c, seen[p], held[p])
      /\ Cardinality(Finished) \in Nat
  BY CommitFacts
<1>4. d \in BOOLEAN  BY <1>3, CallFacts
<1>5. Promoting(c, seen[p]) <=> d
  BY <1>3, <1>4 DEF Promoting, Becomes, ProgramOK
<1>6. d => Slot \in held[p] /\ Defaults \subseteq cl
  BY <1>3, <1>5 DEF LocksOK
<1>7. ~d => cl = {}
  BY <1>3, <1>5
<1>8. pc[p] \notin {"idle", "done"} /\ 1 \in Nat \ {0} /\ 1 <= Cardinality(Finished) + 2
  BY <1>3
<1> HIDE DEF c, d, cl
<1>9. BookInv' /\ (d \/ (cl = {} /\ (a \in Defaults <=> d)) => (Defaults # {} => Defaults' # {}))
  BY <1>1, <1>2, <1>3, <1>4, <1>6, <1>7, <1>8, Written
<1>10. Next
  <2>1. CASE d
    <3>1. \A x \in DOMAIN book : Undefaulted(cl)[x] = Undefaulted(DOMAIN book)[x]
      <4>1. \A x \in Defaults : x \in cl <=> x \in DOMAIN book
        BY <1>6, <2>1 DEF Defaults
      <4> QED  BY <1>3, <4>1, UndefaultedSame
    <3>2. DOMAIN Undefaulted(cl) = DOMAIN book /\ DOMAIN Undefaulted(DOMAIN book) = DOMAIN book
      BY <1>3, UndefaultedFacts
    <3>3. book' = With(Undefaulted(DOMAIN book), a, [default |-> d, version |-> 1])
      BY <1>1, <3>1, <3>2, WithSame
    <3>4. d = TRUE  BY <1>4, <2>1
    <3> QED  BY <1>2, <3>3, <3>4 DEF Next, Insert
  <2>2. CASE ~d
    <3>1. Undefaulted(cl) = book  BY <1>3, <1>7, <2>2, UndefaultedNone
    <3>2. d = FALSE  BY <1>4, <2>2
    <3> QED  BY <1>1, <1>2, <3>1, <3>2 DEF Next, Insert
  <2> QED  BY <2>1, <2>2
<1> QED  BY <1>7, <1>2, <1>9, <1>10

LEMMA EditOK ==
  ASSUME BookInv, NEW p \in Procs, pc[p] = "commit", call[p].kind = "edit",
         Write(p, call[p]), NEW r \in {"ok", "lost"}, Finish(p, r), UNCHANGED tries
  PROVE  /\ BookInv' /\ Next
         /\ call[p].default # "no" => (Defaults # {} => Defaults' # {})
<1> DEFINE c == call[p]
           s == seen[p]
           a == c.address
           cl == s.cleared
           now == book[a].default
           d == Left(c, s.flag, now)
           v == book[a].version + 1
<1>1. WriteEdit(p, c) /\ UNCHANGED gone
  BY DEF Write
<1>2. /\ TableInv /\ c \in Calls /\ s.flag \in BOOLEAN /\ cl \in SUBSET Defaults
      /\ \A x \in cl : <<"address", x>> \in held[p]
      /\ ~Promoting(c, s) => cl = {}
      /\ LocksOK("commit", c, s, held[p]) /\ Cardinality(Finished) \in Nat
  BY CommitFacts
<1>3. a \in DOMAIN book /\ <<"address", a>> \in held[p] /\ (a \in Defaults => Slot \in held[p])
  BY <1>2 DEF LocksOK, Named
<1>4. a \in Addresses \ gone /\ c.default \in {"keep", "yes", "no"}
  BY <1>2, <1>3, CallFacts DEF TableInv
<1>5. now \in BOOLEAN /\ v \in Nat \ {0} /\ v <= Cardinality(Finished) + 2
  <2>1. /\ now \in BOOLEAN /\ book[a].version \in Nat \ {0}
        /\ book[a].version <= Cardinality(Finished) + 1
    BY <1>2, <1>3 DEF TableInv
  <2> QED  BY <1>2, <2>1
<1>6. now <=> a \in Defaults
  BY <1>3 DEF Defaults
<1>7. Promoting(c, s) <=> c.default = "yes" /\ ~s.flag
  BY <1>4 DEF Promoting, Becomes
<1>8. Promoting(c, s) => d = TRUE /\ Slot \in held[p] /\ Defaults \subseteq cl \cup {a}
  BY <1>2, <1>7 DEF Left, LocksOK
<1>9. ~Promoting(c, s) => d = now \/ (d = FALSE /\ c.default = "no")
  BY <1>2, <1>4, <1>7 DEF Left
<1>10. d \in BOOLEAN
  BY <1>5, <1>8, <1>9
<1>11. book' = With(Undefaulted(cl), a, [default |-> d, version |-> v])
  <2>1. Undefaulted(cl)[a].version = book[a].version  BY <1>2, <1>3, UndefaultedFacts
  <2> QED  BY <1>1, <2>1 DEF WriteEdit, Edited
<1>12. pc[p] \notin {"idle", "done"}  OBVIOUS
<1>13. d => Defaults \subseteq cl \cup {a}
  <2>1. ~Promoting(c, s) /\ d => now  BY <1>9
  <2>2. now => Defaults \subseteq {a}
    BY <1>2, <1>6 DEF TableInv, OneDefault, Defaults
  <2> QED  BY <1>8, <2>1, <2>2
<1>14. Slot \in held[p] \/ (cl = {} /\ (a \in Defaults <=> d))
  BY <1>2, <1>3, <1>6, <1>8, <1>9
<1>15. c.default # "no" => d \/ (cl = {} /\ (a \in Defaults <=> d))
  BY <1>2, <1>6, <1>8, <1>9
<1>16. Next
  <2>1. CASE Promoting(c, s)
    <3>1. ASSUME NEW x \in DOMAIN book \ {a}
          PROVE  Undefaulted(cl)[x] = Undefaulted(DOMAIN book \ {a})[x]
      <4>1. x \in Defaults => x \in cl  BY <1>8, <2>1, <3>1
      <4> QED  BY <1>2, <4>1, UndefaultedSame
    <3>2. /\ DOMAIN Undefaulted(cl) = DOMAIN book
          /\ DOMAIN Undefaulted(DOMAIN book \ {a}) = DOMAIN book
          /\ Undefaulted(DOMAIN book \ {a})[a].version = book[a].version
      BY <1>2, <1>3, UndefaultedFacts
    <3>3. book' = With(Undefaulted(DOMAIN book \ {a}), a, [default |-> TRUE, version |-> v])
      <4>1. d = TRUE  BY <1>8, <2>1
      <4> HIDE DEF a, cl, d, v
      <4> QED  BY <1>11, <3>1, <3>2, <4>1, WithSame
    <3> QED  BY <1>3, <1>4, <3>2, <3>3 DEF Next, Promote, Edited
  <2>2. CASE ~Promoting(c, s)
    <3>1. Undefaulted(cl) = book  BY <1>2, <2>2, UndefaultedNone
    <3>2. book' = With(book, a, [default |-> d, version |-> v])  BY <1>11, <3>1
    <3>3. CASE d = now  BY <1>3, <1>4, <3>2, <3>3 DEF Next, Touch, Edited
    <3>4. CASE d = FALSE  BY <1>3, <1>4, <3>2, <3>4 DEF Next, Demote, Edited
    <3> QED  BY <1>9, <2>2, <3>3, <3>4
  <2> QED  BY <2>1, <2>2
<1> HIDE DEF s, a, cl, now, d, v
<1>17. /\ BookInv'
       /\ d \/ (cl = {} /\ (a \in Defaults <=> d)) => (Defaults # {} => Defaults' # {})
  BY <1>1, <1>2, <1>3, <1>4, <1>5, <1>10, <1>11, <1>12, <1>13, <1>14, Written
<1> QED  BY <1>15, <1>16, <1>17

LEMMA DeleteOK ==
  ASSUME BookInv, NEW p \in Procs, pc[p] = "commit", call[p].kind = "delete",
         Write(p, call[p]), NEW r \in {"ok", "lost"}, Finish(p, r), UNCHANGED tries
  PROVE  BookInv' /\ Next
<1> DEFINE a == call[p].address
<1>1. book' = [x \in DOMAIN book \ {a} |-> book[x]] /\ gone' = gone \cup {a}
  BY DEF Write
<1>2. TableInv /\ LocksOK("commit", call[p], seen[p], held[p]) /\ Cardinality(Finished) \in Nat
  BY CommitFacts
<1>3. a \in DOMAIN book /\ <<"address", a>> \in held[p] /\ (a \in Defaults => Slot \in held[p])
  BY <1>2 DEF LocksOK, Named
<1>4. a \in Addresses  BY <1>2, <1>3 DEF TableInv
<1>5. Next  BY <1>1, <1>3, <1>4 DEF Next, Remove
<1>6. DOMAIN book' = DOMAIN book \ {a} /\ \A x \in DOMAIN book \ {a} : book'[x] = book[x]
  BY <1>1
<1>7. /\ DOMAIN book' \subseteq Addresses \ gone'
      /\ book' \in [DOMAIN book' -> [default : BOOLEAN, version : Nat \ {0}]]
  BY <1>1, <1>2, <1>6 DEF TableInv
<1>8. OneDefault'
  BY <1>2, <1>6 DEF TableInv, OneDefault
<1>9. ASSUME NEW x \in DOMAIN book'  PROVE book'[x].version <= Cardinality(Finished) + 2
  <2>1. book[x].version \in Nat /\ book[x].version <= Cardinality(Finished) + 1
    BY <1>2, <1>6 DEF TableInv
  <2> QED  BY <1>2, <1>6, <2>1
<1>10. Slot \notin held[p] => Defaults' = Defaults
  BY <1>3, <1>6 DEF Defaults
<1>11. \A q \in Procs \ {p} : Keeps(held[q])
  <2>1. \A x \in DOMAIN book :
          <<"address", x>> \notin held[p] => x \in DOMAIN book' /\ book'[x] = book[x]
    BY <1>3, <1>6
  <2> QED  BY <1>7, <1>10, <2>1, OthersKeep
<1>12. BookInv'
  BY <1>7, <1>8, <1>9, <1>11, Ended
<1> QED  BY <1>5, <1>12

LEMMA OrderOK ==
  ASSUME BookInv, NEW p \in Procs, pc[p] = "commit", call[p].kind = "order",
         Write(p, call[p]), NEW r \in {"ok", "lost"}, Finish(p, r), UNCHANGED tries
  PROVE  BookInv' /\ UNCHANGED book
<1>1. UNCHANGED <<book, gone>>
  BY DEF Write
<1>2. TableInv /\ Cardinality(Finished) \in Nat
  BY CommitFacts
<1>3. \A x \in DOMAIN book : book[x].version <= Cardinality(Finished) + 2
  <2>1. \A x \in DOMAIN book : book[x].version \in Nat  BY <1>2 DEF TableInv
  <2> QED  BY <1>2, <2>1 DEF TableInv
<1>4. /\ DOMAIN book' \subseteq Addresses \ gone'
      /\ book' \in [DOMAIN book' -> [default : BOOLEAN, version : Nat \ {0}]]
      /\ \A x \in DOMAIN book' : book'[x].version <= Cardinality(Finished) + 2
  BY <1>1, <1>2, <1>3 DEF TableInv
<1>5. OneDefault'
  BY <1>1, <1>2 DEF TableInv, OneDefault
<1> QED  BY <1>1, <1>4, <1>5, SameBook, Ended

-----------------------------------------------------------------------------
(* The theorems *)

LEMMA InitOK == BookInit => BookInv
<1> SUFFICES ASSUME BookInit  PROVE BookInv
  OBVIOUS
<1>1. /\ pc = [p \in Procs |-> "idle"] /\ call = [p \in Procs |-> NoCall]
      /\ seen = [p \in Procs |-> NoCall] /\ held = [p \in Procs |-> {}]
      /\ answer = [p \in Procs |-> "none"] /\ tries = [p \in Procs |-> 1]
      /\ book \in [Entered -> [default : BOOLEAN, version : {1}]] /\ OneDefault /\ gone = {}
  BY DEF BookInit, TxInit
<1>2. ShapeInv
  <2>1. 1 \in 1..Attempts  BY BookAssumption
  <2> QED  BY <1>1, <2>1 DEF ShapeInv
<1>3. TableInv
  <2>1. Finished = {}  BY <1>1 DEF Finished
  <2>2. Cardinality(Finished) = 0  BY <2>1, FS_EmptySet
  <2>3. DOMAIN book \subseteq Addresses \ gone  BY <1>1, BookAssumption
  <2>4. \A a \in DOMAIN book : book[a].version = 1  BY <1>1
  <2>5. book \in [DOMAIN book -> [default : BOOLEAN, version : Nat \ {0}]]  BY <1>1
  <2> QED  BY <1>1, <2>2, <2>3, <2>4, <2>5 DEF TableInv
<1>4. ASSUME NEW p \in Procs  PROVE ProcOK(pc[p], call[p], seen[p], held[p])
  <2>1. ProgramOK("idle", NoCall, NoCall)  BY DEF ProgramOK
  <2>2. LocksOK("idle", NoCall, NoCall, {})  BY DEF LocksOK
  <2>3. SlotOK({})  BY DEF SlotOK
  <2> QED  BY <1>1, <2>1, <2>2, <2>3 DEF ProcOK
<1>5. \A p, q \in Procs : p # q => Exclusive(held[p], held[q])
  BY <1>1, NothingHeld
<1> QED  BY <1>2, <1>3, <1>4, <1>5 DEF BookInv

\* Calls after which a buyer may be without a default.
GivesUp(c) == c.kind = "delete" \/ (c.kind = "edit" /\ c.default = "no")

LEMMA CommitOK ==
  ASSUME BookInv, NEW p \in Procs, Commit(p)
  PROVE  /\ BookInv' /\ (Next \/ UNCHANGED book) /\ pc[p] = "commit" /\ pc'[p] = "done"
         /\ GivesUp(call[p]) \/ (Defaults # {} => Defaults' # {})
<1>1. PICK r \in {"ok", "lost"} : Finish(p, r)
  BY DEF Commit
<1>2. pc[p] = "commit" /\ Write(p, call[p]) /\ UNCHANGED tries
  BY DEF Commit
<1>3. pc'[p] = "done"
  BY <1>1 DEF Finish, BookInv, ShapeInv
<1>4. CASE call[p].kind = "create"  BY <1>1, <1>2, <1>3, <1>4, CreateOK
<1>5. CASE call[p].kind = "edit"  BY <1>1, <1>2, <1>3, <1>5, EditOK DEF GivesUp
<1>6. CASE call[p].kind = "delete"  BY <1>1, <1>2, <1>3, <1>6, DeleteOK DEF GivesUp
<1>7. CASE call[p].kind = "order"
  <2>1. BookInv' /\ UNCHANGED book  BY <1>1, <1>2, <1>7, OrderOK
  <2> QED  BY <1>2, <1>3, <2>1 DEF Defaults
<1> QED  BY <1>2, <1>4, <1>5, <1>6, <1>7 DEF Write

\* What a step other than a commit does to the book: nothing.
LEMMA QuietStep ==
  ASSUME BookInv, NEW p \in Procs,
         \/ Begin(p) \/ Read(p) \/ Snapshot(p) \/ Clear(p) \/ TakeRow(p) \/ TakeIndex(p)
         \/ TakeBuyer(p) \/ Victim(p) \/ Disconnect(p)
  PROVE  BookInv' /\ UNCHANGED book
<1>1. CASE Begin(p)  BY <1>1, BeginOK DEF Begin
<1>2. CASE Read(p)  BY <1>2, ReadOK DEF Read, Reply
<1>3. CASE Snapshot(p)  BY <1>3, SnapshotOK DEF Snapshot
<1>4. CASE Clear(p)  BY <1>4, ClearOK DEF Clear
<1>5. CASE TakeRow(p)  BY <1>5, TakeRowOK DEF TakeRow, Reply
<1>6. CASE TakeIndex(p)  BY <1>6, TakeIndexOK DEF TakeIndex, Reply
<1>7. CASE TakeBuyer(p)  BY <1>7, TakeBuyerOK DEF TakeBuyer
<1>8. CASE Victim(p)  BY <1>8, VictimOK DEF Victim, Reply
<1>9. CASE Disconnect(p)  BY <1>9, Replied DEF Disconnect, Reply
<1> QED  BY <1>1, <1>2, <1>3, <1>4, <1>5, <1>6, <1>7, <1>8, <1>9

LEMMA StepOK ==
  ASSUME BookInv, [BookNext]_bookVars
  PROVE  BookInv' /\ (UNCHANGED book \/ \E p \in Procs : Commit(p))
<1>1. CASE UNCHANGED bookVars
  <2>1. UNCHANGED <<book, gone, tries, pc, call, seen, held, answer>>  BY <1>1 DEF bookVars, txVars
  <2>2. TableInv'
    BY <2>1 DEF BookInv, TableInv, OneDefault, Finished
  <2>3. ShapeInv'
    BY <2>1 DEF BookInv, ShapeInv
  <2>4. ASSUME NEW p \in Procs  PROVE ProcOK(pc[p], call[p], seen[p], held[p])'
    <3>1. PICK w, c, s, h : w = pc[p] /\ c = call[p] /\ s = seen[p] /\ h = held[p]
      OBVIOUS
    <3>2. ProcOK(w, c, s, h) /\ Keeps(h)  BY <2>1, <3>1, SameBook DEF BookInv
    <3>3. ProcOK(w, c, s, h)'  BY <3>2, ProcKept
    <3> QED  BY <2>1, <3>1, <3>3
  <2>5. (\A p, q \in Procs : p # q => Exclusive(held[p], held[q]))'
    BY <2>1 DEF BookInv, Exclusive
  <2> QED  BY <2>1, <2>2, <2>3, <2>4, <2>5 DEF BookInv
<1>2. CASE BookNext
  <2>1. PICK p \in Procs : Begin(p) \/ Step(p) \/ Disconnect(p)  BY <1>2 DEF BookNext
  <2> QED  BY <2>1, CommitOK, QuietStep DEF Step
<1> QED  BY <1>1, <1>2

\* BookInv: rows and the entry of uq_default_address have one holder, and who
\* is to write has locked what it writes.
THEOREM BookInvariant == BookSpec => []BookInv
<1>1. BookInv /\ [BookNext]_bookVars => BookInv'  BY StepOK
<1> QED  BY InitOK, <1>1, PTL DEF BookSpec

\* The transactions on one address book keep within their programs, and the
\* index uq_default_address never has two entries.
THEOREM BookTypeCorrect == BookSpec => []BookTypeOK
<1>1. BookInv => BookTypeOK
  <2> SUFFICES ASSUME BookInv  PROVE BookTypeOK
    OBVIOUS
  <2>1. TableInv /\ ShapeInv  BY DEF BookInv
  <2>2. /\ IsFiniteSet(Finished) /\ Cardinality(Finished) \in Nat /\ Cardinality(Procs) \in Nat
        /\ Cardinality(Finished) <= Cardinality(Procs)
    <3>1. Finished \subseteq Procs  BY DEF Finished
    <3>2. PICK F : F = Finished  OBVIOUS
    <3> QED  BY <3>1, <3>2, BookAssumption, FS_Subset, FS_CardinalityType
  <2>3. book \in [DOMAIN book -> [default : BOOLEAN, version : 1..(Cardinality(Procs) + 1)]]
    <3>1. ASSUME NEW a \in DOMAIN book
          PROVE  book[a] \in [default : BOOLEAN, version : 1..(Cardinality(Procs) + 1)]
      <4>1. /\ book[a] \in [default : BOOLEAN, version : Nat \ {0}]
            /\ book[a].version <= Cardinality(Finished) + 1
        BY <2>1 DEF TableInv
      <4>2. book[a].version \in 1..(Cardinality(Procs) + 1)
        BY <2>2, <4>1
      <4> QED  BY <4>1, <4>2
    <3> QED  BY <2>1, <3>1 DEF TableInv
  <2>4. \A p \in Procs :
          pc[p] \in {"idle", "read", "snapshot", "clear", "row", "index", "buyer", "commit", "done"}
    BY Facts DEF ProgramOK
  <2>5. pc \in [Procs -> {"idle", "read", "snapshot", "clear", "row", "index", "buyer", "commit", "done"}]
    BY <2>1, <2>4 DEF ShapeInv
  <2>6. /\ answer \in [Procs -> {"none", "ok", "rejected", "error", "lost"}]
        /\ tries \in [Procs -> 1..Attempts]
    BY <2>1 DEF ShapeInv
  <2> QED  BY <2>1, <2>3, <2>5, <2>6 DEF BookTypeOK, TableInv
<1> QED  BY BookInvariant, <1>1, PTL

\* The transactions implement the atomic address book: whatever creations, edits,
\* deletions and orders overlap, each commit is one of its steps.
THEOREM BookIsAtomic == BookSpec => ImplementsBook
<1>1. BookInv /\ [BookNext]_bookVars => [Next]_book  BY StepOK, CommitOK
<1>2. Next => Atomic!Next
  BY DEF Next, Insert, Promote, Touch, Demote, Remove, Edited, With, Undefaulted,
         Atomic!Next, Atomic!Insert, Atomic!Promote, Atomic!Touch, Atomic!Demote,
         Atomic!Remove, Atomic!Edited, Atomic!With, Atomic!Undefaulted
<1> QED  BY BookInvariant, <1>1, <1>2, PTL DEF BookSpec, ImplementsBook

\* Only a deletion, or an edit that gives the flag up, leaves a buyer without
\* the default there was.
THEOREM DefaultOutlives == BookSpec => DefaultSurvives
<1> DEFINE Survives ==
      Defaults # {} /\ Defaults' = {} =>
        \E p \in Procs :
          /\ pc[p] = "commit" /\ pc'[p] = "done"
          /\ call[p].kind = "delete" \/ (call[p].kind = "edit" /\ call[p].default = "no")
<1>1. ASSUME BookInv, [BookNext]_bookVars  PROVE Survives
  <2>1. CASE UNCHANGED book  BY <2>1 DEF Defaults
  <2>2. ASSUME NEW p \in Procs, Commit(p)  PROVE Survives
    BY <1>1, <2>2, CommitOK DEF GivesUp
  <2> QED  BY <1>1, <2>1, <2>2, StepOK
<1> QED  BY BookInvariant, <1>1, PTL DEF BookSpec, DefaultSurvives
=============================================================================
