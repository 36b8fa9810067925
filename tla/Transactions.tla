---------------------------- MODULE Transactions ----------------------------
(* READ COMMITTED transactions that take row locks one after another.      *)
(* A process serves one client call in one transaction: it waits while     *)
(* another transaction holds the row it wants (its lock step is disabled), *)
(* notes what it reads, and writes when it commits.  Modules that extend   *)
(* this one say what the statements are.                                   *)
(***************************************************************************)
CONSTANT Procs   \* server goroutines, each serving one client call

VARIABLES
  pc,      \* the statement each process runs next
  call,    \* the call it serves
  seen,    \* what its transaction has read so far
  held,    \* the rows it has locked
  answer   \* what its client was told last

txVars == <<pc, call, seen, held, answer>>

NoCall == [kind |-> "none"]

Free(row, p) == \A q \in Procs \ {p} : row \notin held[q]

Unlocked(row) == \A q \in Procs : row \notin held[q]

\* SELECT ... FOR UPDATE
Lock(p, row) ==
  /\ Free(row, p)
  /\ held' = [held EXCEPT ![p] = @ \cup {row}]

Goto(p, where) == pc' = [pc EXCEPT ![p] = where]

Note(p, field, value) == seen' = [seen EXCEPT ![p][field] = value]

\* Mutant of Finish: the locks stay.
FinishLocked(p, a) ==
  /\ pc' = [pc EXCEPT ![p] = "done"]
  /\ answer' = [answer EXCEPT ![p] = a]
  /\ seen' = [seen EXCEPT ![p] = NoCall]
  /\ UNCHANGED <<call, held>>

\* The transaction ends, its locks go, and the client gets answer a.
Finish(p, a) ==
  /\ pc' = [pc EXCEPT ![p] = "done"]
  /\ answer' = [answer EXCEPT ![p] = a]
  /\ held' = [held EXCEPT ![p] = {}]
  /\ seen' = [seen EXCEPT ![p] = NoCall]
  /\ UNCHANGED call

\* Mutant of End: a lock stays.
EndLocked(p) ==
  /\ Goto(p, "idle")
  /\ call' = [call EXCEPT ![p] = NoCall]
  /\ seen' = [seen EXCEPT ![p] = NoCall]
  /\ UNCHANGED <<held, answer>>

\* The call of p is over, with or without success, and its locks go.
End(p) ==
  /\ Goto(p, "idle")
  /\ call' = [call EXCEPT ![p] = NoCall]
  /\ seen' = [seen EXCEPT ![p] = NoCall]
  /\ held' = [held EXCEPT ![p] = {}]
  /\ UNCHANGED answer

\* The transaction rolls back, and the process goes on without it.
Rollback(p, where) ==
  /\ Goto(p, where)
  /\ held' = [held EXCEPT ![p] = {}]
  /\ seen' = [seen EXCEPT ![p] = NoCall]
  /\ UNCHANGED <<call, answer>>

\* An idle process is given call c, whose transaction starts with `where'.
Serve(p, c, where, nothing) ==
  /\ pc[p] = "idle"
  /\ call' = [call EXCEPT ![p] = c]
  /\ seen' = [seen EXCEPT ![p] = nothing]
  /\ Goto(p, where)
  /\ UNCHANGED <<held, answer>>

\* A client that saw an internal error, or nothing, sends the call again.
SendAgain(p, where, nothing) ==
  /\ pc[p] = "done" /\ answer[p] \in {"error", "lost"}
  /\ answer' = [answer EXCEPT ![p] = "none"]
  /\ seen' = [seen EXCEPT ![p] = nothing]
  /\ Goto(p, where)
  /\ UNCHANGED <<call, held>>

TxInit ==
  /\ pc = [p \in Procs |-> "idle"]
  /\ call = [p \in Procs |-> NoCall]
  /\ seen = [p \in Procs |-> NoCall]
  /\ held = [p \in Procs |-> {}]
  /\ answer = [p \in Procs |-> "none"]
=============================================================================
