---------------------------- MODULE ProversPool ----------------------------
(***************************************************************************)
(* coordinator.ProversPool (src/unnamed/part_005): a buffered channel of   *)
(* MaxServerProofs prover clients.  Add sends a prover or gives up when    *)
(* the context is done; Get receives one or returns ErrDone.  When both    *)
(* cases of a select are ready Go picks one at random.                    *)
(*                                                                         *)
(* The callers are not in this repository; they are modelled from the     *)
(* design (4.H): the coordinator adds its provers at start, and each       *)
(* pipeline worker takes a prover, has it prove a batch, and adds it back. *)
(* The context can be cancelled at any time (the node stops).              *)
(***************************************************************************)
EXTENDS Integers, Sequences, FiniteSets

CONSTANTS
  Provers,          \* prover clients
  Workers,          \* pipeline workers sharing the pool
  MaxServerProofs,  \* the channel's capacity
  NoProver

VARIABLES
  pool,       \* the channel's buffer, oldest first
  starting,   \* provers the coordinator has not added yet
  held,       \* held[w]: the prover worker w took, or NoProver
  pc,         \* pc[w]: "get" | "prove" | "add" | "done"
  cancelled   \* ctx.Done() is closed

vars == <<pool, starting, held, pc, cancelled>>

(***************************************************************************)
(* Add: the select between the send and ctx.Done().                        *)
(***************************************************************************)
\* Mutant: the send does not wait for room (a select with a default case)
AddNonBlocking(p) ==
  IF Len(pool) < MaxServerProofs THEN pool' = Append(pool, p) ELSE UNCHANGED pool

Add(p) ==
  \/ /\ Len(pool) < MaxServerProofs
     /\ pool' = Append(pool, p)
  \/ /\ cancelled
     /\ UNCHANGED pool

(***************************************************************************)
(* Get: the select between ctx.Done() (ErrDone) and a receive.             *)
(***************************************************************************)
\* Mutant: Get without its ctx.Done() case
GetNoDone(w) ==
  /\ pool # <<>>
  /\ held' = [held EXCEPT ![w] = Head(pool)]
  /\ pool' = Tail(pool)
  /\ pc' = [pc EXCEPT ![w] = "prove"]

Get(w) ==
  \/ /\ cancelled
     /\ pc' = [pc EXCEPT ![w] = "done"]
     /\ UNCHANGED <<pool, held>>
  \/ /\ pool # <<>>
     /\ held' = [held EXCEPT ![w] = Head(pool)]
     /\ pool' = Tail(pool)
     /\ pc' = [pc EXCEPT ![w] = "prove"]

-----------------------------------------------------------------------------
\* the coordinator adds its provers one by one
Setup ==
  /\ \E p \in starting : Add(p) /\ starting' = starting \ {p}
  /\ UNCHANGED <<held, pc, cancelled>>

WorkerGet(w) ==
  /\ pc[w] = "get"
  /\ Get(w)
  /\ UNCHANGED <<starting, cancelled>>

\* the prover answers (a proof or an error): the worker gives it back
Prove(w) ==
  /\ pc[w] = "prove"
  /\ pc' = [pc EXCEPT ![w] = "add"]
  /\ UNCHANGED <<pool, starting, held, cancelled>>

WorkerAdd(w) ==
  /\ pc[w] = "add"
  /\ Add(held[w])
  /\ held' = [held EXCEPT ![w] = NoProver]
  /\ pc' = [pc EXCEPT ![w] = "get"]
  /\ UNCHANGED <<starting, cancelled>>

Cancel ==
  /\ ~cancelled
  /\ cancelled' = TRUE
  /\ UNCHANGED <<pool, starting, held, pc>>

Init ==
  /\ pool = <<>>
  /\ starting = Provers
  /\ held = [w \in Workers |-> NoProver]
  /\ pc = [w \in Workers |-> "get"]
  /\ cancelled = FALSE

Next ==
  \/ Setup \/ Cancel
  \/ \E w \in Workers : WorkerGet(w) \/ Prove(w) \/ WorkerAdd(w)

(***************************************************************************)
(* Fairness: the coordinator and the workers keep running, and a worker    *)
(* blocked in Get is eventually served: Go hands a sent value to the       *)
(* receivers blocked on a channel in the order they blocked, so a receive *)
(* enabled again and again is eventually taken (strong fairness).  The     *)
(* cancellation is not assumed to happen.                                  *)
(***************************************************************************)
Fairness ==
  /\ WF_vars(Setup)
  /\ \A w \in Workers : SF_vars(WorkerGet(w)) /\ WF_vars(Prove(w)) /\ WF_vars(WorkerAdd(w))

Spec == Init /\ [][Next]_vars /\ Fairness

-----------------------------------------------------------------------------
TypeOK ==
  /\ pool \in Seq(Provers) /\ Len(pool) <= MaxServerProofs
  /\ starting \subseteq Provers
  /\ held \in [Workers -> Provers \cup {NoProver}]
  /\ pc \in [Workers -> {"get", "prove", "add", "done"}]
  /\ cancelled \in BOOLEAN

\* the places prover p is at: buffered, held, or still to be added
Copies(p) ==
  Cardinality({i \in DOMAIN pool : pool[i] = p})
    + Cardinality({w \in Workers : held[w] = p})
    + (IF p \in starting THEN 1 ELSE 0)

(***************************************************************************)
(* Until the node stops, every prover is in exactly one place: in the      *)
(* channel, with one worker, or still to be added.  Add waits for room at  *)
(* a full channel instead of dropping the prover, and a received prover    *)
(* leaves the channel.                                                     *)
(***************************************************************************)
ProversAccounted ==
  ~cancelled => \A p \in Provers : Copies(p) = 1

(***************************************************************************)
(* A worker blocked in Get returns, with a prover or with ErrDone, even    *)
(* when the node stops while the provers are busy and Add drops them.      *)
(***************************************************************************)
GetReturns ==
  \A w \in Workers : pc[w] = "get" ~> pc[w] # "get"
====
