------------------------------ MODULE Commands ------------------------------
(***************************************************************************)
(* How a workspace command is executed (CommandsView.post): authorization,  *)
(* then one database transaction that locks the company's row, looks for a  *)
(* receipt of the same user and request id, applies the engine to the state *)
(* it read, and stores the changed records together with the receipt.       *)
(*                                                                         *)
(* Clients number their commands and send one again when no answer came, so *)
(* several attempts of one command can be under way at once; workers die at *)
(* any point.  What the engine does is left to module Workspace: here an    *)
(* effect is the command itself, and the engine may refuse any command.     *)
(*                                                                         *)
(* Definitions commented "Mutant:" are mistakes for the properties to find. *)
(***************************************************************************)
EXTENDS Naturals, Sequences, FiniteSets

CONSTANTS
  Workers,      \* server processes
  Clients,      \* commands that clients want executed
  Keys,         \* pairs of a user and a request id
  Bodies,       \* fingerprints of command bodies
  KeyOf,        \* the key under which each client sends its command
  BodyOf,       \* and its body
  MaxCrashes,   \* bound on the number of crashes
  None

ASSUME ClientsAssumption ==
  /\ KeyOf \in [Clients -> Keys] /\ BodyOf \in [Clients -> Bodies]
  /\ None \notin Workers \cup Bodies \cup Clients
ASSUME CrashesAssumption == MaxCrashes \in Nat

VARIABLES
  heard,        \* what each client has been told
  at,           \* how far each worker is
  serving,      \* the client whose attempt each worker handles
  answer,       \* the answer each worker is about to give
  seen,         \* how many effects the state had that each worker read
  lock,         \* the worker whose transaction holds the company's row
  receipts,     \* body of the command recorded under each key
  log,          \* committed effects, in commit order
  copies,       \* how often the legacy records were copied into the workspace
  crashes

vars == <<heard, at, serving, answer, seen, lock, receipts, log, copies, crashes>>
storeVars == <<receipts, log, copies>>

Answers == {"done", "conflict", "refused"}
Places == {"idle", "received", "authorized", "locked", "applied", "finished"}

Init ==
  /\ heard = [c \in Clients |-> "nothing"]
  /\ at = [w \in Workers |-> "idle"]
  /\ serving = [w \in Workers |-> None]
  /\ answer = [w \in Workers |-> None]
  /\ seen = [w \in Workers |-> 0]
  /\ lock = None
  /\ receipts = [k \in Keys |-> None]
  /\ log = <<>>
  /\ copies = 0
  /\ crashes = 0

-----------------------------------------------------------------------------
Key(w) == KeyOf[serving[w]]
Body(w) == BodyOf[serving[w]]

(* Worker w has decided its answer; its transaction, if it had one, ended. *)
Finish(w, a) ==
  /\ at' = [at EXCEPT ![w] = "finished"]
  /\ answer' = [answer EXCEPT ![w] = a]
  /\ lock' = IF lock = w THEN None ELSE lock

(* A client without an answer sends its command, for the first time or      *)
(* again, while earlier attempts may still be running.                      *)
Submit(c, w) ==
  /\ heard[c] = "nothing"
  /\ at[w] = "idle"
  /\ at' = [at EXCEPT ![w] = "received"]
  /\ serving' = [serving EXCEPT ![w] = c]
  /\ UNCHANGED <<heard, answer, seen, lock, storeVars, crashes>>

Authorize(w) ==
  /\ at[w] = "received"
  /\ at' = [at EXCEPT ![w] = "authorized"]
  /\ UNCHANGED <<heard, serving, answer, seen, lock, storeVars, crashes>>

(* No membership, no permission, no feature, or a malformed request. *)
Deny(w) ==
  /\ at[w] = "received"
  /\ Finish(w, "refused")
  /\ UNCHANGED <<heard, serving, seen, storeVars, crashes>>

(* Mutant: the row is read without select_for_update. *)
TakeNoLock(w) ==
  /\ at[w] = "authorized"
  /\ lock' = w
  /\ at' = [at EXCEPT ![w] = "locked"]
  /\ UNCHANGED <<heard, serving, answer, seen, storeVars, crashes>>

TakeLock(w) ==
  /\ at[w] = "authorized"
  /\ lock = None
  /\ lock' = w
  /\ at' = [at EXCEPT ![w] = "locked"]
  /\ UNCHANGED <<heard, serving, answer, seen, storeVars, crashes>>

(* Mutant: a receipt is replayed for whatever body comes with its id. *)
ReplayAnything(w) ==
  /\ at[w] = "locked"
  /\ receipts[Key(w)] # None
  /\ Finish(w, "done")
  /\ UNCHANGED <<heard, serving, seen, storeVars, crashes>>

Replay(w) ==
  /\ at[w] = "locked"
  /\ receipts[Key(w)] = Body(w)
  /\ Finish(w, "done")
  /\ UNCHANGED <<heard, serving, seen, storeVars, crashes>>

ReportConflict(w) ==
  /\ at[w] = "locked"
  /\ receipts[Key(w)] \notin {None, Body(w)}
  /\ Finish(w, "conflict")
  /\ UNCHANGED <<heard, serving, seen, storeVars, crashes>>

(* get_state and apply: the worker works on the records it reads now. *)
ApplyCommand(w) ==
  /\ at[w] = "locked"
  /\ receipts[Key(w)] = None
  /\ at' = [at EXCEPT ![w] = "applied"]
  /\ seen' = [seen EXCEPT ![w] = Len(log)]
  /\ UNCHANGED <<heard, serving, answer, lock, storeVars, crashes>>

(* The engine or a check of the view raises: the transaction rolls back,    *)
(* and with it the legacy copy it may have made.                            *)
Reject(w) ==
  /\ at[w] = "applied"
  /\ Finish(w, "refused")
  /\ UNCHANGED <<heard, serving, seen, storeVars, crashes>>

(* Mutant: no receipt is kept. *)
CommitWithoutReceipt(w) ==
  /\ at[w] = "applied"
  /\ log' = Append(log, [key |-> Key(w), body |-> Body(w)])
  /\ copies' = IF copies = 0 THEN 1 ELSE copies
  /\ Finish(w, "done")
  /\ UNCHANGED <<heard, serving, seen, receipts, crashes>>

(* The changed records, the audit event and the receipt become visible at   *)
(* once, and so does the legacy copy if this was the first use.             *)
Commit(w) ==
  /\ at[w] = "applied"
  /\ log' = Append(log, [key |-> Key(w), body |-> Body(w)])
  /\ receipts' = [receipts EXCEPT ![Key(w)] = Body(w)]
  /\ copies' = IF copies = 0 THEN 1 ELSE copies
  /\ Finish(w, "done")
  /\ UNCHANGED <<heard, serving, seen, crashes>>

Reply(w) ==
  /\ at[w] = "finished"
  /\ heard' = IF heard[serving[w]] = "nothing"
              THEN [heard EXCEPT ![serving[w]] = answer[w]] ELSE heard
  /\ at' = [at EXCEPT ![w] = "idle"]
  /\ serving' = [serving EXCEPT ![w] = None]
  /\ answer' = [answer EXCEPT ![w] = None]
  /\ UNCHANGED <<seen, lock, storeVars, crashes>>

(* Mutant: the lock outlives the worker. *)
CrashHoldingLock(w) ==
  /\ at[w] # "idle"
  /\ crashes < MaxCrashes
  /\ crashes' = crashes + 1
  /\ at' = [at EXCEPT ![w] = "idle"]
  /\ serving' = [serving EXCEPT ![w] = None]
  /\ answer' = [answer EXCEPT ![w] = None]
  /\ UNCHANGED <<heard, seen, lock, storeVars>>

(* The worker dies or its connection breaks: an open transaction rolls back *)
(* and the client is left without an answer.                                *)
Crash(w) ==
  /\ at[w] # "idle"
  /\ crashes < MaxCrashes
  /\ crashes' = crashes + 1
  /\ at' = [at EXCEPT ![w] = "idle"]
  /\ serving' = [serving EXCEPT ![w] = None]
  /\ answer' = [answer EXCEPT ![w] = None]
  /\ lock' = IF lock = w THEN None ELSE lock
  /\ UNCHANGED <<heard, seen, storeVars>>

(* Opening the workspace for the first time copies the legacy records, in a *)
(* transaction of its own under the same lock (initialize).                 *)
Open ==
  /\ lock = None
  /\ copies = 0
  /\ copies' = copies + 1
  /\ UNCHANGED <<heard, at, serving, answer, seen, lock, receipts, log, crashes>>

Work(w) ==
  \/ Authorize(w) \/ Deny(w) \/ TakeLock(w)
  \/ Replay(w) \/ ReportConflict(w)
  \/ ApplyCommand(w) \/ Reject(w) \/ Commit(w)
  \/ Reply(w)

Next ==
  \/ \E c \in Clients, w \in Workers : Submit(c, w)
  \/ \E w \in Workers : Work(w) \/ Crash(w)
  \/ Open

(* A worker that can go on does, the row lock is granted to whoever waits   *)
(* for it, and a client without an answer keeps sending.                    *)
Fairness ==
  /\ \A w \in Workers : WF_vars(Work(w))
  /\ \A c \in Clients : WF_vars(\E w \in Workers : Submit(c, w))

Spec == Init /\ [][Next]_vars
FairSpec == Spec /\ Fairness

-----------------------------------------------------------------------------
TypeOK ==
  /\ heard \in [Clients -> Answers \cup {"nothing"}]
  /\ at \in [Workers -> Places]
  /\ serving \in [Workers -> Clients \cup {None}]
  /\ answer \in [Workers -> Answers \cup {None}]
  /\ seen \in [Workers -> Nat]
  /\ lock \in Workers \cup {None}
  /\ receipts \in [Keys -> Bodies \cup {None}]
  /\ log \in Seq([key : Keys, body : Bodies])
  /\ copies \in Nat
  /\ crashes \in 0..MaxCrashes

(* However often a command is sent, retried or raced with itself, the log   *)
(* holds it once, the receipt under its key is that entry, and there is no  *)
(* receipt of a command that had no effect.                                 *)
AppliedOnce ==
  /\ \A i, j \in DOMAIN log : log[i].key = log[j].key => i = j
  /\ \A i \in DOMAIN log : receipts[log[i].key] = log[i].body
  /\ \A k \in Keys : receipts[k] # None => \E i \in DOMAIN log : log[i].key = k

(* A worker that has applied a command still works on the newest state: no  *)
(* other command committed after it read, so no update is lost.             *)
NoLostUpdate ==
  \A w \in Workers : at[w] = "applied" =>
    /\ seen[w] = Len(log)
    /\ receipts[Key(w)] = None

(* The legacy records are copied at most once, and before any command. *)
CopiedOnce == copies <= 1 /\ (log # <<>> => copies = 1)

(* A client that was told "done" finds its command, as it sent it, in the   *)
(* log; one that was told of a conflict finds another one under its key.    *)
AnswersAreTrue ==
  \A c \in Clients :
    /\ heard[c] = "done" => receipts[KeyOf[c]] = BodyOf[c]
    /\ heard[c] = "conflict" => receipts[KeyOf[c]] \notin {None, BodyOf[c]}

(* The three together: the effects, the receipts and what clients know.     *)
ReceiptsTell == AppliedOnce /\ CopiedOnce /\ AnswersAreTrue

(* Every command that is sent is answered, crashes and contention           *)
(* notwithstanding.                                                         *)
EveryCommandAnswered ==
  \A c \in Clients : heard[c] = "nothing" ~> heard[c] # "nothing"

(* The commands keep the promise of module ExactlyOnce. *)
Abstract == INSTANCE ExactlyOnce WITH effects <- log
ImplementsExactlyOnce == Abstract!Spec

=============================================================================
