--------------------------- MODULE ProcessesProofs --------------------------
(***************************************************************************)
(* Proofs about what runs side by side, fails and is tried again, for any   *)
(* number of workers, clients, messages and crashes: the commands (module   *)
(* Commands), the messages, deliveries and reminders of module Outbox, and  *)
(* the subscription of module Subscriptions, the last three as MCProcesses  *)
(* composes them.                                                           *)
(***************************************************************************)
EXTENDS MCProcesses, SequenceTheorems, TLAPS

-----------------------------------------------------------------------------
(* The commands. *)

(* The transaction of a worker is open exactly while it holds the row; a    *)
(* worker serves somebody exactly while it is busy.                         *)
HoldsLock ==
  \A w \in Workers : /\ at[w] \in {"locked", "applied"} <=> lock = w
                     /\ at[w] # "idle" => serving[w] \in Clients
                     /\ at[w] = "finished" => answer[w] \in Answers

(* An answer that is decided but not yet delivered is already true. *)
DecidedAnswersAreTrue ==
  \A w \in Workers : at[w] = "finished" =>
    /\ answer[w] = "done" => receipts[Key(w)] = Body(w)
    /\ answer[w] = "conflict" => receipts[Key(w)] \notin {None, Body(w)}

(* The inductive invariant. *)
CommandsInv ==
  /\ TypeOK
  /\ HoldsLock
  /\ AppliedOnce
  /\ NoLostUpdate
  /\ CopiedOnce
  /\ AnswersAreTrue
  /\ DecidedAnswersAreTrue

LEMMA InitInv == Init => CommandsInv
BY ClientsAssumption, CrashesAssumption
   DEF Init, CommandsInv, TypeOK, HoldsLock, AppliedOnce, NoLostUpdate,
       CopiedOnce, AnswersAreTrue, DecidedAnswersAreTrue, Answers, Places

LEMMA TypeStep == TypeOK /\ HoldsLock /\ [Next]_vars => TypeOK'
<1> SUFFICES ASSUME TypeOK, HoldsLock, [Next]_vars
             PROVE  TypeOK'
  OBVIOUS
<1> USE ClientsAssumption, CrashesAssumption
    DEF TypeOK, HoldsLock, Answers, Places, storeVars
<1>1. ASSUME NEW c \in Clients, NEW w \in Workers, Submit(c, w)
      PROVE  TypeOK'
  BY <1>1 DEF Submit
<1>2. ASSUME NEW w \in Workers, Work(w)
      PROVE  TypeOK'
  <2>1. CASE Authorize(w) \/ TakeLock(w)
    BY <2>1 DEF Authorize, TakeLock
  <2>6. CASE ApplyCommand(w)
    <3>1. Len(log) \in Nat
      OBVIOUS
    <3>2. QED
      BY <2>6, <3>1 DEF ApplyCommand
  <2>2. CASE Deny(w) \/ Replay(w) \/ ReportConflict(w) \/ Reject(w)
    BY <2>2 DEF Deny, Replay, ReportConflict, Reject, Finish
  <2>3. CASE Commit(w)
    <3>1. serving[w] \in Clients
      BY <2>3 DEF Commit
    <3>2. /\ Key(w) \in Keys
          /\ Body(w) \in Bodies
      BY <3>1 DEF Key, Body
    <3>3. log' \in Seq([key : Keys, body : Bodies])
      BY <2>3, <3>2 DEF Commit
    <3>4. QED
      BY <2>3, <3>2, <3>3 DEF Commit, Finish
  <2>4. CASE Reply(w)
    BY <2>4 DEF Reply
  <2>5. QED
    BY <1>2, <2>1, <2>2, <2>3, <2>4, <2>6 DEF Work
<1>3. ASSUME NEW w \in Workers, Crash(w)
      PROVE  TypeOK'
  BY <1>3 DEF Crash
<1>4. CASE Open
  BY <1>4 DEF Open
<1>5. CASE UNCHANGED vars
  BY <1>5 DEF vars
<1>6. QED
  BY <1>1, <1>2, <1>3, <1>4, <1>5 DEF Next

LEMMA LockStep == TypeOK /\ HoldsLock /\ [Next]_vars => HoldsLock'
<1> SUFFICES ASSUME TypeOK, HoldsLock, [Next]_vars
             PROVE  HoldsLock'
  OBVIOUS
<1> USE ClientsAssumption DEF TypeOK, HoldsLock, Answers, Places
<1>1. ASSUME NEW c \in Clients, NEW w \in Workers, Submit(c, w)
      PROVE  HoldsLock'
  BY <1>1 DEF Submit
<1>2. ASSUME NEW w \in Workers, Work(w)
      PROVE  HoldsLock'
  <2>1. CASE Authorize(w)
    BY <2>1 DEF Authorize
  <2>2. CASE TakeLock(w)
    BY <2>2 DEF TakeLock
  <2>3. CASE ApplyCommand(w)
    BY <2>3 DEF ApplyCommand
  <2>4. CASE Deny(w) \/ Replay(w) \/ ReportConflict(w) \/ Reject(w) \/ Commit(w)
    <3>1. /\ \E a \in Answers : Finish(w, a)
          /\ serving' = serving
          /\ at[w] # "idle"
      BY <2>4 DEF Deny, Replay, ReportConflict, Reject, Commit
    <3>2. QED
      BY <3>1 DEF Finish
  <2>5. CASE Reply(w)
    BY <2>5 DEF Reply
  <2>6. QED
    BY <1>2, <2>1, <2>2, <2>3, <2>4, <2>5 DEF Work
<1>3. ASSUME NEW w \in Workers, Crash(w)
      PROVE  HoldsLock'
  BY <1>3 DEF Crash
<1>4. CASE Open
  BY <1>4 DEF Open
<1>5. CASE UNCHANGED vars
  BY <1>5 DEF vars
<1>6. QED
  BY <1>1, <1>2, <1>3, <1>4, <1>5 DEF Next

(* Nothing but a commit writes the log and the receipts; a step that is     *)
(* neither a commit nor a reply tells no client anything.                   *)
LEMMA StoreFrame ==
  ASSUME [Next]_vars
  PROVE  \/ \E w \in Workers : Commit(w)
         \/ UNCHANGED <<receipts, log>>
<1>1. CASE UNCHANGED vars
  BY <1>1 DEF vars
<1>2. ASSUME NEW w \in Workers, Work(w)
      PROVE  Commit(w) \/ UNCHANGED <<receipts, log>>
  BY <1>2 DEF Work, Authorize, Deny, TakeLock, Replay, ReportConflict,
              ApplyCommand, Reject, Reply, storeVars
<1>3. CASE Next
  BY <1>2, <1>3 DEF Next, Submit, Crash, Open, storeVars
<1>4. QED
  BY <1>1, <1>3

(* A receipt, once there, stays as it is. *)
LEMMA ReceiptsStay ==
  ASSUME TypeOK, HoldsLock, NoLostUpdate, [Next]_vars,
         NEW k \in Keys, receipts[k] # None
  PROVE  receipts'[k] = receipts[k]
<1>1. ASSUME NEW w \in Workers, Commit(w)
      PROVE  receipts'[k] = receipts[k]
  BY <1>1 DEF Commit, NoLostUpdate, TypeOK
<1>2. QED
  BY <1>1, StoreFrame

LEMMA LogEntries ==
  ASSUME TypeOK
  PROVE  \A i \in DOMAIN log : log[i] \in [key : Keys, body : Bodies]
<1>1. log \in Seq([key : Keys, body : Bodies])
  BY DEF TypeOK
<1>2. DOMAIN log = 1..Len(log)
  BY <1>1
<1>3. QED
  BY <1>1, <1>2, ElementOfSeq, Zenon

LEMMA AppliedOnceStep ==
  CommandsInv /\ [Next]_vars => AppliedOnce'
<1> SUFFICES ASSUME CommandsInv, [Next]_vars
             PROVE  AppliedOnce'
  OBVIOUS
<1> USE ClientsAssumption
<1>1. CASE UNCHANGED <<receipts, log>>
  BY <1>1 DEF CommandsInv, AppliedOnce
<1>2. ASSUME NEW w \in Workers, Commit(w)
      PROVE  AppliedOnce'
  <2> DEFINE key   == Key(w)
             body  == Body(w)
             entry == [key |-> key, body |-> body]
             n     == Len(log) + 1
  <2>1. /\ key \in Keys
        /\ body \in Bodies
        /\ receipts[key] = None
    BY <1>2 DEF CommandsInv, TypeOK, HoldsLock, NoLostUpdate, Commit, Key, Body
  <2> HIDE DEF key, body
  <2>2. /\ receipts' = [receipts EXCEPT ![key] = body]
        /\ log' = Append(log, entry)
    BY <1>2 DEF Commit, key, body
  <2>3. /\ log \in Seq([key : Keys, body : Bodies])
        /\ receipts \in [Keys -> Bodies \cup {None}]
    BY DEF CommandsInv, TypeOK
  <2>4. /\ DOMAIN log = 1..Len(log)
        /\ Len(log) \in Nat
        /\ DOMAIN log' = 1..n
        /\ log'[n] = entry
        /\ \A i \in DOMAIN log : log'[i] = log[i] /\ log[i] \in [key : Keys, body : Bodies]
    <3>1. entry \in [key : Keys, body : Bodies]
      BY <2>1
    <3> HIDE DEF entry
    <3>2. DOMAIN log = 1..Len(log) /\ Len(log) \in Nat
      BY <2>3
    <3>3. \A i \in DOMAIN log : log[i] \in [key : Keys, body : Bodies]
      BY LogEntries DEF CommandsInv
    <3>4. DOMAIN log' = 1..n /\ log'[n] = entry
      BY <2>2, <2>3, <3>1
    <3>5. \A i \in 1..Len(log) : log'[i] = log[i]
      BY <2>2, <2>3, <3>1
    <3>6. QED
      BY <3>2, <3>3, <3>4, <3>5
  <2>5. \A i \in DOMAIN log' : i = n \/ i \in DOMAIN log
    BY <2>4
  <2>6. \A i \in DOMAIN log : log[i].key # key
    <3> SUFFICES ASSUME NEW i \in DOMAIN log, log[i].key = key
                 PROVE  FALSE
      OBVIOUS
    <3>1. receipts[log[i].key] = log[i].body
      BY DEF CommandsInv, AppliedOnce
    <3>2. log[i].body \in Bodies
      BY <2>4
    <3>3. QED
      BY <2>1, <3>1, <3>2
  <2>7. \A i, j \in DOMAIN log' : log'[i].key = log'[j].key => i = j
    BY <2>4, <2>5, <2>6 DEF CommandsInv, AppliedOnce
  <2>8. \A i \in DOMAIN log' : receipts'[log'[i].key] = log'[i].body
    <3>1. receipts'[key] = body
      BY <2>1, <2>2, <2>3
    <3>2. \A i \in DOMAIN log : receipts'[log[i].key] = log[i].body
      BY <2>2, <2>3, <2>4, <2>6 DEF CommandsInv, AppliedOnce
    <3>3. QED
      BY <2>4, <2>5, <3>1, <3>2
  <2>9. \A k \in Keys : receipts'[k] # None => \E i \in DOMAIN log' : log'[i].key = k
    <3> SUFFICES ASSUME NEW k \in Keys, receipts'[k] # None
                 PROVE  \E i \in DOMAIN log' : log'[i].key = k
      OBVIOUS
    <3>1. CASE k = key
      BY <2>4, <3>1
    <3>2. CASE k # key
      <4>1. receipts[k] # None
        BY <2>2, <2>3, <3>2
      <4>2. PICK i \in DOMAIN log : log[i].key = k
        BY <4>1 DEF CommandsInv, AppliedOnce
      <4>3. i \in DOMAIN log' /\ log'[i] = log[i]
        BY <2>4
      <4>4. QED
        BY <4>2, <4>3
    <3>3. QED
      BY <3>1, <3>2
  <2>10. QED
    BY <2>7, <2>8, <2>9 DEF AppliedOnce
<1>3. QED
  BY <1>1, <1>2, StoreFrame

LEMMA NoLostUpdateStep ==
  CommandsInv /\ [Next]_vars => NoLostUpdate'
<1> SUFFICES ASSUME CommandsInv, [Next]_vars,
                    NEW w \in Workers, at'[w] = "applied"
             PROVE  /\ seen'[w] = Len(log')
                    /\ receipts'[Key(w)'] = None
  BY DEF NoLostUpdate, Key
<1> USE ClientsAssumption DEF CommandsInv, TypeOK, HoldsLock
<1>1. CASE ApplyCommand(w)
  BY <1>1 DEF ApplyCommand, storeVars, Key
<1>2. CASE ~ApplyCommand(w)
  <2>1. /\ at[w] = "applied"
        /\ seen'[w] = seen[w]
        /\ serving'[w] = serving[w]
    <3>1. CASE UNCHANGED vars
      BY <3>1 DEF vars
    <3>2. ASSUME NEW v \in Workers, Work(v)
          PROVE  /\ at[w] = "applied"
                 /\ seen'[w] = seen[w]
                 /\ serving'[w] = serving[w]
      BY <1>2, <3>2 DEF Work, Authorize, Deny, TakeLock, Replay, ReportConflict,
                   ApplyCommand, Reject, Commit, Reply, Finish
    <3>3. CASE Next
      BY <3>2, <3>3 DEF Next, Submit, Crash, Open
    <3>4. QED
      BY <3>1, <3>3
  <2>2. UNCHANGED <<receipts, log>>
    <3>1. ASSUME NEW v \in Workers, Commit(v)
          PROVE  FALSE
      <4>1. lock = v /\ lock = w
        BY <2>1, <3>1 DEF Commit
      <4>2. at'[v] = "finished"
        BY <3>1 DEF Commit, Finish
      <4>3. QED
        BY <4>1, <4>2
    <3>2. QED
      BY <3>1, StoreFrame
  <2>3. QED
    BY <2>1, <2>2 DEF NoLostUpdate, Key
<1>3. QED
  BY <1>1, <1>2

LEMMA CopiedOnceStep ==
  CommandsInv /\ [Next]_vars => CopiedOnce'
<1> SUFFICES ASSUME CommandsInv, [Next]_vars
             PROVE  CopiedOnce'
  OBVIOUS
<1> USE DEF CommandsInv, CopiedOnce
<1>1. CASE UNCHANGED <<log, copies>>
  BY <1>1
<1>2. ASSUME NEW w \in Workers, Commit(w)
      PROVE  CopiedOnce'
  <2>1. copies \in Nat /\ copies <= 1
    BY DEF TypeOK
  <2>2. copies' = 1
    BY <1>2, <2>1 DEF Commit
  <2>3. QED
    BY <2>2
<1>3. CASE Open
  BY <1>3 DEF Open
<1>4. UNCHANGED <<log, copies>> \/ (\E w \in Workers : Commit(w)) \/ Open
  <2>1. CASE UNCHANGED vars
    BY <2>1 DEF vars
  <2>2. ASSUME NEW w \in Workers, Work(w)
        PROVE  Commit(w) \/ UNCHANGED <<log, copies>>
    BY <2>2 DEF Work, Authorize, Deny, TakeLock, Replay, ReportConflict,
                ApplyCommand, Reject, Reply, storeVars
  <2>3. CASE Next
    BY <2>2, <2>3 DEF Next, Submit, Crash, storeVars
  <2>4. QED
    BY <2>1, <2>3
<1>5. QED
  BY <1>1, <1>2, <1>3, <1>4

(* An answer is decided by Replay, ReportConflict or Commit, each of which   *)
(* has just read or written the receipt it speaks of.                       *)
LEMMA DecidedStep ==
  CommandsInv /\ [Next]_vars => DecidedAnswersAreTrue'
<1> SUFFICES ASSUME CommandsInv, [Next]_vars,
                    NEW w \in Workers, at'[w] = "finished"
             PROVE  /\ answer'[w] = "done" => receipts'[Key(w)'] = Body(w)'
                    /\ answer'[w] = "conflict" => receipts'[Key(w)'] \notin {None, Body(w)'}
  BY DEF DecidedAnswersAreTrue, Key, Body
<1> USE ClientsAssumption DEF CommandsInv, TypeOK, HoldsLock
<1>1. CASE at[w] = "finished"
  <2>1. answer'[w] = answer[w] /\ serving'[w] = serving[w]
    <3>1. CASE UNCHANGED vars
      BY <3>1 DEF vars
    <3>2. ASSUME NEW v \in Workers, Work(v)
          PROVE  answer'[w] = answer[w] /\ serving'[w] = serving[w]
      BY <1>1, <3>2 DEF Work, Authorize, Deny, TakeLock, Replay, ReportConflict,
                   ApplyCommand, Reject, Commit, Reply, Finish
    <3>3. CASE Next
      BY <1>1, <3>2, <3>3 DEF Next, Submit, Crash, Open
    <3>4. QED
      BY <3>1, <3>3
  <2>2. serving[w] \in Clients /\ Key(w) \in Keys /\ Body(w) \in Bodies
    BY <1>1 DEF Key, Body
  <2>3. receipts[Key(w)] # None => receipts'[Key(w)] = receipts[Key(w)]
    BY <2>2, ReceiptsStay
  <2>4. Key(w)' = Key(w) /\ Body(w)' = Body(w)
    BY <2>1 DEF Key, Body
  <2>5. QED
    BY <1>1, <2>1, <2>2, <2>3, <2>4 DEF DecidedAnswersAreTrue
<1>2. CASE at[w] # "finished"
  <2>1. Deny(w) \/ Replay(w) \/ ReportConflict(w) \/ Reject(w) \/ Commit(w)
    <3>1. CASE UNCHANGED vars
      BY <1>2, <3>1 DEF vars
    <3>2. ASSUME NEW v \in Workers, Work(v)
          PROVE  Deny(w) \/ Replay(w) \/ ReportConflict(w) \/ Reject(w) \/ Commit(w)
      BY <1>2, <3>2 DEF Work, Authorize, Deny, TakeLock, Replay, ReportConflict,
                   ApplyCommand, Reject, Commit, Reply, Finish
    <3>3. CASE Next
      BY <1>2, <3>2, <3>3 DEF Next, Submit, Crash, Open
    <3>4. QED
      BY <3>1, <3>3
  <2>2. serving[w] \in Clients
    BY <2>1 DEF Deny, Replay, ReportConflict, Reject, Commit
  <2>3. CASE Deny(w) \/ Reject(w)
    BY <2>3 DEF Deny, Reject, Finish
  <2>4. CASE Replay(w)
    BY <2>4 DEF Replay, Finish, Key, Body, storeVars
  <2>5. CASE ReportConflict(w)
    BY <2>5 DEF ReportConflict, Finish, Key, Body, storeVars
  <2>6. CASE Commit(w)
    BY <2>2, <2>6 DEF Commit, Finish, Key, Body
  <2>7. QED
    BY <2>1, <2>3, <2>4, <2>5, <2>6
<1>3. QED
  BY <1>1, <1>2

LEMMA AnswersStep ==
  CommandsInv /\ [Next]_vars => AnswersAreTrue'
<1> SUFFICES ASSUME CommandsInv, [Next]_vars, NEW c \in Clients
             PROVE  /\ heard'[c] = "done" => receipts'[KeyOf[c]] = BodyOf[c]
                    /\ heard'[c] = "conflict" => receipts'[KeyOf[c]] \notin {None, BodyOf[c]}
  BY DEF AnswersAreTrue
<1> USE ClientsAssumption DEF CommandsInv, TypeOK, HoldsLock
<1>1. KeyOf[c] \in Keys /\ BodyOf[c] \in Bodies
  OBVIOUS
<1>2. receipts[KeyOf[c]] # None => receipts'[KeyOf[c]] = receipts[KeyOf[c]]
  BY <1>1, ReceiptsStay
<1>3. CASE heard'[c] = heard[c]
  BY <1>1, <1>2, <1>3 DEF AnswersAreTrue
<1>4. CASE heard'[c] # heard[c]
  <2>1. PICK w \in Workers : Reply(w) /\ serving[w] = c /\ heard'[c] = answer[w]
    <3>1. CASE UNCHANGED vars
      BY <1>4, <3>1 DEF vars
    <3>2. ASSUME NEW w \in Workers, Work(w)
          PROVE  Reply(w) /\ serving[w] = c /\ heard'[c] = answer[w]
      BY <1>4, <3>2 DEF Work, Authorize, Deny, TakeLock, Replay, ReportConflict,
                   ApplyCommand, Reject, Commit, Reply
    <3>3. CASE Next
      BY <1>4, <3>2, <3>3 DEF Next, Submit, Crash, Open
    <3>4. QED
      BY <3>1, <3>3
  <2>2. UNCHANGED <<receipts, log>>
    BY <2>1 DEF Reply, storeVars
  <2>3. at[w] = "finished" /\ Key(w) = KeyOf[c] /\ Body(w) = BodyOf[c]
    BY <2>1 DEF Reply, Key, Body
  <2>4. QED
    BY <2>1, <2>2, <2>3 DEF DecidedAnswersAreTrue
<1>5. QED
  BY <1>3, <1>4

(* The invariant holds throughout, whatever the number of workers, clients  *)
(* and crashes: the row lock makes one transaction at a time see and change *)
(* the log and the receipts.                                                *)
THEOREM Invariance == Spec => []CommandsInv
<1>1. Init => CommandsInv
  BY InitInv
<1>2. CommandsInv /\ [Next]_vars => CommandsInv'
  BY TypeStep, LockStep, AppliedOnceStep, NoLostUpdateStep, CopiedOnceStep,
     AnswersStep, DecidedStep DEF CommandsInv
<1>3. QED
  BY <1>1, <1>2, PTL DEF Spec

LEMMA AbstractInit == Init => Abstract!Init
BY DEF Init, Abstract!Init

(* A commit is the effect of the command served; a reply is what the client *)
(* hears; every other step is invisible to clients.                         *)
LEMMA AbstractStep ==
  CommandsInv /\ [Next]_vars => [Abstract!Next]_(Abstract!vars)
<1> SUFFICES ASSUME CommandsInv, [Next]_vars
             PROVE  [Abstract!Next]_(Abstract!vars)
  OBVIOUS
<1> USE ClientsAssumption DEF Abstract!vars
<1>1. CASE UNCHANGED vars
  BY <1>1 DEF vars
<1>2. ASSUME NEW w \in Workers, Commit(w)
      PROVE  Abstract!Next
  <2>1. /\ serving[w] \in Clients
        /\ Key(w) \in Keys
        /\ receipts[Key(w)] = None
    BY <1>2 DEF CommandsInv, TypeOK, HoldsLock, NoLostUpdate, Commit, Key
  <2>2. \A i \in DOMAIN log : log[i].body \in Bodies
    BY LogEntries DEF CommandsInv
  <2>3. \A i \in DOMAIN log : log[i].key # KeyOf[serving[w]]
    BY <2>1, <2>2 DEF CommandsInv, AppliedOnce, Key
  <2>4. Abstract!TakeEffect(serving[w])
    BY <1>2, <2>3 DEF Abstract!TakeEffect, Abstract!Effects, Abstract!Effect,
                      Commit, Key, Body
  <2>5. QED
    BY <2>1, <2>4 DEF Abstract!Next
<1>3. ASSUME NEW w \in Workers, Reply(w)
      PROVE  Abstract!Next \/ UNCHANGED <<log, heard>>
  <2> DEFINE c == serving[w]
  <2>1. c \in Clients /\ answer[w] \in Answers /\ KeyOf[c] \in Keys
    BY <1>3 DEF CommandsInv, TypeOK, HoldsLock, Reply
  <2>2. CASE heard[c] # "nothing"
    BY <1>3, <2>2 DEF Reply, storeVars
  <2>3. CASE heard[c] = "nothing"
    <3>1. /\ heard' = [heard EXCEPT ![c] = answer[w]]
          /\ log' = log
      BY <1>3, <2>3 DEF Reply, storeVars
    <3>2. CASE answer[w] = "refused"
      BY <2>1, <2>3, <3>1, <3>2 DEF Abstract!Next, Abstract!Refused
    <3>3. CASE answer[w] \in {"done", "conflict"}
      <4>1. receipts[KeyOf[c]] # None
        BY <1>3, <2>1, <3>3 DEF CommandsInv, DecidedAnswersAreTrue, Reply, Key, Body
      <4>2. PICK i \in DOMAIN log : log[i].key = KeyOf[c]
        BY <2>1, <4>1 DEF CommandsInv, AppliedOnce
      <4>3. log[i].body = receipts[KeyOf[c]]
        BY <4>2 DEF CommandsInv, AppliedOnce
      <4>4. CASE answer[w] = "conflict"
        <5>1. receipts[KeyOf[c]] # BodyOf[c]
          BY <1>3, <4>4 DEF CommandsInv, DecidedAnswersAreTrue, Reply, Key, Body
        <5>2. Abstract!Conflict(c)
          BY <2>3, <3>1, <4>2, <4>3, <4>4, <5>1 DEF Abstract!Conflict, Abstract!Effects
        <5>3. QED
          BY <2>1, <5>2 DEF Abstract!Next
      <4>5. CASE answer[w] = "done"
        <5>1. receipts[KeyOf[c]] = BodyOf[c]
          BY <1>3, <4>5 DEF CommandsInv, DecidedAnswersAreTrue, Reply, Key, Body
        <5>2. log[i] = Abstract!Effect(c)
          <6>1. log[i] \in [key : Keys, body : Bodies]
            BY LogEntries DEF CommandsInv
          <6>2. QED
            BY <4>2, <4>3, <5>1, <6>1 DEF Abstract!Effect
        <5>3. Abstract!Done(c)
          BY <2>3, <3>1, <4>5, <5>2 DEF Abstract!Done, Abstract!Effects
        <5>4. QED
          BY <2>1, <5>3 DEF Abstract!Next
      <4>6. QED
        BY <3>3, <4>4, <4>5
    <3>4. QED
      BY <2>1, <3>2, <3>3 DEF Answers
  <2>4. QED
    BY <2>2, <2>3
<1>4. ASSUME NEW w \in Workers, Work(w), ~Commit(w), ~Reply(w)
      PROVE  UNCHANGED <<log, heard>>
  BY <1>4 DEF Work, Authorize, Deny, TakeLock, Replay, ReportConflict,
              ApplyCommand, Reject, storeVars
<1>5. CASE Next
  BY <1>2, <1>3, <1>4, <1>5 DEF Next, Submit, Crash, Open, storeVars
<1>6. QED
  BY <1>1, <1>5

(* The command pipeline keeps the promise of module ExactlyOnce, however    *)
(* many workers, clients and crashes there are.                             *)
THEOREM CommandsRefine == Spec => ImplementsExactlyOnce
<1>1. Init => Abstract!Init
  BY AbstractInit
<1>2. CommandsInv /\ [Next]_vars => [Abstract!Next]_(Abstract!vars)
  BY AbstractStep
<1>3. QED
  BY <1>1, <1>2, Invariance, PTL DEF Spec, ImplementsExactlyOnce, Abstract!Spec

(* Type correctness of the command pipeline. *)
THEOREM CommandsTyped == Spec => []TypeOK
BY Invariance, PTL DEF CommandsInv

(* However many workers race and crash, a command takes effect once and its *)
(* receipt is that effect.                                                  *)
THEOREM CommandsAppliedOnce == Spec => []AppliedOnce
BY Invariance, PTL DEF CommandsInv

(* Nobody overwrites an effect it has not read. *)
THEOREM CommandsLoseNoUpdate == Spec => []NoLostUpdate
BY Invariance, PTL DEF CommandsInv

(* What a client is told of its command is so, now and later. *)
THEOREM CommandsReceiptsTell == Spec => []ReceiptsTell
BY Invariance, PTL DEF CommandsInv, ReceiptsTell

(* Its part about the clients. *)
THEOREM CommandsAnswerTruly == Spec => []AnswersAreTrue
BY Invariance, PTL DEF CommandsInv

-----------------------------------------------------------------------------
(* Messages and deliveries.  What a worker is at tells how far its row and   *)
(* the row's receiver are; that no two workers are at one row keeps the      *)
(* steps of one from being undone by another.                               *)

(* What the proofs about Outbox need beside its properties.                 *)

(* No two workers are at one row, and what a worker is at tells how far the  *)
(* row and its receiver are.                                                *)
WorkersApart ==
  \A w, v \in Workers : ~Sending!Idle(w) /\ ~Sending!Idle(v) /\ worker[w].row = worker[v].row =>
    w = v

AtMessage(w) ==
  LET m == worker[w].row IN
  /\ worker[w].step \in {"claimed", "sent"} => message[m] = "sending"
  /\ worker[w].step = "noted" => message[m] \in {"sent", "unknown"}
  /\ worker[w].step = "claimed" => got[m] = 0
  /\ worker[w].step = "sent" /\ worker[w].fine => got[m] = 1

AtDelivery(w) ==
  LET d == worker[w].row IN
  /\ worker[w].step # "noted" /\ delivery[d] # None /\ delivery[d].status = "sending"
  /\ worker[w].step = "claimed" =>
       got[d] + Addresses <= Sending!CopiesOf(delivery[d].attempts)
  /\ worker[w].step = "sent" /\ worker[w].fine => got[d] > 0

RowsAtWork ==
  \A w \in Workers : ~Sending!Idle(w) => /\ worker[w].row \in Messages => AtMessage(w)
                                         /\ worker[w].row \in Deliveries => AtDelivery(w)

(* A delivery that waits has attempts left. *)
AttemptsLeft ==
  \A d \in Deliveries :
    /\ delivery[d] = None => got[d] = 0
    /\ delivery[d] # None /\ delivery[d].status \in {"queued", "retry"} =>
         delivery[d].attempts < MaxAttempts

OutboxInv == Sending!SentIsTrue /\ WorkersApart /\ RowsAtWork /\ AttemptsLeft

ReminderTables ==
  /\ reminders \in [Notices -> Sending!ReminderRows \cup {None}]
  /\ batches \in [Workers -> Sending!BatchRows \cup {None}]
  /\ editors \in [Editors -> Sending!EditRows \cup {None}]
  /\ mails \in [Notices -> Nat] /\ excused \subseteq Notices /\ company \in BOOLEAN

(* What was mailed is marked, or its worker still holds it, and an edit that *)
(* will write the row over has read the mark.                               *)
HeldUnsent(n) == Sending!Held(n) => reminders[n] # None /\ ~reminders[n].sent

Accounted(n) ==
  /\ mails[n] <= 1
  /\ \A e \in Editors : editors[e] # None /\ editors[e].reminder = n =>
       ~Sending!Held(n) /\ (mails[n] = 1 => editors[e].row.sent)
  /\ \A w \in Workers : batches[w] # None /\ n \in batches[w].held \ batches[w].mailed =>
       mails[n] = 0
  /\ mails[n] = 1 /\ ~Sending!Held(n) => reminders[n] = None \/ reminders[n].sent

RemindersInv ==
  /\ Sending!RemindersTypeOK /\ ReminderTables
  /\ \A n \in Notices : HeldUnsent(n) /\ (n \notin excused => Accounted(n))

LEMMA CopiesGrow ==
  /\ Sending!CopiesOf(0) = 0
  /\ \A n \in Nat : /\ Sending!CopiesOf(n) \in Nat
                    /\ Sending!CopiesOf(n + 1) = Sending!CopiesOf(n) + Addresses
<1>1. Addresses \in Nat \ {0}
  BY OutboxAssumption DEF Sending!OutboxConstants
<1> QED
  BY <1>1 DEF Sending!CopiesOf

LEMMA OutboxInitially == Sending!OutboxInit => OutboxInv
BY OutboxAssumption
   DEF Sending!OutboxInit, OutboxInv, Sending!SentIsTrue, Sending!OutboxTypeOK,
       WorkersApart, RowsAtWork, AttemptsLeft, Sending!Idle,
       Sending!OutboxConstants, Sending!Rows

LEMMA OutboxStepKeeps ==
  OutboxInv /\ [Sending!OutboxNext]_outboxVars => OutboxInv'
<1> SUFFICES ASSUME OutboxInv, [Sending!OutboxNext]_outboxVars
             PROVE  OutboxInv'
  OBVIOUS
<1> USE OutboxAssumption
    DEF Sending!OutboxConstants, Sending!Rows, Sending!Copies, Sending!Idle,
        Sending!DeliveryRows, Sending!WorkerRows
<1>1. ASSUME NEW m \in Messages, NEW together \in BOOLEAN, Sending!Queue(m, together)
      PROVE  OutboxInv'
  <2>1. Sending!OutboxTypeOK'
    BY <1>1
       DEF OutboxInv, Sending!SentIsTrue, Sending!OutboxTypeOK, Sending!Queue
  <2>2. Sending!SentIsTrue'
    BY <1>1, <2>1
       DEF OutboxInv, Sending!SentIsTrue, Sending!OutboxTypeOK,
           WorkersApart, RowsAtWork, AttemptsLeft,
           AtMessage, AtDelivery, Sending!Queue
  <2>3. WorkersApart'
    BY <1>1, <2>1
       DEF OutboxInv, Sending!SentIsTrue, Sending!OutboxTypeOK,
           WorkersApart, RowsAtWork, AtMessage,
           AtDelivery, Sending!Queue
  <2>4. RowsAtWork'
    BY <1>1, <2>1, <2>3
       DEF OutboxInv, Sending!SentIsTrue, Sending!OutboxTypeOK,
           WorkersApart, RowsAtWork, AttemptsLeft,
           AtMessage, AtDelivery, Sending!Queue
  <2>5. AttemptsLeft'
    BY <1>1, <2>1
       DEF OutboxInv, Sending!SentIsTrue, Sending!OutboxTypeOK,
           AttemptsLeft, RowsAtWork, AtDelivery, Sending!Queue
  <2> QED
    BY <2>2, <2>3, <2>4, <2>5 DEF OutboxInv
<1>2. ASSUME NEW m \in Messages, Sending!AddEvent(m)
      PROVE  OutboxInv'
  <2>1. Sending!OutboxTypeOK'
    BY <1>2
       DEF OutboxInv, Sending!SentIsTrue, Sending!OutboxTypeOK,
           Sending!AddEvent
  <2>2. Sending!SentIsTrue'
    BY <1>2, <2>1
       DEF OutboxInv, Sending!SentIsTrue, Sending!OutboxTypeOK,
           WorkersApart, RowsAtWork, AttemptsLeft,
           AtMessage, AtDelivery, Sending!AddEvent
  <2>3. WorkersApart'
    BY <1>2, <2>1
       DEF OutboxInv, Sending!SentIsTrue, Sending!OutboxTypeOK,
           WorkersApart, RowsAtWork, AtMessage,
           AtDelivery, Sending!AddEvent
  <2>4. RowsAtWork'
    BY <1>2, <2>1, <2>3
       DEF OutboxInv, Sending!SentIsTrue, Sending!OutboxTypeOK,
           WorkersApart, RowsAtWork, AttemptsLeft,
           AtMessage, AtDelivery, Sending!AddEvent
  <2>5. AttemptsLeft'
    BY <1>2, <2>1
       DEF OutboxInv, Sending!SentIsTrue, Sending!OutboxTypeOK,
           AttemptsLeft, RowsAtWork, AtDelivery,
           Sending!AddEvent
  <2> QED
    BY <2>2, <2>3, <2>4, <2>5 DEF OutboxInv
<1>3. ASSUME NEW m \in Messages, Sending!Cancel(m)
      PROVE  OutboxInv'
  <2>1. Sending!OutboxTypeOK'
    BY <1>3
       DEF OutboxInv, Sending!SentIsTrue, Sending!OutboxTypeOK, Sending!Cancel
  <2>2. Sending!SentIsTrue'
    BY <1>3, <2>1
       DEF OutboxInv, Sending!SentIsTrue, Sending!OutboxTypeOK,
           WorkersApart, RowsAtWork, AttemptsLeft,
           AtMessage, AtDelivery, Sending!Cancel
  <2>3. WorkersApart'
    BY <1>3, <2>1
       DEF OutboxInv, Sending!SentIsTrue, Sending!OutboxTypeOK,
           WorkersApart, RowsAtWork, AtMessage,
           AtDelivery, Sending!Cancel
  <2>4. RowsAtWork'
    BY <1>3, <2>1, <2>3
       DEF OutboxInv, Sending!SentIsTrue, Sending!OutboxTypeOK,
           WorkersApart, RowsAtWork, AttemptsLeft,
           AtMessage, AtDelivery, Sending!Cancel
  <2>5. AttemptsLeft'
    BY <1>3, <2>1
       DEF OutboxInv, Sending!SentIsTrue, Sending!OutboxTypeOK,
           AttemptsLeft, RowsAtWork, AtDelivery, Sending!Cancel
  <2> QED
    BY <2>2, <2>3, <2>4, <2>5 DEF OutboxInv
<1>4. ASSUME NEW d \in Deliveries, Sending!QueueDelivery(d)
      PROVE  OutboxInv'
  <2>1. Sending!OutboxTypeOK'
    BY <1>4
       DEF OutboxInv, Sending!SentIsTrue, Sending!OutboxTypeOK,
           Sending!QueueDelivery
  <2>2. Sending!SentIsTrue'
    BY <1>4, <2>1, CopiesGrow
       DEF OutboxInv, Sending!SentIsTrue, Sending!OutboxTypeOK,
           WorkersApart, RowsAtWork, AttemptsLeft,
           AtMessage, AtDelivery, Sending!QueueDelivery
  <2>3. WorkersApart'
    BY <1>4, <2>1, CopiesGrow
       DEF OutboxInv, Sending!SentIsTrue, Sending!OutboxTypeOK,
           WorkersApart, RowsAtWork, AtMessage,
           AtDelivery, Sending!QueueDelivery
  <2>4. RowsAtWork'
    BY <1>4, <2>1, <2>3
       DEF OutboxInv, Sending!SentIsTrue, Sending!OutboxTypeOK,
           WorkersApart, RowsAtWork, AttemptsLeft,
           AtMessage, AtDelivery, Sending!QueueDelivery
  <2>5. AttemptsLeft'
    BY <1>4, <2>1, CopiesGrow
       DEF OutboxInv, Sending!SentIsTrue, Sending!OutboxTypeOK,
           AttemptsLeft, RowsAtWork, AtDelivery,
           Sending!QueueDelivery
  <2> QED
    BY <2>2, <2>3, <2>4, <2>5 DEF OutboxInv
<1>5. ASSUME NEW w \in Workers, NEW m \in Messages, Sending!PassOver(w, m)
      PROVE  OutboxInv'
  <2>1. Sending!OutboxTypeOK'
    BY <1>5
       DEF OutboxInv, Sending!SentIsTrue, Sending!OutboxTypeOK,
           Sending!PassOver
  <2>2. Sending!SentIsTrue'
    BY <1>5, <2>1
       DEF OutboxInv, Sending!SentIsTrue, Sending!OutboxTypeOK,
           WorkersApart, RowsAtWork, AttemptsLeft,
           AtMessage, AtDelivery, Sending!PassOver
  <2>3. WorkersApart'
    BY <1>5, <2>1
       DEF OutboxInv, Sending!SentIsTrue, Sending!OutboxTypeOK,
           WorkersApart, RowsAtWork, AtMessage,
           AtDelivery, Sending!PassOver
  <2>4. RowsAtWork'
    BY <1>5, <2>1, <2>3
       DEF OutboxInv, Sending!SentIsTrue, Sending!OutboxTypeOK,
           WorkersApart, RowsAtWork, AttemptsLeft,
           AtMessage, AtDelivery, Sending!PassOver
  <2>5. AttemptsLeft'
    BY <1>5, <2>1
       DEF OutboxInv, Sending!SentIsTrue, Sending!OutboxTypeOK,
           AttemptsLeft, RowsAtWork, AtDelivery,
           Sending!PassOver
  <2> QED
    BY <2>2, <2>3, <2>4, <2>5 DEF OutboxInv
<1>6. ASSUME NEW w \in Workers, NEW m \in Messages, Sending!Claim(w, m)
      PROVE  OutboxInv'
  <2>1. Sending!OutboxTypeOK'
    BY <1>6
       DEF OutboxInv, Sending!SentIsTrue, Sending!OutboxTypeOK, Sending!Claim,
           Sending!Take
  <2>2. Sending!SentIsTrue'
    BY <1>6, <2>1
       DEF OutboxInv, Sending!SentIsTrue, Sending!OutboxTypeOK,
           WorkersApart, RowsAtWork, AttemptsLeft,
           AtMessage, AtDelivery, Sending!Claim, Sending!Take
  <2>3. WorkersApart'
    BY <1>6, <2>1
       DEF OutboxInv, Sending!SentIsTrue, Sending!OutboxTypeOK,
           WorkersApart, RowsAtWork, AtMessage,
           AtDelivery, Sending!Claim, Sending!Take
  <2>4. RowsAtWork'
    BY <1>6, <2>1, <2>3
       DEF OutboxInv, Sending!SentIsTrue, Sending!OutboxTypeOK,
           WorkersApart, RowsAtWork, AttemptsLeft,
           AtMessage, AtDelivery, Sending!Claim, Sending!Take
  <2>5. AttemptsLeft'
    BY <1>6, <2>1
       DEF OutboxInv, Sending!SentIsTrue, Sending!OutboxTypeOK,
           AttemptsLeft, RowsAtWork, AtDelivery, Sending!Claim,
           Sending!Take
  <2> QED
    BY <2>2, <2>3, <2>4, <2>5 DEF OutboxInv
<1>7. ASSUME NEW w \in Workers, NEW d \in Deliveries, Sending!ClaimDelivery(w, d)
      PROVE  OutboxInv'
  <2>1. Sending!OutboxTypeOK'
    <3> DEFINE row == [status |-> "sending", attempts |-> delivery[d].attempts + 1]
               place == [row |-> d, step |-> "claimed", fine |-> FALSE]
    <3>1. /\ delivery[d] \in Sending!DeliveryRows
          /\ delivery[d].attempts \in 0..MaxAttempts /\ delivery[d].attempts < MaxAttempts
      BY <1>7
         DEF OutboxInv, Sending!SentIsTrue, Sending!OutboxTypeOK,
             AttemptsLeft, Sending!ClaimDelivery
    <3>2. row \in Sending!DeliveryRows /\ place \in Sending!WorkerRows
      BY <3>1
    <3>3. delivery' = [delivery EXCEPT ![d] = row] /\ worker' = [worker EXCEPT ![w] = place]
      BY <1>7, <3>1
         DEF OutboxInv, Sending!SentIsTrue, Sending!OutboxTypeOK,
             Sending!ClaimDelivery
    <3> HIDE DEF row, place
    <3>4. delivery' \in [Deliveries -> Sending!DeliveryRows \cup {None}]
      BY <3>2, <3>3 DEF OutboxInv, Sending!SentIsTrue, Sending!OutboxTypeOK
    <3> QED
      BY <1>7, <3>2, <3>3, <3>4
         DEF OutboxInv, Sending!SentIsTrue, Sending!OutboxTypeOK,
             Sending!ClaimDelivery
  <2>2. Sending!SentIsTrue'
    <3>1. /\ delivery' \in [Deliveries -> Sending!DeliveryRows \cup {None}]
          /\ UNCHANGED <<message, got>>
      BY <1>7, <2>1 DEF Sending!OutboxTypeOK, Sending!ClaimDelivery
    <3>2. ASSUME NEW c \in Deliveries, delivery'[c] # None
          PROVE  /\ got[c] <= Sending!CopiesOf(delivery'[c].attempts)
                 /\ delivery'[c].status = "delivered" => got[c] > 0
                 /\ delivery'[c].status = "failed" => delivery'[c].attempts = MaxAttempts
      <4>1. CASE c # d
        <5>1. delivery'[c] = delivery[c]
          BY <1>7, <4>1
             DEF OutboxInv, Sending!SentIsTrue, Sending!OutboxTypeOK,
                 Sending!ClaimDelivery
        <5> QED
          BY <3>2, <5>1 DEF OutboxInv, Sending!SentIsTrue
      <4>2. CASE c = d
        <5>1. /\ delivery'[c].status = "sending"
              /\ delivery'[c].attempts = delivery[c].attempts + 1
              /\ delivery[c] \in Sending!DeliveryRows /\ got[c] \in Nat
          BY <1>7, <4>2
             DEF OutboxInv, Sending!SentIsTrue, Sending!OutboxTypeOK,
                 Sending!ClaimDelivery
        <5>2. got[c] <= Sending!CopiesOf(delivery[c].attempts)
          BY <1>7, <4>2 DEF OutboxInv, Sending!SentIsTrue, Sending!ClaimDelivery
        <5> QED
          BY <5>1, <5>2, CopiesGrow
      <4> QED
        BY <4>1, <4>2
    <3> QED
      BY <2>1, <3>1, <3>2 DEF OutboxInv, Sending!SentIsTrue
  <2>3. WorkersApart'
    BY <1>7, <2>1
       DEF OutboxInv, Sending!SentIsTrue, Sending!OutboxTypeOK,
           WorkersApart, RowsAtWork, AtMessage,
           AtDelivery, Sending!ClaimDelivery
  <2>4. RowsAtWork'
    BY <1>7, <2>1, <2>3, CopiesGrow
       DEF OutboxInv, Sending!SentIsTrue, Sending!OutboxTypeOK,
           WorkersApart, RowsAtWork, AttemptsLeft,
           AtMessage, AtDelivery, Sending!ClaimDelivery
  <2>5. AttemptsLeft'
    BY <1>7, <2>1
       DEF OutboxInv, Sending!SentIsTrue, Sending!OutboxTypeOK,
           AttemptsLeft, RowsAtWork, AtDelivery,
           Sending!ClaimDelivery
  <2> QED
    BY <2>2, <2>3, <2>4, <2>5 DEF OutboxInv
<1>8. ASSUME NEW w \in Workers, NEW posted \in 0..Addresses, NEW fine \in BOOLEAN,
             Sending!SendOut(w, posted, fine)
      PROVE  OutboxInv'
  <2>1. Sending!OutboxTypeOK'
    <3>1. PICK r \in Sending!Rows, step \in {"claimed", "sent", "noted"}, b \in BOOLEAN :
            worker[w] = [row |-> r, step |-> step, fine |-> b]
      BY <1>8
         DEF OutboxInv, Sending!SentIsTrue, Sending!OutboxTypeOK,
             Sending!SendOut
    <3> DEFINE place == [row |-> r, step |-> "sent", fine |-> fine]
    <3>0. worker' = [worker EXCEPT ![w] =
            [[worker[w] EXCEPT !.step = "sent"] EXCEPT !.fine = fine]]
      BY <1>8, <3>1
         DEF OutboxInv, Sending!SentIsTrue, Sending!OutboxTypeOK,
             Sending!SendOut
    <3>6. /\ [worker[w] EXCEPT !.step = "sent"] = [row |-> r, step |-> "sent", fine |-> b]
          /\ [[row |-> r, step |-> "sent", fine |-> b] EXCEPT !.fine = fine] = place
      BY <3>1
    <3>2. worker' = [worker EXCEPT ![w] = place]
      BY <3>0, <3>6
    <3>3. place \in Sending!WorkerRows
      OBVIOUS
    <3> HIDE DEF place
    <3>4. worker' \in [Workers -> Sending!WorkerRows \cup {None}]
      BY <3>2, <3>3 DEF OutboxInv, Sending!SentIsTrue, Sending!OutboxTypeOK
    <3>5. got' \in [Sending!Rows -> Nat]
      BY <1>8, <3>1
         DEF OutboxInv, Sending!SentIsTrue, Sending!OutboxTypeOK,
             Sending!SendOut
    <3> QED
      BY <1>8, <3>4, <3>5
         DEF OutboxInv, Sending!SentIsTrue, Sending!OutboxTypeOK,
             Sending!SendOut
  <2>2. Sending!SentIsTrue'
    BY <1>8, <2>1, CopiesGrow
       DEF OutboxInv, Sending!SentIsTrue, Sending!OutboxTypeOK,
           WorkersApart, RowsAtWork, AttemptsLeft,
           AtMessage, AtDelivery, Sending!SendOut
  <2>3. WorkersApart'
    BY <1>8, <2>1, CopiesGrow
       DEF OutboxInv, Sending!SentIsTrue, Sending!OutboxTypeOK,
           WorkersApart, RowsAtWork, AtMessage,
           AtDelivery, Sending!SendOut
  <2>4. RowsAtWork'
    BY <1>8, <2>1, <2>3, CopiesGrow
       DEF OutboxInv, Sending!SentIsTrue, Sending!OutboxTypeOK,
           WorkersApart, RowsAtWork, AttemptsLeft,
           AtMessage, AtDelivery, Sending!SendOut
  <2>5. AttemptsLeft'
    BY <1>8, <2>1, CopiesGrow
       DEF OutboxInv, Sending!SentIsTrue, Sending!OutboxTypeOK,
           AttemptsLeft, RowsAtWork, AtDelivery,
           Sending!SendOut
  <2> QED
    BY <2>2, <2>3, <2>4, <2>5 DEF OutboxInv
<1>9. ASSUME NEW w \in Workers, Sending!NoteMessage(w)
      PROVE  OutboxInv'
  <2>1. Sending!OutboxTypeOK'
    BY <1>9
       DEF OutboxInv, Sending!SentIsTrue, Sending!OutboxTypeOK,
           Sending!NoteMessage
  <2>2. Sending!SentIsTrue'
    BY <1>9, <2>1
       DEF OutboxInv, Sending!SentIsTrue, Sending!OutboxTypeOK,
           WorkersApart, RowsAtWork, AttemptsLeft,
           AtMessage, AtDelivery, Sending!NoteMessage
  <2>3. WorkersApart'
    BY <1>9, <2>1
       DEF OutboxInv, Sending!SentIsTrue, Sending!OutboxTypeOK,
           WorkersApart, RowsAtWork, AtMessage,
           AtDelivery, Sending!NoteMessage
  <2>4. RowsAtWork'
    BY <1>9, <2>1, <2>3
       DEF OutboxInv, Sending!SentIsTrue, Sending!OutboxTypeOK,
           WorkersApart, RowsAtWork, AttemptsLeft,
           AtMessage, AtDelivery, Sending!NoteMessage
  <2>5. AttemptsLeft'
    BY <1>9, <2>1
       DEF OutboxInv, Sending!SentIsTrue, Sending!OutboxTypeOK,
           AttemptsLeft, RowsAtWork, AtDelivery,
           Sending!NoteMessage
  <2> QED
    BY <2>2, <2>3, <2>4, <2>5 DEF OutboxInv
<1>10. ASSUME NEW w \in Workers, Sending!CloseEvent(w)
      PROVE  OutboxInv'
  <2>1. Sending!OutboxTypeOK'
    BY <1>10
       DEF OutboxInv, Sending!SentIsTrue, Sending!OutboxTypeOK,
           Sending!CloseEvent
  <2>2. Sending!SentIsTrue'
    BY <1>10, <2>1
       DEF OutboxInv, Sending!SentIsTrue, Sending!OutboxTypeOK,
           WorkersApart, RowsAtWork, AttemptsLeft,
           AtMessage, AtDelivery, Sending!CloseEvent
  <2>3. WorkersApart'
    BY <1>10, <2>1
       DEF OutboxInv, Sending!SentIsTrue, Sending!OutboxTypeOK,
           WorkersApart, RowsAtWork, AtMessage,
           AtDelivery, Sending!CloseEvent
  <2>4. RowsAtWork'
    BY <1>10, <2>1, <2>3
       DEF OutboxInv, Sending!SentIsTrue, Sending!OutboxTypeOK,
           WorkersApart, RowsAtWork, AttemptsLeft,
           AtMessage, AtDelivery, Sending!CloseEvent
  <2>5. AttemptsLeft'
    BY <1>10, <2>1
       DEF OutboxInv, Sending!SentIsTrue, Sending!OutboxTypeOK,
           AttemptsLeft, RowsAtWork, AtDelivery,
           Sending!CloseEvent
  <2> QED
    BY <2>2, <2>3, <2>4, <2>5 DEF OutboxInv
<1>11. ASSUME NEW w \in Workers, Sending!NoteDelivery(w)
      PROVE  OutboxInv'
  <2>1. Sending!OutboxTypeOK'
    <3>1. PICK d \in Deliveries : d = worker[w].row
      BY <1>11
         DEF OutboxInv, Sending!SentIsTrue, Sending!OutboxTypeOK,
             Sending!NoteDelivery
    <3> DEFINE row == [delivery[d] EXCEPT !.status =
                         CASE worker[w].fine                       -> "delivered"
                           [] delivery[d].attempts >= MaxAttempts  -> "failed"
                           [] OTHER                                -> "retry"]
    <3>2. delivery[d] \in Sending!DeliveryRows
      BY <1>11, <3>1
         DEF OutboxInv, Sending!SentIsTrue, Sending!OutboxTypeOK,
             RowsAtWork, AtDelivery, Sending!NoteDelivery
    <3>3. row \in Sending!DeliveryRows
      BY <3>2
    <3>4. delivery' = [delivery EXCEPT ![d] = row] /\ worker' = [worker EXCEPT ![w] = None]
      BY <1>11, <3>1
         DEF OutboxInv, Sending!SentIsTrue, Sending!OutboxTypeOK,
             Sending!NoteDelivery
    <3> HIDE DEF row
    <3>5. delivery' \in [Deliveries -> Sending!DeliveryRows \cup {None}]
      BY <3>3, <3>4 DEF OutboxInv, Sending!SentIsTrue, Sending!OutboxTypeOK
    <3> QED
      BY <1>11, <3>4, <3>5
         DEF OutboxInv, Sending!SentIsTrue, Sending!OutboxTypeOK,
             Sending!NoteDelivery
  <2>2. Sending!SentIsTrue'
    <3>1. /\ delivery' \in [Deliveries -> Sending!DeliveryRows \cup {None}]
          /\ UNCHANGED <<message, got>>
      BY <1>11, <2>1 DEF Sending!OutboxTypeOK, Sending!NoteDelivery
    <3>2. ASSUME NEW c \in Deliveries, delivery'[c] # None
          PROVE  /\ got[c] <= Sending!CopiesOf(delivery'[c].attempts)
                 /\ delivery'[c].status = "delivered" => got[c] > 0
                 /\ delivery'[c].status = "failed" => delivery'[c].attempts = MaxAttempts
      <4>1. CASE c # worker[w].row
        <5>1. delivery'[c] = delivery[c]
          BY <1>11, <4>1
             DEF OutboxInv, Sending!SentIsTrue, Sending!OutboxTypeOK,
                 Sending!NoteDelivery
        <5> QED
          BY <3>2, <5>1 DEF OutboxInv, Sending!SentIsTrue
      <4>2. CASE c = worker[w].row
        <5>1. /\ delivery[c] \in Sending!DeliveryRows /\ got[c] \in Nat
              /\ worker[w].fine => got[c] > 0
          BY <1>11, <4>2
             DEF OutboxInv, Sending!SentIsTrue, Sending!OutboxTypeOK,
                 Sending!NoteDelivery, RowsAtWork, AtDelivery
        <5>2. got[c] <= Sending!CopiesOf(delivery[c].attempts)
          BY <5>1, <1>11, <4>2 DEF OutboxInv, Sending!SentIsTrue
        <5>3. /\ delivery'[c].attempts = delivery[c].attempts
              /\ delivery'[c].status = "delivered" => worker[w].fine
              /\ delivery'[c].status = "failed" => delivery[c].attempts >= MaxAttempts
          BY <1>11, <4>2, <5>1
             DEF OutboxInv, Sending!SentIsTrue, Sending!OutboxTypeOK,
                 Sending!NoteDelivery
        <5> QED
          BY <5>1, <5>2, <5>3
      <4> QED
        BY <4>1, <4>2
    <3> QED
      BY <2>1, <3>1, <3>2 DEF OutboxInv, Sending!SentIsTrue
  <2>3. WorkersApart'
    BY <1>11, <2>1
       DEF OutboxInv, Sending!SentIsTrue, Sending!OutboxTypeOK,
           WorkersApart, RowsAtWork, AtMessage,
           AtDelivery, Sending!NoteDelivery
  <2>4. RowsAtWork'
    BY <1>11, <2>1, <2>3
       DEF OutboxInv, Sending!SentIsTrue, Sending!OutboxTypeOK,
           WorkersApart, RowsAtWork, AttemptsLeft,
           AtMessage, AtDelivery, Sending!NoteDelivery
  <2>5. AttemptsLeft'
    BY <1>11, <2>1
       DEF OutboxInv, Sending!SentIsTrue, Sending!OutboxTypeOK,
           AttemptsLeft, RowsAtWork, AtDelivery,
           Sending!NoteDelivery
  <2> QED
    BY <2>2, <2>3, <2>4, <2>5 DEF OutboxInv
<1>12. ASSUME NEW w \in Workers, Sending!DieSending(w)
      PROVE  OutboxInv'
  <2>1. Sending!OutboxTypeOK'
    BY <1>12
       DEF OutboxInv, Sending!SentIsTrue, Sending!OutboxTypeOK,
           Sending!DieSending
  <2>2. Sending!SentIsTrue'
    BY <1>12, <2>1
       DEF OutboxInv, Sending!SentIsTrue, Sending!OutboxTypeOK,
           WorkersApart, RowsAtWork, AttemptsLeft,
           AtMessage, AtDelivery, Sending!DieSending
  <2>3. WorkersApart'
    BY <1>12, <2>1
       DEF OutboxInv, Sending!SentIsTrue, Sending!OutboxTypeOK,
           WorkersApart, RowsAtWork, AtMessage,
           AtDelivery, Sending!DieSending
  <2>4. RowsAtWork'
    BY <1>12, <2>1, <2>3
       DEF OutboxInv, Sending!SentIsTrue, Sending!OutboxTypeOK,
           WorkersApart, RowsAtWork, AttemptsLeft,
           AtMessage, AtDelivery, Sending!DieSending
  <2>5. AttemptsLeft'
    BY <1>12, <2>1
       DEF OutboxInv, Sending!SentIsTrue, Sending!OutboxTypeOK,
           AttemptsLeft, RowsAtWork, AtDelivery,
           Sending!DieSending
  <2> QED
    BY <2>2, <2>3, <2>4, <2>5 DEF OutboxInv
<1>20. CASE UNCHANGED outboxVars
  BY <1>20 DEF outboxVars, OutboxInv, Sending!SentIsTrue, Sending!OutboxTypeOK,
       WorkersApart, RowsAtWork, AttemptsLeft, AtMessage, AtDelivery
<1> QED
  BY <1>1, <1>2, <1>3, <1>4, <1>5, <1>6, <1>7, <1>8, <1>9, <1>10, <1>11, <1>12, <1>20
     DEF Sending!OutboxNext

-----------------------------------------------------------------------------
(* Reminders.  An edit under way has read the mark of what was mailed, or    *)
(* its overlap with a batch is noted.                                       *)

LEMMA RemindersInitially == Sending!RemindersInit => RemindersInv
BY RemindersAssumption
   DEF Sending!RemindersInit, RemindersInv, Sending!RemindersTypeOK,
       ReminderTables, HeldUnsent, Accounted, Sending!Held,
       Sending!RemindersConstants

LEMMA RemindersStepKeeps ==
  RemindersInv /\ [Sending!RemindersNext]_reminderVars => RemindersInv'
<1> SUFFICES ASSUME RemindersInv, [Sending!RemindersNext]_reminderVars
             PROVE  RemindersInv'
  OBVIOUS
<1> USE RemindersAssumption
    DEF Sending!RemindersConstants, Sending!ReminderRows, Sending!BatchRows, Sending!EditRows
<1>1. ASSUME NEW n \in Notices, Sending!AddReminder(n)
      PROVE  RemindersInv'
  <2>1. ReminderTables'
    BY <1>1
       DEF RemindersInv, ReminderTables, Sending!AddReminder,
           Sending!RemindersTypeOK
  <2>2. Sending!RemindersTypeOK'
    BY <1>1, <2>1
       DEF RemindersInv, ReminderTables, Sending!RemindersTypeOK,
           Sending!Held, Sending!AddReminder
  <2>3. ASSUME NEW x \in Notices
        PROVE  HeldUnsent(x)'
    BY <1>1, <2>1
       DEF RemindersInv, ReminderTables, Sending!RemindersTypeOK,
           HeldUnsent, Sending!Held, Sending!AddReminder
  <2>4. ASSUME NEW x \in Notices, x \notin excused'
        PROVE  Accounted(x)'
    <3>1. x \notin excused
      BY <1>1, <2>4 DEF Sending!AddReminder
    <3>2. Accounted(x) /\ HeldUnsent(x) /\ mails[x] \in Nat
      BY <3>1 DEF RemindersInv, ReminderTables
    <3>3. mails'[x] <= 1
      BY <1>1, <3>2
         DEF RemindersInv, ReminderTables, Accounted,
             Sending!Held, Sending!AddReminder
    <3>4. ASSUME NEW f \in Editors, editors'[f] # None, editors'[f].reminder = x
          PROVE  ~Sending!Held(x)' /\ (mails'[x] = 1 => editors'[f].row.sent)
      BY <1>1, <2>4, <3>1, <3>2, <3>4
         DEF RemindersInv, ReminderTables, Accounted,
             Sending!Held, Sending!AddReminder
    <3>5. ASSUME NEW v \in Workers, batches'[v] # None,
                 x \in batches'[v].held \ batches'[v].mailed
          PROVE  mails'[x] = 0
      BY <1>1, <2>4, <3>1, <3>2, <3>5
         DEF RemindersInv, ReminderTables, Sending!RemindersTypeOK,
             Accounted, Sending!Held, Sending!AddReminder
    <3>6. ASSUME mails'[x] = 1, ~Sending!Held(x)'
          PROVE  reminders'[x] = None \/ reminders'[x].sent
      BY <1>1, <2>4, <3>1, <3>2, <3>6
         DEF RemindersInv, ReminderTables, Accounted,
             HeldUnsent, Sending!Held, Sending!AddReminder
    <3> QED
      BY <3>3, <3>4, <3>5, <3>6 DEF Accounted
  <2> QED
    BY <2>1, <2>2, <2>3, <2>4 DEF RemindersInv
<1>2. ASSUME NEW n \in Notices, Sending!FallDue(n)
      PROVE  RemindersInv'
  <2>1. ReminderTables'
    <3>1. reminders[n] \in Sending!ReminderRows
      BY <1>2 DEF RemindersInv, ReminderTables, Sending!FallDue
    <3>2. [reminders[n] EXCEPT !.due = TRUE] \in Sending!ReminderRows
      BY <3>1
    <3>3. reminders' = [reminders EXCEPT ![n] = [reminders[n] EXCEPT !.due = TRUE]]
      BY <1>2 DEF Sending!FallDue
    <3>4. reminders' \in [Notices -> Sending!ReminderRows \cup {None}]
      BY <3>2, <3>3 DEF RemindersInv, ReminderTables
    <3> QED
      BY <1>2, <3>4 DEF RemindersInv, ReminderTables, Sending!FallDue
  <2>2. Sending!RemindersTypeOK'
    BY <1>2, <2>1
       DEF RemindersInv, ReminderTables, Sending!RemindersTypeOK,
           Sending!Held, Sending!FallDue
  <2>3. ASSUME NEW x \in Notices
        PROVE  HeldUnsent(x)'
    BY <1>2, <2>1
       DEF RemindersInv, ReminderTables, Sending!RemindersTypeOK,
           HeldUnsent, Sending!Held, Sending!FallDue
  <2>4. ASSUME NEW x \in Notices, x \notin excused'
        PROVE  Accounted(x)'
    <3>1. x \notin excused
      BY <1>2, <2>4 DEF Sending!FallDue
    <3>2. Accounted(x) /\ HeldUnsent(x) /\ mails[x] \in Nat
      BY <3>1 DEF RemindersInv, ReminderTables
    <3>3. mails'[x] <= 1
      BY <1>2, <3>2
         DEF RemindersInv, ReminderTables, Accounted,
             Sending!Held, Sending!FallDue
    <3>4. ASSUME NEW f \in Editors, editors'[f] # None, editors'[f].reminder = x
          PROVE  ~Sending!Held(x)' /\ (mails'[x] = 1 => editors'[f].row.sent)
      BY <1>2, <2>4, <3>1, <3>2, <3>4
         DEF RemindersInv, ReminderTables, Accounted,
             Sending!Held, Sending!FallDue
    <3>5. ASSUME NEW v \in Workers, batches'[v] # None,
                 x \in batches'[v].held \ batches'[v].mailed
          PROVE  mails'[x] = 0
      BY <1>2, <2>4, <3>1, <3>2, <3>5
         DEF RemindersInv, ReminderTables, Sending!RemindersTypeOK,
             Accounted, Sending!Held, Sending!FallDue
    <3>6. ASSUME mails'[x] = 1, ~Sending!Held(x)'
          PROVE  reminders'[x] = None \/ reminders'[x].sent
      BY <1>2, <2>4, <3>1, <3>2, <3>6
         DEF RemindersInv, ReminderTables, Accounted,
             HeldUnsent, Sending!Held, Sending!FallDue
    <3> QED
      BY <3>3, <3>4, <3>5, <3>6 DEF Accounted
  <2> QED
    BY <2>1, <2>2, <2>3, <2>4 DEF RemindersInv
<1>3. ASSUME NEW n \in Notices, Sending!DeleteReminder(n)
      PROVE  RemindersInv'
  <2>1. ReminderTables'
    BY <1>3
       DEF RemindersInv, ReminderTables, Sending!DeleteReminder,
           Sending!RemindersTypeOK
  <2>2. Sending!RemindersTypeOK'
    BY <1>3, <2>1
       DEF RemindersInv, ReminderTables, Sending!RemindersTypeOK,
           Sending!Held, Sending!DeleteReminder
  <2>3. ASSUME NEW x \in Notices
        PROVE  HeldUnsent(x)'
    BY <1>3, <2>1
       DEF RemindersInv, ReminderTables, Sending!RemindersTypeOK,
           HeldUnsent, Sending!Held, Sending!DeleteReminder
  <2>4. ASSUME NEW x \in Notices, x \notin excused'
        PROVE  Accounted(x)'
    <3>1. x \notin excused
      BY <1>3, <2>4 DEF Sending!DeleteReminder
    <3>2. Accounted(x) /\ HeldUnsent(x) /\ mails[x] \in Nat
      BY <3>1 DEF RemindersInv, ReminderTables
    <3>3. mails'[x] <= 1
      BY <1>3, <3>2
         DEF RemindersInv, ReminderTables, Accounted,
             Sending!Held, Sending!DeleteReminder
    <3>4. ASSUME NEW f \in Editors, editors'[f] # None, editors'[f].reminder = x
          PROVE  ~Sending!Held(x)' /\ (mails'[x] = 1 => editors'[f].row.sent)
      BY <1>3, <2>4, <3>1, <3>2, <3>4
         DEF RemindersInv, ReminderTables, Accounted,
             Sending!Held, Sending!DeleteReminder
    <3>5. ASSUME NEW v \in Workers, batches'[v] # None,
                 x \in batches'[v].held \ batches'[v].mailed
          PROVE  mails'[x] = 0
      BY <1>3, <2>4, <3>1, <3>2, <3>5
         DEF RemindersInv, ReminderTables, Sending!RemindersTypeOK,
             Accounted, Sending!Held, Sending!DeleteReminder
    <3>6. ASSUME mails'[x] = 1, ~Sending!Held(x)'
          PROVE  reminders'[x] = None \/ reminders'[x].sent
      BY <1>3, <2>4, <3>1, <3>2, <3>6
         DEF RemindersInv, ReminderTables, Accounted,
             HeldUnsent, Sending!Held, Sending!DeleteReminder
    <3> QED
      BY <3>3, <3>4, <3>5, <3>6 DEF Accounted
  <2> QED
    BY <2>1, <2>2, <2>3, <2>4 DEF RemindersInv
<1>4. ASSUME NEW e \in Editors, NEW n \in Notices, Sending!StartEdit(e, n)
      PROVE  RemindersInv'
  <2>1. ReminderTables'
    BY <1>4
       DEF RemindersInv, ReminderTables, Sending!StartEdit,
           Sending!RemindersTypeOK
  <2>2. Sending!RemindersTypeOK'
    BY <1>4, <2>1
       DEF RemindersInv, ReminderTables, Sending!RemindersTypeOK,
           Sending!Held, Sending!StartEdit
  <2>3. ASSUME NEW x \in Notices
        PROVE  HeldUnsent(x)'
    BY <1>4, <2>1
       DEF RemindersInv, ReminderTables, Sending!RemindersTypeOK,
           HeldUnsent, Sending!Held, Sending!StartEdit
  <2>4. ASSUME NEW x \in Notices, x \notin excused'
        PROVE  Accounted(x)'
    <3>1. x \notin excused
      BY <1>4, <2>4 DEF Sending!StartEdit
    <3>2. Accounted(x) /\ HeldUnsent(x) /\ mails[x] \in Nat
      BY <3>1 DEF RemindersInv, ReminderTables
    <3>3. mails'[x] <= 1
      BY <1>4, <3>2
         DEF RemindersInv, ReminderTables, Accounted,
             Sending!Held, Sending!StartEdit
    <3>4. ASSUME NEW f \in Editors, editors'[f] # None, editors'[f].reminder = x
          PROVE  ~Sending!Held(x)' /\ (mails'[x] = 1 => editors'[f].row.sent)
      BY <1>4, <2>4, <3>1, <3>2, <3>4
         DEF RemindersInv, ReminderTables, Accounted,
             Sending!Held, Sending!StartEdit
    <3>5. ASSUME NEW v \in Workers, batches'[v] # None,
                 x \in batches'[v].held \ batches'[v].mailed
          PROVE  mails'[x] = 0
      BY <1>4, <2>4, <3>1, <3>2, <3>5
         DEF RemindersInv, ReminderTables, Sending!RemindersTypeOK,
             Accounted, Sending!Held, Sending!StartEdit
    <3>6. ASSUME mails'[x] = 1, ~Sending!Held(x)'
          PROVE  reminders'[x] = None \/ reminders'[x].sent
      BY <1>4, <2>4, <3>1, <3>2, <3>6
         DEF RemindersInv, ReminderTables, Accounted,
             HeldUnsent, Sending!Held, Sending!StartEdit
    <3> QED
      BY <3>3, <3>4, <3>5, <3>6 DEF Accounted
  <2> QED
    BY <2>1, <2>2, <2>3, <2>4 DEF RemindersInv
<1>5. ASSUME NEW e \in Editors, Sending!SaveEdit(e)
      PROVE  RemindersInv'
  <2>1. ReminderTables'
    BY <1>5
       DEF RemindersInv, ReminderTables, Sending!SaveEdit,
           Sending!RemindersTypeOK
  <2>2. Sending!RemindersTypeOK'
    BY <1>5, <2>1
       DEF RemindersInv, ReminderTables, Sending!RemindersTypeOK,
           Sending!Held, Sending!SaveEdit
  <2>3. ASSUME NEW x \in Notices
        PROVE  HeldUnsent(x)'
    BY <1>5, <2>1
       DEF RemindersInv, ReminderTables, Sending!RemindersTypeOK,
           HeldUnsent, Sending!Held, Sending!SaveEdit
  <2>4. ASSUME NEW x \in Notices, x \notin excused'
        PROVE  Accounted(x)'
    <3>1. x \notin excused
      BY <1>5, <2>4 DEF Sending!SaveEdit
    <3>2. Accounted(x) /\ HeldUnsent(x) /\ mails[x] \in Nat
      BY <3>1 DEF RemindersInv, ReminderTables
    <3>3. mails'[x] <= 1
      BY <1>5, <3>2
         DEF RemindersInv, ReminderTables, Accounted,
             Sending!Held, Sending!SaveEdit
    <3>4. ASSUME NEW f \in Editors, editors'[f] # None, editors'[f].reminder = x
          PROVE  ~Sending!Held(x)' /\ (mails'[x] = 1 => editors'[f].row.sent)
      BY <1>5, <2>4, <3>1, <3>2, <3>4
         DEF RemindersInv, ReminderTables, Accounted,
             Sending!Held, Sending!SaveEdit
    <3>5. ASSUME NEW v \in Workers, batches'[v] # None,
                 x \in batches'[v].held \ batches'[v].mailed
          PROVE  mails'[x] = 0
      BY <1>5, <2>4, <3>1, <3>2, <3>5
         DEF RemindersInv, ReminderTables, Sending!RemindersTypeOK,
             Accounted, Sending!Held, Sending!SaveEdit
    <3>6. ASSUME mails'[x] = 1, ~Sending!Held(x)'
          PROVE  reminders'[x] = None \/ reminders'[x].sent
      BY <1>5, <2>4, <3>1, <3>2, <3>6
         DEF RemindersInv, ReminderTables, Accounted,
             HeldUnsent, Sending!Held, Sending!SaveEdit
    <3> QED
      BY <3>3, <3>4, <3>5, <3>6 DEF Accounted
  <2> QED
    BY <2>1, <2>2, <2>3, <2>4 DEF RemindersInv
<1>6. ASSUME NEW w \in Workers, Sending!TakeBatch(w)
      PROVE  RemindersInv'
  <2>1. ReminderTables'
    BY <1>6
       DEF RemindersInv, ReminderTables, Sending!TakeBatch,
           Sending!Waiting, Sending!Pending, Sending!RemindersTypeOK
  <2>2. Sending!RemindersTypeOK'
    BY <1>6, <2>1
       DEF RemindersInv, ReminderTables, Sending!RemindersTypeOK,
           Sending!Held, Sending!TakeBatch, Sending!Waiting, Sending!Pending
  <2>3. ASSUME NEW x \in Notices
        PROVE  HeldUnsent(x)'
    BY <1>6, <2>1
       DEF RemindersInv, ReminderTables, Sending!RemindersTypeOK,
           HeldUnsent, Sending!Held, Sending!TakeBatch, Sending!Waiting,
           Sending!Pending
  <2>4. ASSUME NEW x \in Notices, x \notin excused'
        PROVE  Accounted(x)'
    <3>1. x \notin excused
      BY <1>6, <2>4 DEF Sending!TakeBatch, Sending!Waiting, Sending!Pending
    <3>2. Accounted(x) /\ HeldUnsent(x) /\ mails[x] \in Nat
      BY <3>1 DEF RemindersInv, ReminderTables
    <3>3. mails'[x] <= 1
      BY <1>6, <3>2
         DEF RemindersInv, ReminderTables, Accounted,
             Sending!Held, Sending!TakeBatch, Sending!Waiting, Sending!Pending
    <3>4. ASSUME NEW f \in Editors, editors'[f] # None, editors'[f].reminder = x
          PROVE  ~Sending!Held(x)' /\ (mails'[x] = 1 => editors'[f].row.sent)
      BY <1>6, <2>4, <3>1, <3>2, <3>4
         DEF RemindersInv, ReminderTables, Accounted,
             Sending!Held, Sending!TakeBatch, Sending!Waiting, Sending!Pending
    <3>5. ASSUME NEW v \in Workers, batches'[v] # None,
                 x \in batches'[v].held \ batches'[v].mailed
          PROVE  mails'[x] = 0
      <4>1. CASE v # w
        BY <1>6, <3>2, <3>5, <4>1
           DEF RemindersInv, ReminderTables, Accounted,
               Sending!TakeBatch
      <4>2. CASE v = w
        <5>1. PICK batch \in SUBSET Sending!Waiting :
                batches' = [batches EXCEPT ![w] = [held |-> batch, mailed |-> {}]]
          BY <1>6 DEF Sending!TakeBatch
        <5>2. x \in Sending!Waiting
          BY <3>5, <4>2, <5>1 DEF RemindersInv, ReminderTables
        <5> QED
          BY <1>6, <3>2, <5>2
             DEF Sending!Waiting, Sending!Pending, Accounted, Sending!TakeBatch
      <4> QED
        BY <4>1, <4>2
    <3>6. ASSUME mails'[x] = 1, ~Sending!Held(x)'
          PROVE  reminders'[x] = None \/ reminders'[x].sent
      BY <1>6, <2>4, <3>1, <3>2, <3>6
         DEF RemindersInv, ReminderTables, Accounted,
             HeldUnsent, Sending!Held, Sending!TakeBatch, Sending!Waiting,
             Sending!Pending
    <3> QED
      BY <3>3, <3>4, <3>5, <3>6 DEF Accounted
  <2> QED
    BY <2>1, <2>2, <2>3, <2>4 DEF RemindersInv
<1>7. ASSUME NEW w \in Workers, Sending!Mail(w)
      PROVE  RemindersInv'
  <2>1. ReminderTables'
    BY <1>7
       DEF RemindersInv, ReminderTables, Sending!Mail,
           Sending!RemindersTypeOK
  <2>2. Sending!RemindersTypeOK'
    BY <1>7, <2>1
       DEF RemindersInv, ReminderTables, Sending!RemindersTypeOK,
           Sending!Held, Sending!Mail
  <2>3. ASSUME NEW x \in Notices
        PROVE  HeldUnsent(x)'
    BY <1>7, <2>1
       DEF RemindersInv, ReminderTables, Sending!RemindersTypeOK,
           HeldUnsent, Sending!Held, Sending!Mail
  <2>4. ASSUME NEW x \in Notices, x \notin excused'
        PROVE  Accounted(x)'
    <3>1. x \notin excused
      BY <1>7, <2>4 DEF Sending!Mail
    <3>2. Accounted(x) /\ HeldUnsent(x) /\ mails[x] \in Nat
      BY <3>1 DEF RemindersInv, ReminderTables
    <3>3. mails'[x] <= 1
      BY <1>7, <3>2
         DEF RemindersInv, ReminderTables, Accounted,
             Sending!Held, Sending!Mail
    <3>4. ASSUME NEW f \in Editors, editors'[f] # None, editors'[f].reminder = x
          PROVE  ~Sending!Held(x)' /\ (mails'[x] = 1 => editors'[f].row.sent)
      BY <1>7, <2>4, <3>1, <3>2, <3>4
         DEF RemindersInv, ReminderTables, Accounted,
             Sending!Held, Sending!Mail
    <3>5. ASSUME NEW v \in Workers, batches'[v] # None,
                 x \in batches'[v].held \ batches'[v].mailed
          PROVE  mails'[x] = 0
      BY <1>7, <2>4, <3>1, <3>2, <3>5
         DEF RemindersInv, ReminderTables, Sending!RemindersTypeOK,
             Accounted, Sending!Held, Sending!Mail
    <3>6. ASSUME mails'[x] = 1, ~Sending!Held(x)'
          PROVE  reminders'[x] = None \/ reminders'[x].sent
      BY <1>7, <2>4, <3>1, <3>2, <3>6
         DEF RemindersInv, ReminderTables, Accounted,
             HeldUnsent, Sending!Held, Sending!Mail
    <3> QED
      BY <3>3, <3>4, <3>5, <3>6 DEF Accounted
  <2> QED
    BY <2>1, <2>2, <2>3, <2>4 DEF RemindersInv
<1>8. ASSUME NEW w \in Workers, Sending!Commit(w)
      PROVE  RemindersInv'
  <2>1. ReminderTables'
    <3>1. ASSUME NEW n \in Notices
          PROVE  reminders'[n] \in Sending!ReminderRows \cup {None}
      <4>1. CASE n \in batches[w].held
        <5>1. reminders[n] \in Sending!ReminderRows
          BY <1>8, <4>1
             DEF RemindersInv, ReminderTables, HeldUnsent,
                 Sending!Held, Sending!Commit
        <5>2. [reminders[n] EXCEPT !.sent = TRUE] \in Sending!ReminderRows
          BY <5>1
        <5> QED
          BY <1>8, <4>1, <5>2 DEF Sending!Commit
      <4>2. CASE n \notin batches[w].held
        BY <1>8, <4>2 DEF RemindersInv, ReminderTables, Sending!Commit
      <4> QED
        BY <4>1, <4>2
    <3>2. reminders' \in [Notices -> Sending!ReminderRows \cup {None}]
      BY <1>8, <3>1 DEF Sending!Commit
    <3> QED
      BY <1>8, <3>2 DEF RemindersInv, ReminderTables, Sending!Commit
  <2>2. Sending!RemindersTypeOK'
    BY <1>8, <2>1
       DEF RemindersInv, ReminderTables, Sending!RemindersTypeOK,
           Sending!Held, Sending!Commit
  <2>3. ASSUME NEW x \in Notices
        PROVE  HeldUnsent(x)'
    BY <1>8, <2>1
       DEF RemindersInv, ReminderTables, Sending!RemindersTypeOK,
           HeldUnsent, Sending!Held, Sending!Commit
  <2>4. ASSUME NEW x \in Notices, x \notin excused'
        PROVE  Accounted(x)'
    <3>1. x \notin excused
      BY <1>8, <2>4 DEF Sending!Commit
    <3>2. Accounted(x) /\ HeldUnsent(x) /\ mails[x] \in Nat
      BY <3>1 DEF RemindersInv, ReminderTables
    <3>3. mails'[x] <= 1
      BY <1>8, <3>2
         DEF RemindersInv, ReminderTables, Accounted,
             Sending!Held, Sending!Commit
    <3>4. ASSUME NEW f \in Editors, editors'[f] # None, editors'[f].reminder = x
          PROVE  ~Sending!Held(x)' /\ (mails'[x] = 1 => editors'[f].row.sent)
      BY <1>8, <2>4, <3>1, <3>2, <3>4
         DEF RemindersInv, ReminderTables, Accounted,
             Sending!Held, Sending!Commit
    <3>5. ASSUME NEW v \in Workers, batches'[v] # None,
                 x \in batches'[v].held \ batches'[v].mailed
          PROVE  mails'[x] = 0
      BY <1>8, <2>4, <3>1, <3>2, <3>5
         DEF RemindersInv, ReminderTables, Sending!RemindersTypeOK,
             Accounted, Sending!Held, Sending!Commit
    <3>6. ASSUME mails'[x] = 1, ~Sending!Held(x)'
          PROVE  reminders'[x] = None \/ reminders'[x].sent
      BY <1>8, <2>4, <3>1, <3>2, <3>6
         DEF RemindersInv, ReminderTables, Accounted,
             HeldUnsent, Sending!Held, Sending!Commit
    <3> QED
      BY <3>3, <3>4, <3>5, <3>6 DEF Accounted
  <2> QED
    BY <2>1, <2>2, <2>3, <2>4 DEF RemindersInv
<1>9. ASSUME NEW w \in Workers, Sending!Crash(w)
      PROVE  RemindersInv'
  <2>1. ReminderTables'
    BY <1>9
       DEF RemindersInv, ReminderTables, Sending!Crash,
           Sending!RemindersTypeOK
  <2>2. Sending!RemindersTypeOK'
    BY <1>9, <2>1
       DEF RemindersInv, ReminderTables, Sending!RemindersTypeOK,
           Sending!Held, Sending!Crash
  <2>3. ASSUME NEW x \in Notices
        PROVE  HeldUnsent(x)'
    BY <1>9, <2>1
       DEF RemindersInv, ReminderTables, Sending!RemindersTypeOK,
           HeldUnsent, Sending!Held, Sending!Crash
  <2>4. ASSUME NEW x \in Notices, x \notin excused'
        PROVE  Accounted(x)'
    <3>1. x \notin excused
      BY <1>9, <2>4 DEF Sending!Crash
    <3>2. Accounted(x) /\ HeldUnsent(x) /\ mails[x] \in Nat
      BY <3>1 DEF RemindersInv, ReminderTables
    <3>3. mails'[x] <= 1
      BY <1>9, <3>2
         DEF RemindersInv, ReminderTables, Accounted,
             Sending!Held, Sending!Crash
    <3>4. ASSUME NEW f \in Editors, editors'[f] # None, editors'[f].reminder = x
          PROVE  ~Sending!Held(x)' /\ (mails'[x] = 1 => editors'[f].row.sent)
      BY <1>9, <2>4, <3>1, <3>2, <3>4
         DEF RemindersInv, ReminderTables, Accounted,
             Sending!Held, Sending!Crash
    <3>5. ASSUME NEW v \in Workers, batches'[v] # None,
                 x \in batches'[v].held \ batches'[v].mailed
          PROVE  mails'[x] = 0
      BY <1>9, <2>4, <3>1, <3>2, <3>5
         DEF RemindersInv, ReminderTables, Sending!RemindersTypeOK,
             Accounted, Sending!Held, Sending!Crash
    <3>6. ASSUME mails'[x] = 1, ~Sending!Held(x)'
          PROVE  reminders'[x] = None \/ reminders'[x].sent
      BY <1>9, <2>4, <3>1, <3>2, <3>6
         DEF RemindersInv, ReminderTables, Accounted,
             HeldUnsent, Sending!Held, Sending!Crash
    <3> QED
      BY <3>3, <3>4, <3>5, <3>6 DEF Accounted
  <2> QED
    BY <2>1, <2>2, <2>3, <2>4 DEF RemindersInv
<1>10. ASSUME Sending!SwitchCompany
      PROVE  RemindersInv'
  <2>1. ReminderTables'
    BY <1>10
       DEF RemindersInv, ReminderTables, Sending!SwitchCompany,
           Sending!RemindersTypeOK
  <2>2. Sending!RemindersTypeOK'
    BY <1>10, <2>1
       DEF RemindersInv, ReminderTables, Sending!RemindersTypeOK,
           Sending!Held, Sending!SwitchCompany
  <2>3. ASSUME NEW x \in Notices
        PROVE  HeldUnsent(x)'
    BY <1>10, <2>1
       DEF RemindersInv, ReminderTables, Sending!RemindersTypeOK,
           HeldUnsent, Sending!Held, Sending!SwitchCompany
  <2>4. ASSUME NEW x \in Notices, x \notin excused'
        PROVE  Accounted(x)'
    <3>1. x \notin excused
      BY <1>10, <2>4 DEF Sending!SwitchCompany
    <3>2. Accounted(x) /\ HeldUnsent(x) /\ mails[x] \in Nat
      BY <3>1 DEF RemindersInv, ReminderTables
    <3>3. mails'[x] <= 1
      BY <1>10, <3>2
         DEF RemindersInv, ReminderTables, Accounted,
             Sending!Held, Sending!SwitchCompany
    <3>4. ASSUME NEW f \in Editors, editors'[f] # None, editors'[f].reminder = x
          PROVE  ~Sending!Held(x)' /\ (mails'[x] = 1 => editors'[f].row.sent)
      BY <1>10, <2>4, <3>1, <3>2, <3>4
         DEF RemindersInv, ReminderTables, Accounted,
             Sending!Held, Sending!SwitchCompany
    <3>5. ASSUME NEW v \in Workers, batches'[v] # None,
                 x \in batches'[v].held \ batches'[v].mailed
          PROVE  mails'[x] = 0
      BY <1>10, <2>4, <3>1, <3>2, <3>5
         DEF RemindersInv, ReminderTables, Sending!RemindersTypeOK,
             Accounted, Sending!Held, Sending!SwitchCompany
    <3>6. ASSUME mails'[x] = 1, ~Sending!Held(x)'
          PROVE  reminders'[x] = None \/ reminders'[x].sent
      BY <1>10, <2>4, <3>1, <3>2, <3>6
         DEF RemindersInv, ReminderTables, Accounted,
             HeldUnsent, Sending!Held, Sending!SwitchCompany
    <3> QED
      BY <3>3, <3>4, <3>5, <3>6 DEF Accounted
  <2> QED
    BY <2>1, <2>2, <2>3, <2>4 DEF RemindersInv
<1>20. CASE UNCHANGED reminderVars
  BY <1>20
     DEF reminderVars, RemindersInv, Sending!RemindersTypeOK,
         ReminderTables,
       HeldUnsent, Accounted, Sending!Held
<1> QED
  BY <1>1, <1>2, <1>3, <1>4, <1>5, <1>6, <1>7, <1>8, <1>9, <1>10, <1>20
     DEF Sending!RemindersNext

-----------------------------------------------------------------------------
(* The subscription.  The company's status follows in a second statement, so *)
(* that the invariant says what holds between the two.                      *)

(* What the proofs about Subscriptions need beside its properties.          *)

SubscriptionTables ==
  /\ sub \in Paying!SubRows \cup {None} /\ provider \in Seq(Seq(Events)) /\ last \in Nat
  /\ writers \in [Writers -> Paying!WriterRows \cup {None}]
  /\ torn \in BOOLEAN /\ written \in BOOLEAN

(* The row says what the event applied last said. *)
SaysLast == last > 0 /\ ~written => sub.status = Paying!StatusOf(provider[sub.id][last])

Match(status, t) ==
  /\ status = "active" => t = "active"
  /\ status = "past_due" => t = "suspended"
  /\ status = "cancelled" => t \in {"cancelled", "suspended"}

(* A writer sets two statuses that agree, of a company that has a            *)
(* subscription; while nothing else was written, the row and the company     *)
(* agree before its first statement, and the row is as it wants it before    *)
(* the second.                                                               *)
WritersMatch ==
  \A w \in Writers : writers[w] # None =>
    Paying!Subscribed /\ Match(writers[w].status, writers[w].tenant)

OneWriter ==
  ~torn => \A w, v \in Writers : writers[w] # None /\ writers[v] # None => w = v

HalfWritten ==
  \A w \in Writers : ~torn /\ writers[w] # None =>
    IF writers[w].step = 1 THEN Match(sub.status, tenant)
                           ELSE sub.status = writers[w].status

SubscriptionsInv ==
  /\ Paying!StatusFollowsProvider /\ SubscriptionTables
  /\ SaysLast /\ WritersMatch /\ OneWriter /\ HalfWritten

LEMMA SubscriptionsInitially == Paying!SubscriptionsInit => SubscriptionsInv
<1> SUFFICES ASSUME Paying!SubscriptionsInit
             PROVE  SubscriptionsInv
  OBVIOUS
<1> USE SubscriptionsAssumption DEF Paying!SubscriptionsInit
<1>0. /\ Paying!Bought \in Paying!SubRows /\ Paying!Bought # None
      /\ Paying!Bought.id = 0 /\ Paying!Bought.status = "active"
      /\ Paying!Bought \in [id : 0..0, status : Paying!Statuses, over : BOOLEAN]
  <2>1. /\ Paying!Bought \in Paying!SubRows
        /\ Paying!Bought \in [id : 0..0, status : Paying!Statuses, over : BOOLEAN]
        /\ Paying!Bought.id = 0 /\ Paying!Bought.status = "active"
    BY DEF Paying!Bought, Paying!SubRows, Paying!Statuses
  <2> QED
    BY <2>1 DEF Paying!SubscriptionsConstants
<1>1. SubscriptionTables
  <2>1. provider \in Seq(Seq(Events))
    OBVIOUS
  <2>2. sub \in Paying!SubRows \cup {None}
    BY <1>0
  <2> QED
    BY <2>1, <2>2 DEF SubscriptionTables
<1>2. \A w \in Writers : writers[w] = None
  OBVIOUS
<1>3. Paying!SubscriptionsTypeOK
  <2>1. Len(provider) = 0
    OBVIOUS
  <2>2. Paying!Subscribed =>
          sub \in [id : 0..Len(provider), status : Paying!Statuses, over : BOOLEAN]
    BY <1>0, <2>1 DEF Paying!Subscribed
  <2> QED
    BY <2>2 DEF Paying!SubscriptionsTypeOK, Paying!TenantStatuses
<1>4. Paying!FollowsProvider /\ SaysLast
  BY DEF Paying!FollowsProvider, SaysLast
<1>5. Paying!StatusesAgree
  BY <1>0 DEF Paying!StatusesAgree, Paying!Subscribed
<1> QED
BY <1>1, <1>2, <1>3, <1>4, <1>5
   DEF SubscriptionsInv, Paying!StatusFollowsProvider, WritersMatch, OneWriter, HalfWritten

LEMMA SubscriptionsStepKeeps ==
  SubscriptionsInv /\ [Paying!SubscriptionsNext]_subscriptionVars =>
    SubscriptionsInv'
<1> SUFFICES ASSUME SubscriptionsInv, [Paying!SubscriptionsNext]_subscriptionVars
             PROVE  SubscriptionsInv'
  OBVIOUS
<1> USE SubscriptionsAssumption
    DEF Paying!SubscriptionsConstants, Paying!SubRows, Paying!WriterRows, Paying!Subscribed,
        Paying!Writing
<1>1. ASSUME Paying!Subscribe
      PROVE  SubscriptionsInv'
  <2>1. SubscriptionTables'
    BY <1>1
       DEF SubscriptionsInv, Paying!StatusFollowsProvider,
           Paying!SubscriptionsTypeOK, SubscriptionTables, Paying!Statuses,
           Paying!TenantStatuses, Paying!Subscribe
  <2>2. Paying!SubscriptionsTypeOK'
    BY <1>1, <2>1
       DEF SubscriptionsInv, Paying!StatusFollowsProvider,
           Paying!SubscriptionsTypeOK, SubscriptionTables, Paying!TenantStatuses,
           Paying!Subscribe
  <2>3. SaysLast'
    BY <1>1, <2>1
       DEF SubscriptionsInv, Paying!StatusFollowsProvider,
           Paying!SubscriptionsTypeOK, SubscriptionTables, SaysLast,
           Paying!Subscribe
  <2>4. Paying!FollowsProvider'
    BY <2>1, <2>2, <2>3 DEF Paying!FollowsProvider, SaysLast
  <2>5. Paying!StatusesAgree'
    BY <1>1, <2>1
       DEF SubscriptionsInv, Paying!StatusFollowsProvider,
           Paying!SubscriptionsTypeOK, SubscriptionTables, Paying!StatusesAgree,
           WritersMatch, OneWriter, HalfWritten, Match,
           Paying!Subscribe
  <2>6. WritersMatch'
    BY <1>1
       DEF SubscriptionsInv, Paying!StatusFollowsProvider,
           Paying!SubscriptionsTypeOK, SubscriptionTables, WritersMatch,
           Match, Paying!Subscribe
  <2>7. OneWriter'
    BY <1>1
       DEF SubscriptionsInv, Paying!StatusFollowsProvider,
           Paying!SubscriptionsTypeOK, SubscriptionTables, OneWriter,
           Paying!Subscribe
  <2>8. HalfWritten'
    BY <1>1, <2>1
       DEF SubscriptionsInv, Paying!StatusFollowsProvider,
           Paying!SubscriptionsTypeOK, SubscriptionTables, Paying!StatusesAgree,
           OneWriter, HalfWritten, WritersMatch, Match,
           Paying!Subscribe
  <2> QED
    BY <2>1, <2>2, <2>3, <2>4, <2>5, <2>6, <2>7, <2>8
       DEF SubscriptionsInv, Paying!StatusFollowsProvider
<1>2. ASSUME Paying!StoreSubscription
      PROVE  SubscriptionsInv'
  <2>9. sub' \in Paying!SubRows
    <3>1. Len(provider) \in Nat
      BY DEF SubscriptionsInv, SubscriptionTables
    <3>2. sub' = [id |-> Len(provider), status |-> "created", over |-> sub # None /\ sub.over]
      BY <1>2 DEF Paying!StoreSubscription
    <3>3. (sub # None /\ sub.over) \in BOOLEAN
      BY DEF SubscriptionsInv, SubscriptionTables
    <3> QED
      BY <3>1, <3>2, <3>3 DEF Paying!Statuses
  <2>1. SubscriptionTables'
    BY <1>2, <2>9
       DEF SubscriptionsInv, SubscriptionTables, Paying!StoreSubscription
  <2>2. Paying!SubscriptionsTypeOK'
    BY <1>2, <2>1
       DEF SubscriptionsInv, Paying!StatusFollowsProvider,
           Paying!SubscriptionsTypeOK, SubscriptionTables, Paying!TenantStatuses,
           Paying!StoreSubscription
  <2>3. SaysLast'
    BY <1>2, <2>1
       DEF SubscriptionsInv, Paying!StatusFollowsProvider,
           Paying!SubscriptionsTypeOK, SubscriptionTables, SaysLast,
           Paying!StoreSubscription
  <2>4. Paying!FollowsProvider'
    BY <2>1, <2>2, <2>3 DEF Paying!FollowsProvider, SaysLast
  <2>5. Paying!StatusesAgree'
    BY <1>2, <2>1
       DEF SubscriptionsInv, Paying!StatusFollowsProvider,
           Paying!SubscriptionsTypeOK, SubscriptionTables, Paying!StatusesAgree,
           WritersMatch, OneWriter, HalfWritten, Match,
           Paying!StoreSubscription
  <2>6. WritersMatch'
    BY <1>2, <2>9
       DEF SubscriptionsInv, WritersMatch, Match,
           Paying!StoreSubscription
  <2>7. OneWriter'
    BY <1>2
       DEF SubscriptionsInv, Paying!StatusFollowsProvider,
           Paying!SubscriptionsTypeOK, SubscriptionTables, OneWriter,
           Paying!StoreSubscription
  <2>8. HalfWritten'
    BY <1>2, <2>1
       DEF SubscriptionsInv, Paying!StatusFollowsProvider,
           Paying!SubscriptionsTypeOK, SubscriptionTables, Paying!StatusesAgree,
           OneWriter, HalfWritten, WritersMatch, Match,
           Paying!StoreSubscription
  <2> QED
    BY <2>1, <2>2, <2>3, <2>4, <2>5, <2>6, <2>7, <2>8
       DEF SubscriptionsInv, Paying!StatusFollowsProvider
<1>3. ASSUME NEW i \in 1..MaxSubs, NEW happening \in Events, Paying!Happen(i, happening)
      PROVE  SubscriptionsInv'
  <2>1. SubscriptionTables'
    BY <1>3
       DEF SubscriptionsInv, Paying!StatusFollowsProvider,
           Paying!SubscriptionsTypeOK, SubscriptionTables, Paying!Statuses,
           Paying!TenantStatuses, Paying!Happen
  <2>2. Paying!SubscriptionsTypeOK'
    BY <1>3, <2>1
       DEF SubscriptionsInv, Paying!StatusFollowsProvider,
           Paying!SubscriptionsTypeOK, SubscriptionTables, Paying!TenantStatuses,
           Paying!Happen
  <2>3. SaysLast'
    BY <1>3, <2>1
       DEF SubscriptionsInv, Paying!StatusFollowsProvider,
           Paying!SubscriptionsTypeOK, SubscriptionTables, SaysLast,
           Paying!Happen
  <2>4. Paying!FollowsProvider'
    BY <2>1, <2>2, <2>3 DEF Paying!FollowsProvider, SaysLast
  <2>5. Paying!StatusesAgree'
    BY <1>3, <2>1
       DEF SubscriptionsInv, Paying!StatusFollowsProvider,
           Paying!SubscriptionsTypeOK, SubscriptionTables, Paying!StatusesAgree,
           WritersMatch, OneWriter, HalfWritten, Match,
           Paying!Happen
  <2>6. WritersMatch'
    BY <1>3
       DEF SubscriptionsInv, Paying!StatusFollowsProvider,
           Paying!SubscriptionsTypeOK, SubscriptionTables, WritersMatch,
           Match, Paying!Happen
  <2>7. OneWriter'
    BY <1>3
       DEF SubscriptionsInv, Paying!StatusFollowsProvider,
           Paying!SubscriptionsTypeOK, SubscriptionTables, OneWriter,
           Paying!Happen
  <2>8. HalfWritten'
    BY <1>3, <2>1
       DEF SubscriptionsInv, Paying!StatusFollowsProvider,
           Paying!SubscriptionsTypeOK, SubscriptionTables, Paying!StatusesAgree,
           OneWriter, HalfWritten, WritersMatch, Match,
           Paying!Happen
  <2> QED
    BY <2>1, <2>2, <2>3, <2>4, <2>5, <2>6, <2>7, <2>8
       DEF SubscriptionsInv, Paying!StatusFollowsProvider
<1>4. ASSUME NEW i \in 1..MaxSubs, NEW k \in 1..MaxEvents, Paying!Receive(i, k)
      PROVE  SubscriptionsInv'
  <2> DEFINE status == Paying!StatusOf(provider[i][k])
  <2>14. sub' = [sub EXCEPT !.status = status]
    BY <1>4 DEF Paying!Receive
  <2>9. /\ sub \in Paying!SubRows /\ sub.id = i /\ provider' = provider /\ last' = k
        /\ i \in DOMAIN provider /\ k \in DOMAIN provider[i]
    BY <1>4 DEF SubscriptionsInv, SubscriptionTables, Paying!Receive
  <2>10. provider[i] \in Seq(Events) /\ i \in 1..Len(provider)
    BY <2>9 DEF SubscriptionsInv, SubscriptionTables
  <2>11. k \in Nat /\ k <= Len(provider[i]) /\ provider[i][k] \in Events
    BY <2>9, <2>10
  <2>12. status \in Paying!Statuses
    BY <2>11
  <2> HIDE DEF status
  <2>13. sub' \in Paying!SubRows /\ sub'.id = i
    BY <2>14, <2>9, <2>12
  <2>1. SubscriptionTables'
    BY <1>4, <2>9, <2>11, <2>13
       DEF SubscriptionsInv, SubscriptionTables, Paying!Receive
  <2>2. Paying!SubscriptionsTypeOK'
    <3>1. tenant' \in Paying!TenantStatuses
      BY <1>4
         DEF SubscriptionsInv, SubscriptionTables, Paying!Receive,
             Paying!TenantAfter, Paying!StatusFollowsProvider,
                  Paying!SubscriptionsTypeOK, Paying!TenantStatuses
    <3>2. sub' \in [id : 1..Len(provider'), status : Paying!Statuses, over : BOOLEAN]
      BY <2>9, <2>10, <2>13
    <3> QED
      BY <2>9, <2>11, <2>13, <3>1, <3>2 DEF Paying!SubscriptionsTypeOK
  <2>3. SaysLast'
    BY <1>4, <2>1
       DEF SubscriptionsInv, Paying!StatusFollowsProvider,
           Paying!SubscriptionsTypeOK, SubscriptionTables, SaysLast,
           Paying!Receive, Paying!TenantAfter
  <2>4. Paying!FollowsProvider'
    BY <2>1, <2>2, <2>3 DEF Paying!FollowsProvider, SaysLast
  <2>5. Paying!StatusesAgree'
    BY <1>4, <2>1
       DEF SubscriptionsInv, Paying!StatusFollowsProvider,
           Paying!SubscriptionsTypeOK, SubscriptionTables, Paying!StatusesAgree,
           WritersMatch, OneWriter, HalfWritten, Match,
           Paying!Receive, Paying!TenantAfter
  <2>6. WritersMatch'
    BY <1>4, <2>13
       DEF SubscriptionsInv, WritersMatch, Match, Paying!Receive
  <2>7. OneWriter'
    BY <1>4
       DEF SubscriptionsInv, Paying!StatusFollowsProvider,
           Paying!SubscriptionsTypeOK, SubscriptionTables, OneWriter,
           Paying!Receive, Paying!TenantAfter
  <2>8. HalfWritten'
    BY <1>4, <2>1
       DEF SubscriptionsInv, Paying!StatusFollowsProvider,
           Paying!SubscriptionsTypeOK, SubscriptionTables, Paying!StatusesAgree,
           OneWriter, HalfWritten, WritersMatch, Match,
           Paying!Receive, Paying!TenantAfter
  <2> QED
    BY <2>1, <2>2, <2>3, <2>4, <2>5, <2>6, <2>7, <2>8
       DEF SubscriptionsInv, Paying!StatusFollowsProvider
<1>5. ASSUME Paying!PeriodEnds
      PROVE  SubscriptionsInv'
  <2>1. SubscriptionTables'
    BY <1>5
       DEF SubscriptionsInv, Paying!StatusFollowsProvider,
           Paying!SubscriptionsTypeOK, SubscriptionTables, Paying!Statuses,
           Paying!TenantStatuses, Paying!PeriodEnds
  <2>2. Paying!SubscriptionsTypeOK'
    BY <1>5, <2>1
       DEF SubscriptionsInv, Paying!StatusFollowsProvider,
           Paying!SubscriptionsTypeOK, SubscriptionTables, Paying!TenantStatuses,
           Paying!PeriodEnds
  <2>3. SaysLast'
    BY <1>5, <2>1
       DEF SubscriptionsInv, Paying!StatusFollowsProvider,
           Paying!SubscriptionsTypeOK, SubscriptionTables, SaysLast,
           Paying!PeriodEnds
  <2>4. Paying!FollowsProvider'
    BY <2>1, <2>2, <2>3 DEF Paying!FollowsProvider, SaysLast
  <2>5. Paying!StatusesAgree'
    BY <1>5, <2>1
       DEF SubscriptionsInv, Paying!StatusFollowsProvider,
           Paying!SubscriptionsTypeOK, SubscriptionTables, Paying!StatusesAgree,
           WritersMatch, OneWriter, HalfWritten, Match,
           Paying!PeriodEnds
  <2>6. WritersMatch'
    BY <1>5
       DEF SubscriptionsInv, Paying!StatusFollowsProvider,
           Paying!SubscriptionsTypeOK, SubscriptionTables, WritersMatch,
           Match, Paying!PeriodEnds
  <2>7. OneWriter'
    BY <1>5
       DEF SubscriptionsInv, Paying!StatusFollowsProvider,
           Paying!SubscriptionsTypeOK, SubscriptionTables, OneWriter,
           Paying!PeriodEnds
  <2>8. HalfWritten'
    BY <1>5, <2>1
       DEF SubscriptionsInv, Paying!StatusFollowsProvider,
           Paying!SubscriptionsTypeOK, SubscriptionTables, Paying!StatusesAgree,
           OneWriter, HalfWritten, WritersMatch, Match,
           Paying!PeriodEnds
  <2> QED
    BY <2>1, <2>2, <2>3, <2>4, <2>5, <2>6, <2>7, <2>8
       DEF SubscriptionsInv, Paying!StatusFollowsProvider
<1>6. ASSUME NEW w \in Writers, Paying!ListExpired(w)
      PROVE  SubscriptionsInv'
  <2>1. SubscriptionTables'
    BY <1>6
       DEF SubscriptionsInv, Paying!StatusFollowsProvider,
           Paying!SubscriptionsTypeOK, SubscriptionTables, Paying!Statuses,
           Paying!TenantStatuses, Paying!ListExpired, Paying!Start
  <2>2. Paying!SubscriptionsTypeOK'
    BY <1>6, <2>1
       DEF SubscriptionsInv, Paying!StatusFollowsProvider,
           Paying!SubscriptionsTypeOK, SubscriptionTables, Paying!TenantStatuses,
           Paying!ListExpired, Paying!Start
  <2>3. SaysLast'
    BY <1>6, <2>1
       DEF SubscriptionsInv, Paying!StatusFollowsProvider,
           Paying!SubscriptionsTypeOK, SubscriptionTables, SaysLast,
           Paying!ListExpired, Paying!Start
  <2>4. Paying!FollowsProvider'
    BY <2>1, <2>2, <2>3 DEF Paying!FollowsProvider, SaysLast
  <2>5. Paying!StatusesAgree'
    BY <1>6, <2>1
       DEF SubscriptionsInv, Paying!StatusFollowsProvider,
           Paying!SubscriptionsTypeOK, SubscriptionTables, Paying!StatusesAgree,
           WritersMatch, OneWriter, HalfWritten, Match,
           Paying!ListExpired, Paying!Start
  <2>6. WritersMatch'
    BY <1>6
       DEF SubscriptionsInv, Paying!StatusFollowsProvider,
           Paying!SubscriptionsTypeOK, SubscriptionTables, WritersMatch,
           Match, Paying!ListExpired, Paying!Start
  <2>7. OneWriter'
    BY <1>6
       DEF SubscriptionsInv, Paying!StatusFollowsProvider,
           Paying!SubscriptionsTypeOK, SubscriptionTables, OneWriter,
           Paying!ListExpired, Paying!Start
  <2>8. HalfWritten'
    BY <1>6, <2>1
       DEF SubscriptionsInv, Paying!StatusFollowsProvider,
           Paying!SubscriptionsTypeOK, SubscriptionTables, Paying!StatusesAgree,
           OneWriter, HalfWritten, WritersMatch, Match,
           Paying!ListExpired, Paying!Start
  <2> QED
    BY <2>1, <2>2, <2>3, <2>4, <2>5, <2>6, <2>7, <2>8
       DEF SubscriptionsInv, Paying!StatusFollowsProvider
<1>7. ASSUME NEW w \in Writers, Paying!StaffAction(w)
      PROVE  SubscriptionsInv'
  <2>1. SubscriptionTables'
    <3>1. PICK row \in Paying!WriterRows : writers' = [writers EXCEPT ![w] = row]
      <4> DEFINE set(s, t) == [kind |-> "staff", step |-> 1, status |-> s, tenant |-> t]
      <4>1. /\ set("active", "active") \in Paying!WriterRows
            /\ set("trial", "trial") \in Paying!WriterRows
            /\ set("cancelled", "suspended") \in Paying!WriterRows
        BY DEF Paying!Statuses, Paying!TenantStatuses
      <4> QED
        BY <1>7, <4>1 DEF Paying!StaffAction, Paying!Start
    <3> QED
      BY <1>7, <3>1
         DEF SubscriptionsInv, SubscriptionTables, Paying!StaffAction,
             Paying!Start
  <2>2. Paying!SubscriptionsTypeOK'
    BY <1>7, <2>1
       DEF SubscriptionsInv, Paying!StatusFollowsProvider,
           Paying!SubscriptionsTypeOK, SubscriptionTables, Paying!TenantStatuses,
           Paying!StaffAction, Paying!Start
  <2>3. SaysLast'
    BY <1>7, <2>1
       DEF SubscriptionsInv, Paying!StatusFollowsProvider,
           Paying!SubscriptionsTypeOK, SubscriptionTables, SaysLast,
           Paying!StaffAction, Paying!Start
  <2>4. Paying!FollowsProvider'
    BY <2>1, <2>2, <2>3 DEF Paying!FollowsProvider, SaysLast
  <2>5. Paying!StatusesAgree'
    BY <1>7, <2>1
       DEF SubscriptionsInv, Paying!StatusFollowsProvider,
           Paying!SubscriptionsTypeOK, SubscriptionTables, Paying!StatusesAgree,
           WritersMatch, OneWriter, HalfWritten, Match,
           Paying!StaffAction, Paying!Start
  <2>6. WritersMatch'
    BY <1>7
       DEF SubscriptionsInv, Paying!StatusFollowsProvider,
           Paying!SubscriptionsTypeOK, SubscriptionTables, WritersMatch,
           Match, Paying!StaffAction, Paying!Start
  <2>7. OneWriter'
    BY <1>7
       DEF SubscriptionsInv, Paying!StatusFollowsProvider,
           Paying!SubscriptionsTypeOK, SubscriptionTables, OneWriter,
           Paying!StaffAction, Paying!Start
  <2>8. HalfWritten'
    BY <1>7, <2>1
       DEF SubscriptionsInv, Paying!StatusFollowsProvider,
           Paying!SubscriptionsTypeOK, SubscriptionTables, Paying!StatusesAgree,
           OneWriter, HalfWritten, WritersMatch, Match,
           Paying!StaffAction, Paying!Start
  <2> QED
    BY <2>1, <2>2, <2>3, <2>4, <2>5, <2>6, <2>7, <2>8
       DEF SubscriptionsInv, Paying!StatusFollowsProvider
<1>8. ASSUME NEW w \in Writers, Paying!WriteStatus(w)
      PROVE  SubscriptionsInv'
  <2>1. SubscriptionTables'
    <3>1. sub \in Paying!SubRows /\ writers[w] \in Paying!WriterRows
      BY <1>8
         DEF WritersMatch, SubscriptionsInv, SubscriptionTables,
             Paying!WriteStatus
    <3>2. [sub EXCEPT !.status = writers[w].status] \in Paying!SubRows
      BY <3>1
    <3>3. [writers[w] EXCEPT !.step = 2] \in Paying!WriterRows
      BY <3>1
    <3>4. writers' = [writers EXCEPT ![w] = [writers[w] EXCEPT !.step = 2]]
      BY <1>8 DEF Paying!WriteStatus
    <3>5. writers' \in [Writers -> Paying!WriterRows \cup {None}]
      BY <3>3, <3>4 DEF SubscriptionsInv, SubscriptionTables
    <3> QED
      BY <1>8, <3>2, <3>5
         DEF SubscriptionsInv, SubscriptionTables, Paying!WriteStatus
  <2>2. Paying!SubscriptionsTypeOK'
    <3>1. /\ sub \in [id : 0..Len(provider), status : Paying!Statuses, over : BOOLEAN]
          /\ sub \in Paying!SubRows
          /\ writers[w] \in Paying!WriterRows
      BY <1>8
         DEF SubscriptionsInv, SubscriptionTables, Paying!WriteStatus,
             WritersMatch, Paying!StatusFollowsProvider,
                  Paying!SubscriptionsTypeOK
    <3>2. sub' = [sub EXCEPT !.status = writers[w].status]
      BY <1>8 DEF Paying!WriteStatus
    <3>3. /\ sub' \in [id : 0..Len(provider), status : Paying!Statuses, over : BOOLEAN]
          /\ sub'.id = sub.id /\ sub' # None
      BY <3>1, <3>2
    <3> QED
      BY <1>8, <3>1, <3>3 DEF SubscriptionsInv, Paying!StatusFollowsProvider,
         Paying!SubscriptionsTypeOK, Paying!WriteStatus
  <2>3. SaysLast'
    BY <1>8, <2>1
       DEF SubscriptionsInv, Paying!StatusFollowsProvider,
           Paying!SubscriptionsTypeOK, SubscriptionTables, SaysLast,
           Paying!WriteStatus
  <2>4. Paying!FollowsProvider'
    BY <2>1, <2>2, <2>3 DEF Paying!FollowsProvider, SaysLast
  <2>5. Paying!StatusesAgree'
    BY <1>8, <2>1
       DEF SubscriptionsInv, Paying!StatusFollowsProvider,
           Paying!SubscriptionsTypeOK, SubscriptionTables, Paying!StatusesAgree,
           WritersMatch, OneWriter, HalfWritten, Match,
           Paying!WriteStatus
  <2>6. WritersMatch'
    BY <1>8
       DEF SubscriptionsInv, Paying!StatusFollowsProvider,
           Paying!SubscriptionsTypeOK, SubscriptionTables, WritersMatch,
           Match, Paying!WriteStatus
  <2>7. OneWriter'
    BY <1>8
       DEF SubscriptionsInv, Paying!StatusFollowsProvider,
           Paying!SubscriptionsTypeOK, SubscriptionTables, OneWriter,
           Paying!WriteStatus
  <2>8. HalfWritten'
    BY <1>8, <2>1
       DEF SubscriptionsInv, Paying!StatusFollowsProvider,
           Paying!SubscriptionsTypeOK, SubscriptionTables, Paying!StatusesAgree,
           OneWriter, HalfWritten, WritersMatch, Match,
           Paying!WriteStatus
  <2> QED
    BY <2>1, <2>2, <2>3, <2>4, <2>5, <2>6, <2>7, <2>8
       DEF SubscriptionsInv, Paying!StatusFollowsProvider
<1>9. ASSUME NEW w \in Writers, Paying!WriteTenant(w)
      PROVE  SubscriptionsInv'
  <2>1. SubscriptionTables'
    BY <1>9
       DEF SubscriptionsInv, Paying!StatusFollowsProvider,
           Paying!SubscriptionsTypeOK, SubscriptionTables, Paying!Statuses,
           Paying!TenantStatuses, Paying!WriteTenant
  <2>2. Paying!SubscriptionsTypeOK'
    BY <1>9, <2>1
       DEF SubscriptionsInv, Paying!StatusFollowsProvider,
           Paying!SubscriptionsTypeOK, SubscriptionTables, Paying!TenantStatuses,
           Paying!WriteTenant
  <2>3. SaysLast'
    BY <1>9, <2>1
       DEF SubscriptionsInv, Paying!StatusFollowsProvider,
           Paying!SubscriptionsTypeOK, SubscriptionTables, SaysLast,
           Paying!WriteTenant
  <2>4. Paying!FollowsProvider'
    BY <2>1, <2>2, <2>3 DEF Paying!FollowsProvider, SaysLast
  <2>5. Paying!StatusesAgree'
    BY <1>9, <2>1
       DEF SubscriptionsInv, Paying!StatusFollowsProvider,
           Paying!SubscriptionsTypeOK, SubscriptionTables, Paying!StatusesAgree,
           WritersMatch, OneWriter, HalfWritten, Match,
           Paying!WriteTenant
  <2>6. WritersMatch'
    BY <1>9
       DEF SubscriptionsInv, Paying!StatusFollowsProvider,
           Paying!SubscriptionsTypeOK, SubscriptionTables, WritersMatch,
           Match, Paying!WriteTenant
  <2>7. OneWriter'
    BY <1>9
       DEF SubscriptionsInv, Paying!StatusFollowsProvider,
           Paying!SubscriptionsTypeOK, SubscriptionTables, OneWriter,
           Paying!WriteTenant
  <2>8. HalfWritten'
    BY <1>9, <2>1
       DEF SubscriptionsInv, Paying!StatusFollowsProvider,
           Paying!SubscriptionsTypeOK, SubscriptionTables, Paying!StatusesAgree,
           OneWriter, HalfWritten, WritersMatch, Match,
           Paying!WriteTenant
  <2> QED
    BY <2>1, <2>2, <2>3, <2>4, <2>5, <2>6, <2>7, <2>8
       DEF SubscriptionsInv, Paying!StatusFollowsProvider
<1>10. ASSUME NEW w \in Writers, Paying!DieWriting(w)
      PROVE  SubscriptionsInv'
  <2>1. SubscriptionTables'
    BY <1>10
       DEF SubscriptionsInv, Paying!StatusFollowsProvider,
           Paying!SubscriptionsTypeOK, SubscriptionTables, Paying!Statuses,
           Paying!TenantStatuses, Paying!DieWriting
  <2>2. Paying!SubscriptionsTypeOK'
    BY <1>10, <2>1
       DEF SubscriptionsInv, Paying!StatusFollowsProvider,
           Paying!SubscriptionsTypeOK, SubscriptionTables, Paying!TenantStatuses,
           Paying!DieWriting
  <2>3. SaysLast'
    BY <1>10, <2>1
       DEF SubscriptionsInv, Paying!StatusFollowsProvider,
           Paying!SubscriptionsTypeOK, SubscriptionTables, SaysLast,
           Paying!DieWriting
  <2>4. Paying!FollowsProvider'
    BY <2>1, <2>2, <2>3 DEF Paying!FollowsProvider, SaysLast
  <2>5. Paying!StatusesAgree'
    BY <1>10, <2>1
       DEF SubscriptionsInv, Paying!StatusFollowsProvider,
           Paying!SubscriptionsTypeOK, SubscriptionTables, Paying!StatusesAgree,
           WritersMatch, OneWriter, HalfWritten, Match,
           Paying!DieWriting
  <2>6. WritersMatch'
    BY <1>10
       DEF SubscriptionsInv, Paying!StatusFollowsProvider,
           Paying!SubscriptionsTypeOK, SubscriptionTables, WritersMatch,
           Match, Paying!DieWriting
  <2>7. OneWriter'
    BY <1>10
       DEF SubscriptionsInv, Paying!StatusFollowsProvider,
           Paying!SubscriptionsTypeOK, SubscriptionTables, OneWriter,
           Paying!DieWriting
  <2>8. HalfWritten'
    BY <1>10, <2>1
       DEF SubscriptionsInv, Paying!StatusFollowsProvider,
           Paying!SubscriptionsTypeOK, SubscriptionTables, Paying!StatusesAgree,
           OneWriter, HalfWritten, WritersMatch, Match,
           Paying!DieWriting
  <2> QED
    BY <2>1, <2>2, <2>3, <2>4, <2>5, <2>6, <2>7, <2>8
       DEF SubscriptionsInv, Paying!StatusFollowsProvider
<1>11. ASSUME NEW t \in {"trial", "active", "suspended"}, Paying!Agree(t)
      PROVE  SubscriptionsInv'
  <2>1. SubscriptionTables'
    BY <1>11
       DEF SubscriptionsInv, Paying!StatusFollowsProvider,
           Paying!SubscriptionsTypeOK, SubscriptionTables, Paying!Statuses,
           Paying!TenantStatuses, Paying!Agree
  <2>2. Paying!SubscriptionsTypeOK'
    BY <1>11, <2>1
       DEF SubscriptionsInv, Paying!StatusFollowsProvider,
           Paying!SubscriptionsTypeOK, SubscriptionTables, Paying!TenantStatuses,
           Paying!Agree
  <2>3. SaysLast'
    BY <1>11, <2>1
       DEF SubscriptionsInv, Paying!StatusFollowsProvider,
           Paying!SubscriptionsTypeOK, SubscriptionTables, SaysLast,
           Paying!Agree
  <2>4. Paying!FollowsProvider'
    BY <2>1, <2>2, <2>3 DEF Paying!FollowsProvider, SaysLast
  <2>5. Paying!StatusesAgree'
    BY <1>11, <2>1
       DEF SubscriptionsInv, Paying!StatusFollowsProvider,
           Paying!SubscriptionsTypeOK, SubscriptionTables, Paying!StatusesAgree,
           WritersMatch, OneWriter, HalfWritten, Match,
           Paying!Agree
  <2>6. WritersMatch'
    BY <1>11
       DEF SubscriptionsInv, Paying!StatusFollowsProvider,
           Paying!SubscriptionsTypeOK, SubscriptionTables, WritersMatch,
           Match, Paying!Agree
  <2>7. OneWriter'
    BY <1>11
       DEF SubscriptionsInv, Paying!StatusFollowsProvider,
           Paying!SubscriptionsTypeOK, SubscriptionTables, OneWriter,
           Paying!Agree
  <2>8. HalfWritten'
    BY <1>11, <2>1
       DEF SubscriptionsInv, Paying!StatusFollowsProvider,
           Paying!SubscriptionsTypeOK, SubscriptionTables, Paying!StatusesAgree,
           OneWriter, HalfWritten, WritersMatch, Match,
           Paying!Agree
  <2> QED
    BY <2>1, <2>2, <2>3, <2>4, <2>5, <2>6, <2>7, <2>8
       DEF SubscriptionsInv, Paying!StatusFollowsProvider
<1>20. CASE UNCHANGED subscriptionVars
  BY <1>20 DEF subscriptionVars, SubscriptionsInv, Paying!StatusFollowsProvider,
       Paying!SubscriptionsTypeOK, Paying!FollowsProvider, Paying!StatusesAgree,
       SubscriptionTables, SaysLast, WritersMatch, OneWriter,
       HalfWritten, Match
<1> QED
  BY <1>1, <1>2, <1>3, <1>4, <1>5, <1>6, <1>7, <1>8, <1>9, <1>10, <1>11, <1>20
     DEF Paying!SubscriptionsNext

-----------------------------------------------------------------------------
(* The composition: a step of one part leaves the others alone. *)

ProcessesInv ==
  OutboxInv /\ RemindersInv /\ SubscriptionsInv

LEMMA ProcessesInvariance == ProcessesSpec => []ProcessesInv
<1>1. ProcessesInit => ProcessesInv
  BY OutboxInitially, RemindersInitially, SubscriptionsInitially
     DEF ProcessesInit, ProcessesInv
<1>2. ProcessesInv /\ [ProcessesNext]_allVars => ProcessesInv'
  <2> SUFFICES ASSUME ProcessesInv, [ProcessesNext]_allVars
               PROVE  ProcessesInv'
    OBVIOUS
  <2>1. CASE CommandStep(Next)
    <3>1. UNCHANGED <<reminderVars, outboxVars, subscriptionVars>>
      BY <2>1 DEF CommandStep
    <3> QED
      BY <3>1, OutboxStepKeeps, RemindersStepKeeps, SubscriptionsStepKeeps
         DEF ProcessesInv
  <2>2. CASE ReminderStep(Sending!RemindersNext)
    <3>1. Sending!RemindersNext /\ UNCHANGED <<outboxVars, subscriptionVars>>
      BY <2>2 DEF ReminderStep
    <3> QED
      BY <3>1, OutboxStepKeeps, RemindersStepKeeps, SubscriptionsStepKeeps
         DEF ProcessesInv
  <2>3. CASE OutboxStep(Sending!OutboxNext)
    <3>1. Sending!OutboxNext /\ UNCHANGED <<reminderVars, subscriptionVars>>
      BY <2>3 DEF OutboxStep
    <3> QED
      BY <3>1, OutboxStepKeeps, RemindersStepKeeps, SubscriptionsStepKeeps
         DEF ProcessesInv
  <2>4. CASE SubscriptionStep(Paying!SubscriptionsNext)
    <3>1. Paying!SubscriptionsNext /\ UNCHANGED <<reminderVars, outboxVars>>
      BY <2>4 DEF SubscriptionStep
    <3> QED
      BY <3>1, OutboxStepKeeps, RemindersStepKeeps, SubscriptionsStepKeeps
         DEF ProcessesInv
  <2>5. CASE UNCHANGED allVars
    <3>1. UNCHANGED <<reminderVars, outboxVars, subscriptionVars>>
      BY <2>5 DEF allVars
    <3> QED
      BY <3>1, OutboxStepKeeps, RemindersStepKeeps, SubscriptionsStepKeeps
         DEF ProcessesInv
  <2> QED
    BY <2>1, <2>2, <2>3, <2>4, <2>5 DEF ProcessesNext
<1> QED
  BY <1>1, <1>2, PTL DEF ProcessesSpec

(* Nobody gets a message twice or one that was cancelled, a message is       *)
(* "sent" and a delivery "delivered" only if it arrived, and a reminder is   *)
(* mailed once, whatever worker dies, unless it died after mailing or an     *)
(* edit overlapped (erp/tasks.py, core/tasks.py 10-39).                      *)
THEOREM ProcessesSentOnce == ProcessesSpec => []SentOnce
<1>1. ProcessesInv => SentOnce
  BY DEF ProcessesInv, SentOnce, OutboxInv, RemindersInv,
         Sending!MailedOnce, Accounted, ReminderTables
<1> QED
  BY <1>1, ProcessesInvariance, PTL

(* The row of a subscription says what the provider said last, and the       *)
(* company's status agrees with it, unless two writes overlapped, one died   *)
(* or an agreement said otherwise (core/billing.py, core/tasks.py 42-71).    *)
THEOREM ProcessesFollowProvider == ProcessesSpec => []StatusFollowsProvider
<1>1. ProcessesInv => StatusFollowsProvider
  BY DEF ProcessesInv, StatusFollowsProvider, SubscriptionsInv
<1> QED
  BY <1>1, ProcessesInvariance, PTL

=============================================================================
