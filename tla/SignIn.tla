------------------------------- MODULE SignIn -------------------------------
(***************************************************************************)
(* Signing in with a code sent to the phone (src/apps/erp/otp.py), for one  *)
(* user and his phone.  A request for a code runs in statements that commit *)
(* one by one: it looks for a recent code, consumes the open ones, inserts  *)
(* the new one and sends it.  A verification is one transaction that locks  *)
(* the row of its code; what it writes is lost when it ends in an error.    *)
(* Failures are counted in the cache, which is no part of the transaction,  *)
(* expires, and is cleared when roles change (src/apps/core/signals.py).    *)
(*                                                                         *)
(* Left out, since it only refuses more: codes that expire, the limits on    *)
(* the number of requests, unknown phones, and ways of sending that are off. *)
(*                                                                         *)
(* Definitions commented "Mutant:" are mistakes for the properties to find. *)
(***************************************************************************)
EXTENDS Naturals, FiniteSets

CONSTANTS
  CodeIds,
  Askers,        \* requests for a code that can be under way at once
  Verifiers,     \* verifications that can be under way at once
  MaxFailures,   \* failures after which no code is accepted; 5 in the program
  MaxTries,      \* bound on the wrong codes that are compared
  None

VARIABLES
  codes,         \* rows of LoginOTP
  asking,        \* what each request for a code is at
  verifying,     \* what each verification is at
  failures,      \* the counter of the cache
  wrong,         \* history: wrong codes compared since the counter began
  signIns,       \* history: the sign-ins of each code
  overlapped     \* history: kinds of requests that ran side by side

signInVars == <<codes, asking, verifying, failures, wrong, signIns, overlapped>>

Exists(c) == codes[c] # None
Open(c) == Exists(c) /\ ~codes[c].consumed
Usable(c) == Open(c) /\ codes[c].attempts < MaxFailures

SignInInit ==
  /\ codes = [c \in CodeIds |-> None]
  /\ asking = [r \in Askers |-> None]
  /\ verifying = [v \in Verifiers |-> None]
  /\ failures = 0 /\ wrong = 0
  /\ signIns = [c \in CodeIds |-> 0]
  /\ overlapped = {}

-----------------------------------------------------------------------------
(* RequestOTPView.post.  A code younger than a minute that is still open     *)
(* refuses another one.                                                      *)
Ask(r) ==
  /\ asking[r] = None
  /\ \A c \in CodeIds : Open(c) => ~codes[c].recent
  /\ asking' = [asking EXCEPT ![r] = [step |-> "close", code |-> None]]
  /\ overlapped' = IF \E q \in Askers : asking[q] # None
                   THEN overlapped \cup {"ask"} ELSE overlapped
  /\ UNCHANGED <<codes, verifying, failures, wrong, signIns>>

(* "Invalidate previous unconsumed OTPs for the same user": an UPDATE waits  *)
(* for the verifications that hold a row.                                    *)
Held(c) == \E v \in Verifiers : verifying[v] # None /\ verifying[v].locked = c

Closed == [c \in CodeIds |-> IF Open(c) THEN [codes[c] EXCEPT !.consumed = TRUE]
                             ELSE codes[c]]

CloseOpen(r) ==
  /\ asking[r] # None /\ asking[r].step = "close"
  /\ \A c \in CodeIds : Open(c) => ~Held(c)
  /\ codes' = Closed
  /\ asking' = [asking EXCEPT ![r].step = "create"]
  /\ UNCHANGED <<verifying, failures, wrong, signIns, overlapped>>

CreateCode(r, c) ==
  /\ asking[r] # None /\ asking[r].step = "create"
  /\ ~Exists(c)
  /\ codes' = [codes EXCEPT ![c] = [consumed |-> FALSE, recent |-> TRUE,
                                    attempts |-> 0]]
  /\ asking' = [asking EXCEPT ![r] = [step |-> "send", code |-> c]]
  /\ UNCHANGED <<verifying, failures, wrong, signIns, overlapped>>

(* The provider takes the message, or the code is made unusable.  A process   *)
(* that ends is one that takes no further step.                              *)
SendCode(r) ==
  /\ asking[r] # None /\ asking[r].step = "send"
  /\ \/ UNCHANGED codes
     \/ /\ ~Held(asking[r].code)
        /\ codes' = [codes EXCEPT ![asking[r].code].consumed = TRUE]
  /\ asking' = [asking EXCEPT ![r] = None]
  /\ UNCHANGED <<verifying, failures, wrong, signIns, overlapped>>

-----------------------------------------------------------------------------
(* VerifyOTPView.post for the token of code c, with the right digits or not. *)
StartVerify(v, c, right) ==
  /\ verifying[v] = None
  /\ failures < MaxFailures
  /\ Exists(c)
  /\ right \/ wrong < MaxTries
  /\ verifying' = [verifying EXCEPT ![v] =
                     [step |-> "find", code |-> c, right |-> right,
                      locked |-> None, seen |-> 0]]
  /\ overlapped' = IF \E u \in Verifiers : verifying[u] # None
                   THEN overlapped \cup {"verify"} ELSE overlapped
  /\ UNCHANGED <<codes, asking, failures, wrong, signIns>>

At(v, step) == verifying[v] # None /\ verifying[v].step = step

(* Mutant: the row is read without a lock. *)
NoLock(c) == TRUE

(* select_for_update: a row another verification holds is waited for, and    *)
(* looked at again when it is released.                                      *)
MayLock(c) == ~Held(c)

(* Without a usable row the failure is counted and nothing compared.  A      *)
(* wrong code adds an attempt to the row, which the error takes back; the    *)
(* row stays locked until the failure is counted.                            *)
FindCode(v) ==
  LET c == verifying[v].code
      right == verifying[v].right
  IN  /\ At(v, "find")
      /\ MayLock(c)
      /\ verifying' = [verifying EXCEPT
           ![v].step = IF Usable(c) /\ right THEN "accept" ELSE "count",
           ![v].locked = IF Usable(c) THEN c ELSE None,
           ![v].seen = IF Usable(c) /\ right THEN 0 ELSE failures]
      /\ wrong' = IF Usable(c) /\ ~right THEN wrong + 1 ELSE wrong
      /\ UNCHANGED <<codes, asking, failures, signIns, overlapped>>

(* The right code is consumed and the counter forgotten; it signs in when    *)
(* the transaction commits.                                                  *)
AcceptCode(v) ==
  /\ At(v, "accept")
  /\ codes' = [codes EXCEPT ![verifying[v].code].consumed = TRUE,
                            ![verifying[v].code].attempts = @ + 1]
  /\ failures' = 0 /\ wrong' = 0
  /\ signIns' = [signIns EXCEPT ![verifying[v].code] = @ + 1]
  /\ verifying' = [verifying EXCEPT ![v] = None]
  /\ UNCHANGED <<asking, overlapped>>

(* record_otp_failure sets the counter to what it read and one more; past     *)
(* the limit all counts are the same.                                        *)
Recorded(seen) == IF seen < MaxFailures THEN seen + 1 ELSE seen

CountFailure(v) ==
  /\ At(v, "count")
  /\ failures' = Recorded(verifying[v].seen)
  /\ verifying' = [verifying EXCEPT ![v] = None]
  /\ UNCHANGED <<codes, asking, wrong, signIns, overlapped>>

VerifierDies(v) ==
  /\ verifying[v] # None
  /\ verifying' = [verifying EXCEPT ![v] = None]
  /\ overlapped' = IF At(v, "count") THEN overlapped \cup {"verify"} ELSE overlapped
  /\ UNCHANGED <<codes, asking, failures, wrong, signIns>>

-----------------------------------------------------------------------------
(* A code is a minute old. *)
GrowOlder(c) ==
  /\ Exists(c) /\ codes[c].recent
  /\ codes' = [codes EXCEPT ![c].recent = FALSE]
  /\ UNCHANGED <<asking, verifying, failures, wrong, signIns, overlapped>>

(* The counter is forgotten after fifteen minutes, or with the whole cache. *)
ForgetFailures ==
  /\ failures > 0
  /\ failures' = 0 /\ wrong' = 0
  /\ UNCHANGED <<codes, asking, verifying, signIns, overlapped>>

SignInNext ==
  \/ \E r \in Askers :
       \/ Ask(r) \/ CloseOpen(r) \/ SendCode(r)
       \/ \E c \in CodeIds : CreateCode(r, c)
  \/ \E v \in Verifiers :
       \/ \E c \in CodeIds, right \in BOOLEAN : StartVerify(v, c, right)
       \/ FindCode(v) \/ AcceptCode(v) \/ CountFailure(v) \/ VerifierDies(v)
  \/ \E c \in CodeIds : GrowOlder(c)
  \/ ForgetFailures

SignInSpec == SignInInit /\ [][SignInNext]_signInVars

-----------------------------------------------------------------------------
(* A code signs in once, however many verifications carry it. *)
SignsInOnce == \A c \in CodeIds : signIns[c] <= 1

(* Of the codes of a user at most one is open, unless two requests for a     *)
(* code overlapped: each of them then looked before the other had created.   *)
OneOpenCode == "ask" \in overlapped \/ Cardinality({c \in CodeIds : Open(c)}) <= 1

(* While the counter lives no more than MaxFailures wrong codes are          *)
(* compared, unless verifications overlapped or one ended before it had      *)
(* counted; the attempts kept in the rows never refuse any.                  *)
WrongCodesCounted == "verify" \in overlapped \/ wrong <= MaxFailures

CodesHold == SignsInOnce /\ OneOpenCode /\ WrongCodesCounted

-----------------------------------------------------------------------------
(* The rows, and what is assumed of the constants.                          *)
Codes == [consumed : BOOLEAN, recent : BOOLEAN, attempts : Nat]
Asks == [step : {"close", "create", "send"}, code : CodeIds \cup {None}]
Verifications ==
  [step : {"find", "accept", "count"}, code : CodeIds, right : BOOLEAN,
   locked : CodeIds \cup {None}, seen : 0..MaxFailures]

SignInConstants ==
  MaxFailures \in Nat /\ None \notin CodeIds \cup Codes \cup Asks \cup Verifications

SignInTypeOK ==
  /\ codes \in [CodeIds -> Codes \cup {None}]
  /\ asking \in [Askers -> Asks \cup {None}]
  /\ verifying \in [Verifiers -> Verifications \cup {None}]
  /\ failures \in 0..MaxFailures /\ wrong \in Nat
  /\ signIns \in [CodeIds -> Nat]
  /\ \A r \in Askers : asking[r] # None /\ asking[r].step = "send" =>
       asking[r].code \in CodeIds /\ Exists(asking[r].code)

=============================================================================
