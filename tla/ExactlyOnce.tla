---------------------------- MODULE ExactlyOnce -----------------------------
(***************************************************************************)
(* What a client of the workspace may rely on when it numbers its commands: *)
(* a numbered command takes effect at most once, whatever is retried, and   *)
(* a client that hears "done" can be sure that it took effect as sent.      *)
(***************************************************************************)
EXTENDS Sequences

CONSTANTS Clients, KeyOf, BodyOf

VARIABLES
  effects,   \* the commands that took effect, in order
  heard      \* what each client has been told

vars == <<effects, heard>>

Effect(c) == [key |-> KeyOf[c], body |-> BodyOf[c]]
Effects == {effects[i] : i \in DOMAIN effects}

Init ==
  /\ effects = <<>>
  /\ heard = [c \in Clients |-> "nothing"]

TakeEffect(c) ==
  /\ \A e \in Effects : e.key # KeyOf[c]
  /\ effects' = Append(effects, Effect(c))
  /\ UNCHANGED heard

Done(c) ==
  /\ heard[c] = "nothing" /\ Effect(c) \in Effects
  /\ heard' = [heard EXCEPT ![c] = "done"]
  /\ UNCHANGED effects

Conflict(c) ==
  /\ heard[c] = "nothing"
  /\ \E e \in Effects : e.key = KeyOf[c] /\ e.body # BodyOf[c]
  /\ heard' = [heard EXCEPT ![c] = "conflict"]
  /\ UNCHANGED effects

Refused(c) ==
  /\ heard[c] = "nothing"
  /\ heard' = [heard EXCEPT ![c] = "refused"]
  /\ UNCHANGED effects

Next == \E c \in Clients : TakeEffect(c) \/ Done(c) \/ Conflict(c) \/ Refused(c)

Spec == Init /\ [][Next]_vars

=============================================================================
