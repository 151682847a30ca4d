-------------------------- MODULE OneTimeCredential --------------------------
(***************************************************************************)
(* What a selector/validator token promises, whatever the implementation   *)
(* does inside: it is issued once, redeemed at most once, presented only a *)
(* bounded number of times, and never comes back once it is spent or dead. *)
(* TokenLifecycle is shown to implement this specification.                *)
(***************************************************************************)
EXTENDS Naturals

CONSTANTS
  Tokens,        \* the credentials that may be issued to one user for one flow
  MaxAttempts    \* how many presentations may reach the secret comparison

VARIABLES
  state,         \* where each credential is in its life
  tries          \* how many presentations of it were let through

credVars == <<state, tries>>

States == {"unissued", "live", "claimed", "redeemed", "dead"}

Init ==
  /\ state \in [Tokens -> {"unissued", "live"}]
  /\ tries = [t \in Tokens |-> 0]

(* The credentials of `dying` that are live stop being usable. *)
Killing(dying) ==
  [t \in Tokens |-> IF t \in dying /\ state[t] = "live" THEN "dead" ELSE state[t]]

(* A new credential comes out, killing some of its predecessors with it. *)
Issue(t, dying) ==
  /\ state[t] = "unissued"
  /\ t \notin dying
  /\ state' = [Killing(dying) EXCEPT ![t] = "live"]
  /\ UNCHANGED tries

(* A presentation is let through to the comparison of the secret. *)
Try(t) ==
  /\ tries[t] < MaxAttempts
  /\ tries' = [tries EXCEPT ![t] = @ + 1]
  /\ UNCHANGED state

(* One presenter gets the exclusive right to redeem a live credential. *)
Claim(t) ==
  /\ state[t] = "live"
  /\ state' = [state EXCEPT ![t] = "claimed"]
  /\ UNCHANGED tries

(* The claim is honoured: the credential is spent, and its siblings die. *)
Redeem(t, dying) ==
  /\ state[t] = "claimed"
  /\ t \notin dying
  /\ state' = [Killing(dying) EXCEPT ![t] = "redeemed"]
  /\ UNCHANGED tries

(* The claim is given up: the credential is what it was, or died meanwhile. *)
Release(t) ==
  /\ state[t] = "claimed"
  /\ \E s \in {"live", "dead"} : state' = [state EXCEPT ![t] = s]
  /\ UNCHANGED tries

(* Live credentials die: superseded, or past their expiration. *)
Retire(dying) ==
  /\ state' = Killing(dying)
  /\ UNCHANGED tries

Next ==
  \/ \E t \in Tokens : Try(t) \/ Claim(t) \/ Release(t)
  \/ \E t \in Tokens, dying \in SUBSET Tokens : Issue(t, dying) \/ Redeem(t, dying)
  \/ \E dying \in SUBSET Tokens : Retire(dying)

Spec == Init /\ [][Next]_credVars
==============================================================================
