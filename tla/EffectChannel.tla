---------------------------- MODULE EffectChannel ----------------------------
(***************************************************************************)
(* What an external connector promises to whoever asks it to carry out an  *)
(* effect, without saying how: a request ends in at most one verdict, one  *)
(* that is not idempotent leaves at most once, two requests never share a  *)
(* physical scope, and a verdict says no more than what is known.          *)
(*                                                                         *)
(* Connector implements this; EffectSpine relies on nothing else.          *)
(***************************************************************************)
EXTENDS Naturals

CONSTANTS
    Requests,       \* what may be asked for
    Scope,          \* the physical scope of each request
    NonIdempotent   \* requests whose effect must not happen twice

VARIABLES
    verdict,    \* what the connector says of each request
    sends,      \* how often the request left for the destination
    applied     \* requests whose effect the destination has applied

channelVars == <<verdict, sends, applied>>

Outcomes == {"succeeded", "failed", "retryable_failure", "ambiguous"}

(* A verdict names the outcome and whether a dispatch is recorded. *)
Verdicts == [outcome : Outcomes, dispatched : BOOLEAN]
NoVerdict == [outcome |-> "none", dispatched |-> FALSE]

Init ==
    /\ verdict = [r \in Requests |-> NoVerdict]
    /\ sends = [r \in Requests |-> 0]
    /\ applied = {}

(* The request leaves; the destination applies it or does not. *)
Deliver(r) ==
    /\ verdict[r] = NoVerdict
    /\ r \in NonIdempotent => sends[r] = 0
    /\ \A s \in Requests : s # r /\ Scope[s] = Scope[r] => sends[s] = 0
    /\ sends' = [sends EXCEPT ![r] = @ + 1]
    /\ applied' \in {applied, applied \cup {r}}
    /\ UNCHANGED verdict

(* The one verdict.  A success is never made up, and a verdict on a request  *)
(* that is not idempotent denies a dispatch only if there was none.          *)
Settle(r, v) ==
    /\ verdict[r] = NoVerdict
    /\ v.outcome = "succeeded" => r \in applied
    /\ r \in NonIdempotent /\ ~v.dispatched => sends[r] = 0
    /\ verdict' = [verdict EXCEPT ![r] = v]
    /\ UNCHANGED <<sends, applied>>

(* An ambiguous verdict becomes a success when the effect was observed. *)
Resolve(r) ==
    /\ verdict[r].outcome = "ambiguous" /\ r \in applied
    /\ verdict' = [verdict EXCEPT ![r].outcome = "succeeded"]
    /\ UNCHANGED <<sends, applied>>

(* Repeating what is already said or done is no step of the channel. *)
Next ==
    /\ <<verdict', sends', applied'>> # channelVars
    /\ \E r \in Requests :
          \/ Deliver(r)
          \/ \E v \in Verdicts : Settle(r, v)
          \/ Resolve(r)

Spec == Init /\ [][Next]_channelVars
=============================================================================
