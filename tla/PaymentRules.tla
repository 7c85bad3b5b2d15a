---------------------------- MODULE PaymentRules ----------------------------
(***************************************************************************)
(* The confirmation state machine of a settlement payment: the statuses,   *)
(* the five requests, who may make each from which status, and the name    *)
(* under which the audit log records it (server/services/payments.go).     *)
(* Pure operators; module Payments runs them inside transactions.          *)
(***************************************************************************)

\* payment_status, in the order a payment normally goes through it.
PaymentStatus ==
  {"pending", "proof_submitted", "creditor_confirmed", "disputed", "settled"}

paymentAction == {"submit_proof", "confirm", "dispute", "finalize", "reject"}

\* The roles one caller has towards one payment; any combination can occur.
paymentActor ==
  [IsDebtor : BOOLEAN, IsCreditor : BOOLEAN,
   IsGroupAdmin : BOOLEAN, IsGlobalAdmin : BOOLEAN]

\* The answer to a request that is not allowed (403 and 409 alike).
Refused == "refused"

Participant(actor) ==
  actor.IsDebtor \/ actor.IsCreditor \/ actor.IsGroupAdmin \/ actor.IsGlobalAdmin

\* Who may make each request, and from which status.
MaySubmit(actor, status) == actor.IsDebtor /\ status \in {"pending", "disputed"}

ConfirmsUnproven(actor, status) == actor.IsCreditor

MayConfirm(actor, status) == actor.IsCreditor /\ status = "proof_submitted"

MayDispute(actor, status) == actor.IsCreditor /\ status = "proof_submitted"

FinalizesOwn(actor, status) ==
  /\ actor.IsGroupAdmin \/ actor.IsGlobalAdmin
  /\ actor.IsGlobalAdmin \/ status = "creditor_confirmed"

\* The debtor ban comes before any admin power.
MayFinalize(actor, status) ==
  /\ ~actor.IsDebtor
  /\ actor.IsGroupAdmin \/ actor.IsGlobalAdmin
  /\ actor.IsGlobalAdmin \/ status = "creditor_confirmed"

MayReject(actor, status) ==
  /\ actor.IsGroupAdmin \/ actor.IsGlobalAdmin
  /\ actor.IsGlobalAdmin \/ status \in {"proof_submitted", "creditor_confirmed"}

\* The status a request leads to, or Refused.  A settled payment accepts
\* nothing.
validatePaymentTransition(action, actor, status) ==
  CASE status # "settled" /\ action = "submit_proof" /\ MaySubmit(actor, status) ->
         "proof_submitted"
    [] status # "settled" /\ action = "confirm" /\ MayConfirm(actor, status) ->
         "creditor_confirmed"
    [] status # "settled" /\ action = "dispute" /\ MayDispute(actor, status) ->
         "disputed"
    [] status # "settled" /\ action = "finalize" /\ MayFinalize(actor, status) ->
         "settled"
    [] status # "settled" /\ action = "reject" /\ MayReject(actor, status) ->
         "disputed"
    [] OTHER -> Refused

\* The audit label; an act only the global admin's override allows says so.
auditActionFor(action, actor, from) ==
  CASE action = "submit_proof" -> "payment.proof_submitted"
    [] action = "confirm" -> "payment.creditor_confirmed"
    [] action = "dispute" -> "payment.creditor_disputed"
    [] action = "finalize" ->
         IF actor.IsGlobalAdmin /\ from # "creditor_confirmed"
         THEN "payment.settled.override" ELSE "payment.settled"
    [] action = "reject" ->
         IF actor.IsGlobalAdmin /\ from \notin {"proof_submitted", "creditor_confirmed"}
         THEN "payment.rejected.override" ELSE "payment.rejected"

AuditAction ==
  {"payment.proof_submitted", "payment.creditor_confirmed",
   "payment.creditor_disputed", "payment.settled", "payment.settled.override",
   "payment.rejected", "payment.rejected.override"}
=============================================================================
