---------------------------- MODULE MCLeasedWork ----------------------------
(***************************************************************************)
(* Small deployments of LeasedWork.                                        *)
(***************************************************************************)
EXTENDS LeasedWork

Draft(k, content) == [key |-> k, content |-> content]

\* Two days that share an event, and a replan with the payload of the first.
MCPlanOf ==
  [p \in {"day", "replan", "same"} |->
     IF p = "replan" THEN <<Draft("shift", "late"), Draft("gym", "gym")>>
     ELSE <<Draft("shift", "early"), Draft("walk", "walk")>>]
MCShielded == [p \in {"day", "replan", "same"} |-> IF p = "same" THEN {} ELSE {"sleep"}]

MCCaptures ==
  {Capture(1, "day", TRUE, TRUE), Capture(2, "replan", TRUE, TRUE), Capture(3, "same", TRUE, TRUE),
   Capture(4, "day", TRUE, TRUE)}

Browse == WorkerRequest("browse", "browser.execute", "w", TRUE, TRUE, 1)
Code == WorkerRequest("code", "code.execute", "w", FALSE, TRUE, 1)
Send == WorkerRequest("send", "message.send", "w", FALSE, TRUE, 1)

MCRequestOf == [p \in {"task", "mail", "rule", "stage"} |->
  CASE p = "task" -> Browse [] p = "mail" -> Send [] OTHER -> NoRequest]
MCClassOf == [p \in {"task", "mail", "rule", "stage"} |->
  CASE p = "task" -> "worker.execute" [] p = "mail" -> "message.send"
    [] p = "rule" -> "calendar.apply" [] OTHER -> "rollout.apply"]

Proof(id, p, device, expires) ==
  [id |-> id, kind |-> "approval", source |-> "device_signed", proposal |-> p, payload |-> p,
   device |-> device, key |-> id, issued |-> 0, expires |-> expires]

MCProofs ==
  {Proof(1, "day", "phone", 2), Proof(2, "replan", "phone", 2), Proof(3, "same", "phone", 2),
   Proof(4, "day", "phone", 2), Proof(5, "task", "phone", 2), Proof(6, "mail", "phone", 2),
   Proof(7, "rule", "phone", 2), Proof(8, "stage", "phone", 2), Proof(9, "stage", "phone", 2)}

Undo(id, p) == [id |-> id, proposal |-> p, payload |-> p, expires |-> 2]
MCRollbacks == {Undo(1, "day"), Undo(2, "replan"), Undo(3, "rule"), Undo(4, "stage")}

Idle == [captures |-> {}, client |-> FALSE, proposals |-> {}, requests |-> {}, scopes |-> {},
         runtime |-> "none", broker |-> FALSE, issuer |-> TRUE, promoted |-> {}, revocable |-> {},
         maxTime |-> 0, maxFaults |-> 0, maxEdits |-> 0, maxLeases |-> 2, maxRotations |-> 0]

Scope(capability, worker) == [capability |-> capability, worker |-> worker]

\* A day, its replan and their rollbacks, mirrored by a client.
Mirrored ==
  [Idle EXCEPT !.captures = {c \in MCCaptures : c.id <= 2}, !.client = TRUE, !.maxEdits = 1]

\* Failures, a capture that comes again, a replan with the same payload.
Failing ==
  [Idle EXCEPT !.captures = MCCaptures, !.revocable = {"phone"}, !.maxTime = 1, !.maxFaults = 1, !.maxEdits = 1]

\* Two leases for one approved request, cancellations, a restart.
Sandboxed ==
  [Idle EXCEPT !.proposals = {"task"}, !.requests = {Browse, Code}, !.runtime = "sandbox", !.broker = TRUE,
               !.scopes = {Scope("browser.execute", "w")}, !.maxTime = 1, !.maxFaults = 1]

\* A live runtime that was promoted for nothing; sending needs a lease only.
LiveRuntime ==
  [Idle EXCEPT !.proposals = {"task", "mail"}, !.requests = {Browse, Code, Send}, !.runtime = "live",
               !.scopes = {Scope("message.send", "w"), Scope("browser.execute", "w")}, !.maxRotations = 1]

\* A rollout whose objects and leases are used again, and a calendar rule.
Staged ==
  [Idle EXCEPT !.proposals = {"stage", "rule"}, !.maxTime = 1, !.maxFaults = 1, !.maxRotations = 1, !.revocable = {"phone"},
               !.scopes = {Scope("rollout.stage", "lifeos-rollout"), Scope("calendar.apply", "lifeos-calendar")}]

AllDeployments == {Mirrored, Failing, Sandboxed, LiveRuntime, Staged}
=============================================================================
