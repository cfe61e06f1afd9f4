----------------------------- MODULE Enrolment -----------------------------
(***************************************************************************)
(* Which agent speaks for which machine: enrolment tokens, the secret that *)
(* binds a machine to one installation of the agent, and the window in     *)
(* which an administrator lets it be bound again                           *)
(* (server/src/collectors/agent/store.rs, receive.rs).                     *)
(*                                                                         *)
(* A pushed batch is a request.  The server works through it one SQL       *)
(* statement at a time and without a transaction, so each statement that   *)
(* reads or writes what others may write is an action.  Statements that    *)
(* only refresh descriptions and dates (update_host, record_batch,         *)
(* touch_token, record_probe) change nothing modelled; they can fail.      *)
(***************************************************************************)
EXTENDS Integers, Sequences, FiniteSets

CONSTANTS
  Machines,     \* machines by identity key
  Tokens,       \* enrolment tokens ever created
  Fleet,        \* those without max_uses
  MaxUses       \* [Tokens -> Nat], for the others

ASSUME EnrolmentAssumption == Fleet \subseteq Tokens /\ MaxUses \in [Tokens -> Nat]

VARIABLES
  tokens,      \* agent_tokens
  target,      \* per machine, the id of its row in targets, or NoTarget
  host,        \* per machine, its row in agent_hosts, or NoHost
  requests,    \* batches the server works on or has answered
  issued       \* secrets and target ids handed out so far; both are never reused

enrolmentVars == <<tokens, target, host, requests, issued>>

NoSecret == 0
NoTarget == 0
NoHost == [target |-> NoTarget]

Host == [target : Nat \ {NoTarget}, secret : Nat, token : Tokens, rebind_open : BOOLEAN]

NewToken == [uses |-> 0, revoked |-> FALSE, expired |-> FALSE]

\* Targets may have been declared by hand, and machines registered (by a token) before
\* binding existed, which have no secret.
EnrolmentInit(declared, legacy, token) ==
  /\ tokens = [t \in Tokens |-> NewToken]
  /\ target = [m \in Machines |-> IF m \in declared \cup legacy THEN 1 ELSE NoTarget]
  /\ host = [m \in Machines |->
               IF m \in legacy
               THEN [target |-> 1, secret |-> NoSecret, token |-> token, rebind_open |-> FALSE]
               ELSE NoHost]
  /\ requests = {}
  /\ issued = 1

-----------------------------------------------------------------------------
(* A request in the hands of the server.                                   *)

Stages == {"token", "host", "allowed", "bind", "lookup", "create", "insert", "count",
           "load", "record", "answered"}

Verdicts == {"none", "ack", "unauthorized", "forbidden", "rejected", "internal"}

\* Numbers tell apart a batch and the same batch sent again.
FreeNumbers == {n \in 1..(Cardinality(requests) + 1) : \A r \in requests : r.no # n}

NewRequest(no, from, m, token, batch, secret, supported) ==
  [ no |-> no, from |-> from, machine |-> m, token |-> token, batch |-> batch, secret |-> secret,
    supported |-> supported, stage |-> "token", target |-> NoTarget,
    enrols |-> FALSE, issued |-> NoSecret, verdict |-> "none", awaited |-> TRUE ]

Becomes(r, new) == requests' = (requests \ {r}) \cup {new}

Goes(r, stage) == Becomes(r, [r EXCEPT !.stage = stage])

\* The handler ends; its answer goes nowhere when the agent no longer waits.
Answer(r, verdict) ==
  requests' = (requests \ {r}) \cup
              {q \in {[r EXCEPT !.stage = "answered", !.verdict = verdict]} : r.awaited}

At(r, stage) == r \in requests /\ r.stage = stage

\* find_active_token: revoked is all that counts here.
FindActiveToken(r) ==
  /\ At(r, "token")
  /\ IF tokens[r.token].revoked THEN Answer(r, "unauthorized") ELSE Goes(r, "host")
  /\ UNCHANGED <<tokens, target, host, issued>>

Matches(r) ==
  host[r.machine] # NoHost /\ r.secret # NoSecret /\ r.secret = host[r.machine].secret

MayRebind(r) == host[r.machine] # NoHost /\ host[r.machine].rebind_open /\ r.supported

\* The token that let an unbound machine in has counted it already.
Exempt(r) == host[r.machine].secret = NoSecret /\ host[r.machine].token = r.token

\* find_host, then register or claim as far as the next statement.
FindHost(r) ==
  /\ At(r, "host")
  /\ \/ /\ host[r.machine] = NoHost /\ r.supported
        /\ Becomes(r, [r EXCEPT !.stage = "allowed", !.enrols = TRUE])
     \/ /\ Matches(r)
        /\ Becomes(r, [r EXCEPT !.stage = "load", !.target = host[r.machine].target])
     \/ /\ ~Matches(r) /\ MayRebind(r)
        /\ Becomes(r, [r EXCEPT !.stage = IF Exempt(r) THEN "bind" ELSE "allowed",
                                !.target = host[r.machine].target])
     \/ /\ host[r.machine] = NoHost => ~r.supported
        /\ ~Matches(r) /\ ~MayRebind(r)
        /\ Answer(r, "forbidden")
  /\ UNCHANGED <<tokens, target, host, issued>>

Exhausted(t) == t \notin Fleet /\ tokens[t].uses >= MaxUses[t]

CanEnrol(t) == ~tokens[t].expired /\ ~Exhausted(t)

\* enrolment_allowed
CheckEnrolment(r) ==
  /\ At(r, "allowed")
  /\ IF CanEnrol(r.token)
     THEN Goes(r, IF r.enrols THEN "lookup" ELSE "bind")
     ELSE Answer(r, "forbidden")
  /\ UNCHANGED <<tokens, target, host, issued>>

\* A target declared by hand is adopted.
LookUpTarget(r) ==
  /\ At(r, "lookup")
  /\ IF target[r.machine] = NoTarget THEN Goes(r, "create")
     ELSE Becomes(r, [r EXCEPT !.stage = "insert", !.target = target[r.machine]])
  /\ UNCHANGED <<tokens, target, host, issued>>

\* UNIQUE (kind, address): the second of two insertions fails.
CreateTarget(r) ==
  /\ At(r, "create")
  /\ IF target[r.machine] # NoTarget
     THEN Answer(r, "internal") /\ UNCHANGED <<target, issued>>
     ELSE /\ issued' = issued + 1
          /\ target' = [target EXCEPT ![r.machine] = issued + 1]
          /\ Becomes(r, [r EXCEPT !.stage = "insert", !.target = issued + 1])
  /\ UNCHANGED <<tokens, host>>

Inserted(r) ==
  [target |-> r.target, secret |-> issued + 1, token |-> r.token, rebind_open |-> FALSE]

\* Mutant: INSERT OR REPLACE.
InsertHostReplaces(r) ==
  /\ At(r, "insert")
  /\ issued' = issued + 1
  /\ host' = [host EXCEPT ![r.machine] = Inserted(r)]
  /\ Becomes(r, [r EXCEPT !.stage = "count", !.issued = issued + 1])
  /\ UNCHANGED <<tokens, target>>

\* insert_host: the key is unique and refers to a target.
InsertHost(r) ==
  /\ At(r, "insert")
  /\ IF host[r.machine] # NoHost \/ target[r.machine] # r.target
     THEN Answer(r, "internal") /\ UNCHANGED <<host, issued>>
     ELSE /\ issued' = issued + 1
          /\ host' = [host EXCEPT ![r.machine] = Inserted(r)]
          /\ Becomes(r, [r EXCEPT !.stage = "count", !.issued = issued + 1])
  /\ UNCHANGED <<tokens, target>>

\* consume_enrolment
ConsumeEnrolment(r) ==
  /\ At(r, "count")
  /\ tokens' = [tokens EXCEPT ![r.token].uses = @ + 1]
  /\ Goes(r, "load")
  /\ UNCHANGED <<target, host, issued>>

\* bind_host closes the window: it has served.
Bound(r) ==
  [host[r.machine] EXCEPT !.secret = issued + 1, !.token = r.token,
                          !.rebind_open = FALSE]

\* UPDATE ... WHERE target_id = ?: nothing happens when the row is gone.
BindHost(r) ==
  /\ At(r, "bind")
  /\ issued' = issued + 1
  /\ host' = IF host[r.machine].target = r.target
             THEN [host EXCEPT ![r.machine] = Bound(r)] ELSE host
  /\ Becomes(r, [r EXCEPT !.stage = "load", !.issued = issued + 1])
  /\ UNCHANGED <<tokens, target>>

\* A statement fails, or a proxy cuts the request: the handler stops where it is.
HandlerFails(r) ==
  /\ r \in requests /\ r.stage # "answered"
  /\ Answer(r, "internal")
  /\ UNCHANGED <<tokens, target, host, issued>>

\* validate, or a limit in front of the server: the batch is refused as it is.
RejectBatch(r) ==
  /\ At(r, "token")
  /\ Answer(r, "rejected")
  /\ UNCHANGED <<tokens, target, host, issued>>

-----------------------------------------------------------------------------
(* Administrators, and time.                                               *)

RevokeToken(t) ==
  /\ ~tokens[t].revoked
  /\ tokens' = [tokens EXCEPT ![t].revoked = TRUE]
  /\ UNCHANGED <<target, host, requests, issued>>

TokenExpires(t) ==
  /\ ~tokens[t].expired
  /\ tokens' = [tokens EXCEPT ![t].expired = TRUE]
  /\ UNCHANGED <<target, host, requests, issued>>

\* allow_rebind: "Allow re-enrolment" in the interface.
AllowRebind(m) ==
  /\ host[m] # NoHost /\ ~host[m].rebind_open
  /\ host' = [host EXCEPT ![m].rebind_open = TRUE]
  /\ UNCHANGED <<tokens, target, requests, issued>>

\* An hour later.
WindowCloses(m) ==
  /\ host[m] # NoHost /\ host[m].rebind_open
  /\ host' = [host EXCEPT ![m].rebind_open = FALSE]
  /\ UNCHANGED <<tokens, target, requests, issued>>

\* The device is deleted; its row in agent_hosts goes with it.
DeleteTarget(m) ==
  /\ target[m] # NoTarget
  /\ target' = [target EXCEPT ![m] = NoTarget]
  /\ host' = [host EXCEPT ![m] = NoHost]
  /\ UNCHANGED <<tokens, requests, issued>>
=============================================================================
