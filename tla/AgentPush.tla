----------------------------- MODULE AgentPush -----------------------------
(***************************************************************************)
(* The way of a measurement from an agent to VictoriaMetrics: the agent's  *)
(* bounded buffer and its send loop (agent/src/run.rs, buffer.rs,          *)
(* binding.rs, client.rs), the server's handler (Enrolment, receive.rs)    *)
(* and its write task (SampleWriter).                                      *)
(*                                                                         *)
(* The loop of the agent is sequential: while it waits for an answer it    *)
(* does not collect.  Its requests may outlive it: an answer that comes    *)
(* too late is lost, but the server may work through the request all the   *)
(* same.  Two installations of the agent may present the same identity key *)
(* (a cloned machine): they differ by their secrets.                       *)
(***************************************************************************)
EXTENDS Enrolment, SampleWriter

CONSTANTS
  Capacity,      \* max_buffered_samples
  MaxBatch,      \* MAX_BATCH_SAMPLES
  Agents,        \* installations of the agent
  KeyOf,         \* [Agents -> Machines]: the identity key each presents
  TokenOf,       \* [Agents -> Tokens]: the token in its configuration
  Scenarios      \* what exists at first, and the bounds of each behaviour

\* declared, legacy and token describe the tables (EnrolmentInit); outdated agents cannot be
\* bound until they are upgraded; samples bounds what each agent collects, mishaps the faults
\* and the interventions of administrators, all kinds together.
Scenario ==
  [ installed : SUBSET Agents, outdated : SUBSET Agents, declared : SUBSET Machines,
    legacy : SUBSET Machines, token : Tokens, samples : Nat, mishaps : Nat ]

MaxSamples ==
  CHOOSE n \in {s.samples : s \in Scenarios} : \A s \in Scenarios : s.samples <= n

ASSUME PushAssumption ==
  /\ Capacity \in Nat /\ MaxBatch \in Nat \ {0}
  /\ KeyOf \in [Agents -> Machines] /\ TokenOf \in [Agents -> Tokens]
  /\ Scenarios \subseteq Scenario

VARIABLES
  scenario,    \* the one this behaviour began with
  agent,       \* the state of each
  lost,        \* observer: the samples given up, by cause
  speakers,    \* observer: per machine, whose samples were taken as its own
  upset,       \* observer: machines whose binding something interfered with
  reopened,    \* observer: machines an administrator opened a window for, or deleted
  left         \* remaining mishaps

pushVars == <<scenario, agent, lost, speakers, upset, reopened, left>>

vars == <<enrolmentVars, writerVars, pushVars>>

\* Sample n of agent a: samples are numbered as they are collected.
Sample == Agents \X Nat

NewAgent(supported) ==
  [ buffer |-> <<>>, batch |-> <<>>, secret |-> NoSecret, file |-> NoSecret,
    supported |-> supported, collected |-> 0 ]

Causes == {"overflow", "rejected", "filtered", "stopped", "crashed"}

Init ==
  /\ scenario \in Scenarios
  /\ EnrolmentInit(scenario.declared, scenario.legacy, scenario.token) /\ WriterInit
  /\ agent = [a \in Agents |-> NewAgent(a \notin scenario.outdated)]
  /\ lost = [c \in Causes |-> {}]
  /\ speakers = [m \in Machines |-> {}]
  /\ upset = {} /\ reopened = {}
  /\ left = scenario.mishaps

Mishap == left > 0 /\ left' = left - 1

Sending(a) == agent[a].batch # <<>>

Interferes(m) == upset' = upset \cup {m}

Loses(cause, S) == lost' = [lost EXCEPT ![cause] = @ \cup S]

-----------------------------------------------------------------------------
(* The buffer.                                                             *)

Limit == IF Capacity > 1 THEN Capacity ELSE 1

Overflow(s) == IF Len(s) > Limit THEN Len(s) - Limit ELSE 0

\* enforce_capacity: the oldest samples go.
EnforceCapacity(s) == SubSeq(s, Overflow(s) + 1, Len(s))

Take(s) == IF Len(s) < MaxBatch THEN Len(s) ELSE MaxBatch

\* Mutant: a failed batch is put behind the newer samples.
RestoreBehind(a) == EnforceCapacity(a.buffer \o a.batch)

\* restore: the failed batch goes back in front.
Restore(a) == EnforceCapacity(a.batch \o a.buffer)

-----------------------------------------------------------------------------
(* The agent.                                                              *)

\* A collection cycle, and PendingBuffer::push.
Collect(a) ==
  /\ a \in scenario.installed /\ ~Sending(a) /\ agent[a].collected < scenario.samples
  /\ LET n == agent[a].collected + 1
         s == Append(agent[a].buffer, <<a, n>>)
     IN /\ agent' = [agent EXCEPT ![a].buffer = EnforceCapacity(s), ![a].collected = n]
        /\ Loses("overflow", Range(s) \ Range(EnforceCapacity(s)))
  /\ UNCHANGED <<enrolmentVars, writerVars, scenario, speakers, upset, reopened, left>>

\* flush, as far as client.send: the oldest samples leave with the secret of the moment.
Send(a) ==
  /\ ~Sending(a) /\ agent[a].buffer # <<>>
  /\ LET buffer == agent[a].buffer
         k == Take(buffer)
         batch == SubSeq(buffer, 1, k)
     IN /\ agent' = [agent EXCEPT ![a].batch = batch,
                                  ![a].buffer = SubSeq(buffer, k + 1, Len(buffer))]
        /\ \E no \in FreeNumbers :
             /\ \A n \in FreeNumbers : no <= n
             /\ requests' = requests \cup
                  {NewRequest(no, a, KeyOf[a], TokenOf[a], batch, agent[a].secret,
                              agent[a].supported)}
  /\ UNCHANGED <<tokens, target, host, issued, writerVars, scenario, lost, speakers, upset,
                 reopened, left>>

Restored(a) == [a EXCEPT !.buffer = Restore(a), !.batch = <<>>]

Sent(a) == [a EXCEPT !.batch = <<>>]

\* Mutant: the secret is kept in memory only.
AdoptVolatile(a, secret, written) == [a EXCEPT !.secret = secret]

\* adopt_binding and Binding::save: a file that cannot be written is only logged.
Adopt(a, secret, written) ==
  [a EXCEPT !.secret = secret, !.file = IF written THEN secret ELSE a.file]

\* on_binding_refused follows this verdict only.
Forgetting == {"forbidden"}

\* Binding::forget: the file is removed with the secret it holds.
Forget(a) == [a EXCEPT !.secret = NoSecret, !.file = NoSecret]

Own(r) == r \in requests /\ r.stage = "answered"

\* flush, from the answer on.
Acknowledged(r) ==
  /\ Own(r) /\ r.verdict = "ack"
  /\ LET a == Sent(agent[r.from])
     IN \/ /\ r.issued = NoSecret
           /\ agent' = [agent EXCEPT ![r.from] = a]
           /\ UNCHANGED <<upset, left>>
        \/ /\ r.issued # NoSecret
           /\ agent' = [agent EXCEPT ![r.from] = Adopt(a, r.issued, TRUE)]
           /\ UNCHANGED <<upset, left>>
        \/ /\ r.issued # NoSecret
           /\ agent' = [agent EXCEPT ![r.from] = Adopt(a, r.issued, FALSE)]
           /\ Interferes(r.machine) /\ Mishap
  /\ requests' = requests \ {r}
  /\ UNCHANGED <<tokens, target, host, issued, writerVars, scenario, lost, speakers, reopened>>

\* Mutant: a batch refused for its secret is not kept.
RetriedNot == {"unauthorized", "internal"}

\* PushError::is_retryable
Retried == {"unauthorized", "forbidden", "internal"}

Refused(r) ==
  /\ Own(r) /\ r.verdict # "ack"
  /\ LET a == agent[r.from]
         b == IF r.verdict \in Retried THEN Restored(a) ELSE Sent(a)
     IN /\ agent' = [agent EXCEPT ![r.from] =
                       IF r.verdict \in Forgetting THEN Forget(b) ELSE b]
        /\ Loses("rejected", IF r.verdict = "rejected" THEN Range(a.batch) ELSE {})
  /\ requests' = requests \ {r}
  /\ UNCHANGED <<tokens, target, host, issued, writerVars, scenario, speakers, upset, reopened,
                 left>>

\* The request of a that nobody waits for any more: the server never gets it, or works on.
Abandon(a) ==
  \E late \in BOOLEAN :
    requests' = {r \in requests : ~(r.from = a /\ r.awaited)} \cup
                {[r EXCEPT !.awaited = FALSE] :
                   r \in {q \in requests : late /\ q.from = a /\ q.awaited
                                                /\ q.stage # "answered"}}

\* The request times out, or its connection breaks.
GiveUp(a) ==
  /\ Sending(a) /\ Mishap /\ Interferes(KeyOf[a])
  /\ agent' = [agent EXCEPT ![a] = Restored(@)]
  /\ Abandon(a)
  /\ UNCHANGED <<tokens, target, host, issued, writerVars, scenario, lost, speakers, reopened>>

\* The agent is stopped or dies, and starts again, perhaps in a newer version; what
\* the last flush did not carry is gone.  It reads its secret from the file.
Restart(a) ==
  /\ a \in scenario.installed /\ Mishap
  /\ upset' = IF Sending(a) THEN upset \cup {KeyOf[a]} ELSE upset
  /\ \E upgraded \in BOOLEAN :
       agent' = [agent EXCEPT ![a].buffer = <<>>, ![a].batch = <<>>, ![a].secret = agent[a].file,
                              ![a].supported = upgraded \/ @]
  /\ Loses("stopped", Range(agent[a].batch) \cup Range(agent[a].buffer))
  /\ Abandon(a)
  /\ UNCHANGED <<tokens, target, host, issued, writerVars, scenario, speakers, reopened>>

-----------------------------------------------------------------------------
(* The server.                                                             *)

\* ingest once the machine is known: the target is read, an unusable sample (too old, too
\* far ahead, not a number), at this place of the batch, is left out, the others are handed
\* to the writer as the machine's.
Deliver(r, unusable) ==
  /\ At(r, "load")
  /\ IF target[r.machine] # r.target
     THEN Answer(r, "internal") /\ UNCHANGED <<writerVars, lost, speakers>>
     ELSE /\ SinkSend(SubSeq(r.batch, 1, unusable - 1)
                     \o SubSeq(r.batch, unusable + 1, Len(r.batch)))
          /\ Loses("filtered", {r.batch[i] : i \in DOMAIN r.batch \cap {unusable}})
          /\ speakers' = [speakers EXCEPT ![r.machine] = @ \cup {r.from}]
          /\ Goes(r, "record")
  /\ UNCHANGED <<tokens, target, host, issued, scenario, agent, upset, reopened>>

\* record_batch, touch_token and record_probe, then the acknowledgement.
RecordBatch(r) ==
  /\ At(r, "record")
  /\ Answer(r, "ack")
  /\ UNCHANGED <<tokens, target, host, issued, writerVars, pushVars>>

Handle(r) ==
  \/ RecordBatch(r)
  \/ Deliver(r, 0) /\ UNCHANGED left
  \/ /\ \/ FindActiveToken(r) \/ FindHost(r) \/ CheckEnrolment(r) \/ LookUpTarget(r)
        \/ CreateTarget(r) \/ InsertHost(r) \/ ConsumeEnrolment(r) \/ BindHost(r)
     /\ UNCHANGED <<writerVars, pushVars>>

Fault(r) ==
  \/ /\ HandlerFails(r) /\ Mishap /\ Interferes(r.machine)
     /\ UNCHANGED <<writerVars, scenario, agent, lost, speakers, reopened>>
  \/ /\ RejectBatch(r) /\ Mishap
     /\ UNCHANGED <<writerVars, scenario, agent, lost, speakers, upset, reopened>>
  \/ \E i \in DOMAIN r.batch : Deliver(r, i) /\ Mishap

\* The server dies and is started again; every agent loses its connection.
Crash ==
  /\ Mishap /\ upset' = Machines
  /\ requests' = {}
  /\ agent' = [a \in Agents |-> Restored(agent[a])]
  /\ Loses("crashed", InWriter)
  /\ WriterDies
  /\ UNCHANGED <<tokens, target, host, issued, scenario, speakers, reopened>>

\* A bound machine whose agent does not hold its secret, or one never bound.
Unrecognised(a) ==
  LET h == host[KeyOf[a]]
  IN h # NoHost /\ (h.secret = NoSecret \/ agent[a].secret # h.secret)

Alone(a) == \A b \in scenario.installed : KeyOf[b] = KeyOf[a] => b = a

\* An administrator answers the refusal of a machine ...
Help(a) ==
  /\ a \in scenario.installed /\ Alone(a) /\ Unrecognised(a)
  /\ AllowRebind(KeyOf[a])
  /\ Interferes(KeyOf[a]) /\ reopened' = reopened \cup {KeyOf[a]}
  /\ UNCHANGED <<writerVars, scenario, agent, lost, speakers, left>>

\* ... and may intervene unasked.
Administer ==
  /\ Mishap
  /\ \/ \E m \in Machines :
          \/ /\ AllowRebind(m) \/ DeleteTarget(m)
             /\ Interferes(m) /\ reopened' = reopened \cup {m}
          \/ WindowCloses(m) /\ UNCHANGED <<upset, reopened>>
     \/ (\E t \in Tokens : RevokeToken(t) \/ TokenExpires(t)) /\ UNCHANGED <<upset, reopened>>
  /\ UNCHANGED <<writerVars, scenario, agent, lost, speakers>>

Writer ==
  /\ WriterReceives \/ WriterTicks \/ WriteSucceeds
  /\ UNCHANGED <<enrolmentVars, pushVars>>

VictoriaFails ==
  /\ WriteFails /\ Mishap
  /\ UNCHANGED <<enrolmentVars, scenario, agent, lost, speakers, upset, reopened>>

Loop(a) ==
  \/ Send(a)
  \/ \E r \in requests : r.from = a /\ (Acknowledged(r) \/ Refused(r))

Next ==
  \/ \E a \in Agents : Collect(a) \/ Loop(a) \/ GiveUp(a) \/ Restart(a) \/ Help(a)
  \/ \E r \in requests : Handle(r) \/ Fault(r)
  \/ Crash \/ Administer \/ Writer \/ VictoriaFails

Spec == Init /\ [][Next]_vars

\* The loop of an agent goes on and retries, handlers end, the write task runs, and an
\* administrator answers a machine that is refused.
FairSpec ==
  /\ Spec
  /\ \A a \in Agents : WF_vars(Loop(a)) /\ WF_vars(Help(a))
  /\ WF_vars(\E r \in requests : Handle(r))
  /\ WF_vars(Writer)

-----------------------------------------------------------------------------
(* Properties.                                                             *)

Request ==
  [ no : Nat, from : Agents, machine : Machines, token : Tokens, batch : Seq(Sample),
    secret : Nat, supported : BOOLEAN, stage : Stages, target : Nat, enrols : BOOLEAN,
    issued : Nat, verdict : Verdicts, awaited : BOOLEAN ]

\* Every variable has its type; an agent waits for exactly one request while it sends and
\* for none otherwise, and only that request is answered.
TypeOK ==
  /\ tokens \in [Tokens -> [uses : Nat, revoked : BOOLEAN, expired : BOOLEAN]]
  /\ target \in [Machines -> Nat]
  /\ host \in [Machines -> Host \cup {NoHost}]
  /\ \A m \in Machines : host[m] # NoHost => host[m].target = target[m]
  /\ requests \subseteq Request
  /\ \A r, q \in requests : r.no = q.no => r = q
  /\ \A r \in requests : r.stage = "answered" => r.awaited
  /\ \A a \in Agents : Sending(a) <=> \E r \in requests : r.from = a /\ r.awaited
  /\ \A r, q \in requests : r.from = q.from /\ r.awaited /\ q.awaited => r = q
  /\ issued \in Nat
  /\ scenario \in Scenarios
  /\ agent \in [Agents -> [buffer : Seq(Sample), batch : Seq(Sample), secret : Nat,
                           file : Nat, supported : BOOLEAN, collected : Nat]]
  /\ channel \in Seq(Seq(Sample)) /\ pending \in Seq(Sample) /\ writing \in BOOLEAN
  /\ stored \subseteq Sample /\ refused \subseteq Sample /\ evicted \subseteq Sample
  /\ lost \in [Causes -> SUBSET Sample]
  /\ speakers \in [Machines -> SUBSET Agents]
  /\ upset \subseteq Machines /\ reopened \subseteq upset /\ left \in Nat

Collected == UNION {{<<a, n>> : n \in 1..agent[a].collected} : a \in Agents}

GivenUp == refused \cup evicted \cup UNION {lost[c] : c \in Causes}

Held == UNION {Range(agent[a].batch) \cup Range(agent[a].buffer) : a \in Agents}

\* Nothing disappears without a trace: a collected sample waits in the agent or in the
\* writer, is stored, or was given up where the code counts or logs it, whatever answers
\* are lost and whoever dies.  "aucune mesure ne doit etre perdue"
NoSilentLoss == Collected \subseteq Held \cup InWriter \cup stored \cup GivenUp

\* What an agent still has to send is in chronological order, the batch in flight first, and
\* fits its buffer, so that a failed batch always finds its place again and a retry loses
\* nothing ("l'ordre chronologique est preserve"); and the memory of the writer stays bounded
\* while VictoriaMetrics is away.
QueuesFit ==
  /\ \A a \in Agents :
       LET s == agent[a].batch \o agent[a].buffer
       IN /\ Len(s) <= Limit
          /\ \A i, j \in DOMAIN s : i < j => s[i][2] < s[j][2]
  /\ ~writing => Len(pending) <= IF MaxBuffered > FlushAt - 1 THEN MaxBuffered ELSE FlushAt - 1

\* The secret a machine is bound to is known to an agent of the machine or on its way to it,
\* as long as nothing interfered: a restart, an overflow, a revoked or expired token, a batch
\* refused for another reason and a second installation never lock a machine out.
BindingHolds ==
  \A m \in Machines :
    /\ host[m] # NoHost /\ host[m].secret # NoSecret /\ m \notin upset
    => \/ \E a \in Agents : KeyOf[a] = m /\ agent[a].secret = host[m].secret
       \/ \E r \in requests : r.machine = m /\ r.awaited /\ r.issued = host[m].secret

\* One installation speaks for a machine: as long as no administrator reopened or deleted
\* it, the samples of a second one with the same key are never taken as the machine's, even
\* if both enrol at the same time or the first one's answers are lost ("ce qui empeche une
\* machine d'ecrire dans les series d'une autre").
OneVoice ==
  \A m \in Machines : m \notin reopened => \A a, b \in speakers[m] : a = b

\* Every sample collected is stored in the end, or given up where somebody can see it, as
\* long as its agent may enrol and is the only one: a machine that lost its secret comes back
\* once an administrator has answered.
EverySampleSettles ==
  \A a \in Agents : \A n \in 1..MaxSamples :
    (agent[a].collected >= n) ~>
      \/ <<a, n>> \in stored \cup GivenUp
      \/ tokens[TokenOf[a]].revoked \/ ~CanEnrol(TokenOf[a])
      \/ ~agent[a].supported \/ ~Alone(a)
=============================================================================
