---------------------------- MODULE BindingProofs ---------------------------
(***************************************************************************)
(* Who speaks for a machine: proofs about the secrets of AgentPush, for    *)
(* every number of agents, machines, tokens and mishaps.  One installation *)
(* of the agent speaks for a machine, and it is not locked out of it.      *)
(***************************************************************************)
EXTENDS AgentPushProofs

-----------------------------------------------------------------------------
(* The inductive invariant.                                                *)

IsBound(h) == h # NoHost /\ h.secret # NoSecret

\* Agent a, of A, holds secret s, or one of its requests in R carries it.
Holds(R, A, a, s) ==
  \/ s = A[a].secret \/ s = A[a].file
  \/ \E r \in R : r.from = a /\ (s = r.secret \/ s = r.issued)

Knows(a, s) == Holds(requests, agent, a, s)

\* A secret is known to the installation it was issued to, and to no other.
Secrets ==
  /\ \A a \in Agents : \A s : Knows(a, s) => s \in Nat /\ s <= issued
  /\ \A a, b \in Agents : \A s : s # NoSecret /\ Knows(a, s) /\ Knows(b, s) => a = b
  /\ \A m \in Machines : IsBound(host[m]) => host[m].secret <= issued

\* A request gets as far as the samples only with the secret of the machine.
VoiceOf(r, h) ==
  /\ r.stage # "bind" /\ (r.stage = "allowed" => r.enrols)
  /\ r.stage \in {"count", "load", "record"} =>
       IsBound(h) /\ (h.secret = r.secret \/ h.secret = r.issued)

\* The one who spoke for the machine is the only one who may know its secret.
Voice(m) ==
  /\ host[m] # NoHost => ~host[m].rebind_open
  /\ \A r \in requests : r.machine = m => VoiceOf(r, host[m])
  /\ \A a \in speakers[m] :
       IsBound(host[m]) /\ \A b \in Agents : Knows(b, host[m].secret) => b = a
  /\ \A a, b \in speakers[m] : a = b

\* The request of an agent in state x, for a machine with row h and target t.
BondOf(r, h, t, x) ==
  /\ r.awaited /\ r.secret = x.secret
  /\ r.issued # NoSecret =>
       /\ IsBound(h) /\ r.issued = h.secret /\ r.target = t
       /\ \/ r.stage \in {"count", "load", "record"}
          \/ r.stage = "answered" /\ r.verdict = "ack"
  /\ r.secret # NoSecret =>
       \/ r.stage \in {"token", "host", "load", "record"}
       \/ r.stage = "answered" /\ r.verdict # "forbidden"

\* The secret of the machine is in the hands of an agent, or on its way.
Reaches(m) ==
  \/ \E a \in Agents : KeyOf[a] = m /\ agent[a].secret = host[m].secret
  \/ \E r \in requests : r.machine = m /\ r.awaited /\ r.issued = host[m].secret

\* Nothing interfered with the machine.
Bond(m) ==
  /\ \A a \in Agents : KeyOf[a] = m =>
       /\ agent[a].secret = agent[a].file
       /\ agent[a].secret # NoSecret => IsBound(host[m]) /\ agent[a].secret = host[m].secret
  /\ \A r \in requests : r.machine = m => BondOf(r, host[m], target[m], agent[r.from])
  /\ IsBound(host[m]) => Reaches(m)

BInv ==
  /\ Secrets
  /\ \A m \in Machines : (m \notin reopened => Voice(m)) /\ (m \notin upset => Bond(m))

-----------------------------------------------------------------------------
(* How secrets spread.                                                     *)

\* A step after which nobody knows more than before, but for agent c, to which
\* a secret has just been issued.
Learns(c) ==
  /\ issued' \in Nat /\ issued <= issued'
  /\ \A b \in Agents : \A s : Holds(requests', agent', b, s) =>
       \/ Holds(requests, agent, b, s) \/ s = NoSecret
       \/ s = issued' /\ issued < issued' /\ b = c

LEMMA SecretsStep ==
  ASSUME Secrets, issued \in Nat, NEW c, Learns(c),
         \A m \in Machines : IsBound(host'[m]) =>
            host'[m].secret = issued' \/ (IsBound(host[m]) /\ host'[m].secret = host[m].secret),
         \A m \in Machines : IsBound(host[m]) => host[m].secret \in Nat
  PROVE  Secrets'
<1>1. issued' \in Nat /\ issued <= issued'
  BY DEF Learns
<1>2. ASSUME NEW a \in Agents, NEW s, Holds(requests', agent', a, s)
      PROVE  s \in Nat /\ s <= issued'
  <2>1. CASE Holds(requests, agent, a, s)
    <3>1. s \in Nat /\ s <= issued
      BY <2>1 DEF Secrets, Knows
    <3> QED
      BY <1>1, <3>1
  <2>2. CASE s = NoSecret \/ s = issued'
    BY <1>1, <2>2 DEF NoSecret
  <2> QED
    BY <1>2, <2>1, <2>2 DEF Learns
<1>3. ASSUME NEW a \in Agents, NEW b \in Agents, NEW s, s # NoSecret,
             Holds(requests', agent', a, s), Holds(requests', agent', b, s)
      PROVE  a = b
  <2>1. /\ Holds(requests, agent, a, s) \/ (s = issued' /\ issued < issued' /\ a = c)
        /\ Holds(requests, agent, b, s) \/ (s = issued' /\ issued < issued' /\ b = c)
    BY <1>3 DEF Learns
  <2>2. CASE s = issued' /\ issued < issued'
    <3>1. ~(s <= issued)
      BY <1>1, <2>2
    <3>2. ~Holds(requests, agent, a, s) /\ ~Holds(requests, agent, b, s)
      BY <3>1 DEF Secrets, Knows
    <3> QED
      BY <2>1, <3>2
  <2>3. CASE ~(s = issued' /\ issued < issued')
    BY <1>3, <2>1, <2>3 DEF Secrets, Knows
  <2> QED
    BY <2>2, <2>3
<1>4. ASSUME NEW m \in Machines, IsBound(host'[m])
      PROVE  host'[m].secret <= issued'
  <2>1. CASE host'[m].secret = issued'
    BY <1>1, <2>1
  <2>2. CASE IsBound(host[m]) /\ host'[m].secret = host[m].secret
    <3>1. host[m].secret \in Nat /\ host[m].secret <= issued
      BY <2>2 DEF Secrets
    <3> QED
      BY <1>1, <2>2, <3>1
  <2> QED
    BY <1>4, <2>1, <2>2
<1> QED
  BY <1>2, <1>3, <1>4 DEF Secrets, Knows, IsBound

\* The secret of a machine is learnt by nobody after it was issued.
LEMMA KnownBefore ==
  ASSUME Secrets, issued \in Nat, NEW c, Learns(c), NEW s \in Nat, s # NoSecret, s <= issued,
         NEW b \in Agents, Holds(requests', agent', b, s)
  PROVE  Holds(requests, agent, b, s)
  BY DEF Learns

-----------------------------------------------------------------------------
(* What a step leaves alone.                                               *)

LEMMA VoiceKept ==
  ASSUME Tables, Secrets, NEW c, Learns(c), NEW m \in Machines, Voice(m),
         host'[m] = host[m], speakers'[m] = speakers[m],
         \A r \in requests' : r.machine = m => VoiceOf(r, host[m])
  PROVE  Voice(m)'
<1>1. IsBound(host[m]) => host[m].secret \in Nat /\ host[m].secret <= issued
  BY HostRow DEF IsBound, Secrets, Host
<1>2. ASSUME NEW a \in speakers[m], NEW b \in Agents,
             Holds(requests', agent', b, host[m].secret)
      PROVE  IsBound(host[m]) /\ b = a
  <2>1. IsBound(host[m]) /\ issued \in Nat
    BY DEF Voice, Tables
  <2>2. host[m].secret # NoSecret
    BY <2>1 DEF IsBound
  <2>3. Holds(requests, agent, b, host[m].secret)
    BY <1>1, <1>2, <2>1, <2>2, KnownBefore
  <2> QED
    BY <2>1, <2>3 DEF Voice, Knows
<1>3. \A a \in speakers[m] : IsBound(host[m])
  BY DEF Voice
<1> QED
  BY <1>2, <1>3 DEF Voice, VoiceOf, IsBound, Knows

LEMMA BondKept ==
  ASSUME ExchangeOf(requests', agent'), NEW m \in Machines, Bond(m), host'[m] = host[m],
         target'[m] = target[m] \/ ~IsBound(host[m]),
         \A a \in Agents : KeyOf[a] = m =>
            agent'[a].secret = agent[a].secret /\ agent'[a].file = agent[a].file,
         \A r \in requests' : r.machine = m => BondOf(r, host[m], target[m], agent[r.from]),
         \A r \in requests : r.machine = m /\ r.awaited /\ r.issued # NoSecret =>
            \E q \in requests' : q.machine = m /\ q.awaited /\ q.issued = r.issued
  PROVE  Bond(m)'
<1>1. ASSUME NEW r \in requests', r.machine = m
      PROVE  BondOf(r, host'[m], target'[m], agent'[r.from])
  <2>1. BondOf(r, host[m], target[m], agent[r.from])
    BY <1>1
  <2>2. r.from \in Agents /\ KeyOf[r.from] = m
    BY <1>1, RequestFields DEF ExchangeOf, Valid
  <2>3. agent'[r.from].secret = agent[r.from].secret
    BY <2>2
  <2> QED
    BY <2>1, <2>3 DEF BondOf
<1>2. ASSUME IsBound(host[m])
      PROVE  \/ \E a \in Agents : KeyOf[a] = m /\ agent'[a].secret = host[m].secret
             \/ \E r \in requests' : r.machine = m /\ r.awaited /\ r.issued = host[m].secret
  <2>1. Reaches(m) /\ host[m].secret # NoSecret
    BY <1>2 DEF Bond, IsBound
  <2> QED
    BY <2>1 DEF Reaches
<1>3. ASSUME NEW a \in Agents, KeyOf[a] = m
      PROVE  /\ agent'[a].secret = agent'[a].file
             /\ agent'[a].secret # NoSecret => IsBound(host[m]) /\ agent'[a].secret = host[m].secret
  BY <1>3 DEF Bond
<1> QED
  BY <1>1, <1>2, <1>3 DEF Bond, BondOf, IsBound, Reaches

\* The requests after a step on r: it went on as new, or ended.
Changed(r, new) ==
  /\ Same(r, new) /\ new.awaited = r.awaited
  /\ requests' = (requests \ {r}) \cup {new}

Ended(r) == ~r.awaited /\ requests' = requests \ {r}

LEMMA StepLearns ==
  ASSUME NEW r \in requests, agent' = agent, issued \in Nat, issued' \in Nat, issued <= issued',
         \/ Ended(r)
         \/ \E new : Changed(r, new)
                     /\ (new.issued = r.issued \/ (new.issued = issued' /\ issued < issued'))
  PROVE  Learns(r.from)
<1>1. ASSUME NEW b \in Agents, NEW s, Holds(requests', agent', b, s)
      PROVE  \/ Holds(requests, agent, b, s)
             \/ s = issued' /\ issued < issued' /\ b = r.from
  <2>1. CASE s = agent[b].secret \/ s = agent[b].file
    BY <2>1 DEF Holds
  <2>2. ASSUME NEW q \in requests', q.from = b, s = q.secret \/ s = q.issued
        PROVE  \/ Holds(requests, agent, b, s)
               \/ s = issued' /\ issued < issued' /\ b = r.from
    <3>1. CASE q \in requests
      BY <2>2, <3>1 DEF Holds
    <3>2. CASE q \notin requests
      <4>1. /\ q.from = r.from /\ q.secret = r.secret
            /\ q.issued = r.issued \/ (q.issued = issued' /\ issued < issued')
        BY <3>2 DEF Ended, Changed, Same
      <4> QED
        BY <2>2, <4>1 DEF Holds
    <3> QED
      BY <3>1, <3>2
  <2> QED
    BY <1>1, <2>1, <2>2 DEF Holds
<1> QED
  BY <1>1 DEF Learns

\* The machines that r is not about.
LEMMA OtherMachines ==
  ASSUME IInv, BInv, ExchangeOf(requests', agent'), NEW r \in requests, agent' = agent,
         Ended(r) \/ \E new : Changed(r, new), Learns(r.from),
         reopened \subseteq reopened', upset \subseteq upset',
         NEW m \in Machines, m # r.machine,
         host'[m] = host[m], target'[m] = target[m], speakers'[m] = speakers[m]
  PROVE  (m \notin reopened' => Voice(m)') /\ (m \notin upset' => Bond(m)')
<1>1. \A q \in requests' : q.machine = m => q \in requests
  BY DEF Ended, Changed, Same
<1>2. \A q \in requests : q.machine = m => q \in requests'
  BY DEF Ended, Changed
<1>3. ASSUME m \notin reopened'
      PROVE  Voice(m)'
  <2>1. Voice(m) /\ Tables /\ Secrets
    BY <1>3 DEF BInv, IInv
  <2>2. \A q \in requests' : q.machine = m => VoiceOf(q, host[m])
    BY <1>1, <2>1 DEF Voice
  <2> QED
    BY <2>1, <2>2, VoiceKept
<1>4. ASSUME m \notin upset'
      PROVE  Bond(m)'
  <2>1. Bond(m)
    BY <1>4 DEF BInv
  <2>2. \A q \in requests' : q.machine = m => BondOf(q, host[m], target[m], agent[q.from])
    BY <1>1, <2>1 DEF Bond
  <2> QED
    BY <1>2, <2>1, <2>2, BondKept
<1> QED
  BY <1>3, <1>4

LEMMA BondChanged ==
  ASSUME ExchangeOf(requests', agent'), NEW r \in requests, NEW k \in Machines, k = r.machine,
         Bond(k), r.awaited, agent' = agent, host'[k] = host[k],
         target'[k] = target[k] \/ ~IsBound(host[k]),
         NEW new, Changed(r, new), new.issued = r.issued,
         BondOf(new, host[k], target[k], agent[r.from])
  PROVE  Bond(k)'
<1>1. /\ requests' = (requests \ {r}) \cup {new} /\ new.machine = k /\ new.awaited
      /\ new.from = r.from
  BY DEF Changed, Same
<1>2. \A q \in requests' : q.machine = k => BondOf(q, host[k], target[k], agent[q.from])
  BY <1>1 DEF Bond
<1>3. \A q \in requests : q.machine = k /\ q.awaited /\ q.issued # NoSecret =>
         \E p \in requests' : p.machine = k /\ p.awaited /\ p.issued = q.issued
  BY <1>1
<1> QED
  BY <1>2, <1>3, BondKept

\* A step on r that leaves the hosts and the agents alone.
LEMMA PlainStep ==
  ASSUME IInv, IInv', BInv, NEW r \in requests,
         UNCHANGED <<agent, host, speakers, reopened>>, upset \subseteq upset',
         issued <= issued',
         \A m \in Machines : target'[m] = target[m] \/ (m = r.machine /\ ~IsBound(host[m])),
         \/ Ended(r)
         \/ \E new : /\ Changed(r, new) /\ new.issued = r.issued
                     /\ r.machine \notin reopened => VoiceOf(new, host[r.machine])
                     /\ r.machine \notin upset' =>
                          BondOf(new, host[r.machine], target[r.machine], agent[r.from])
  PROVE  BInv'
<1>1. /\ r.machine \in Machines /\ issued \in Nat /\ issued' \in Nat /\ Tables /\ Secrets
      /\ ExchangeOf(requests', agent') /\ Valid(r)
  BY RequestFields DEF IInv, ExchangeOf, Tables, BInv
<1>2. Learns(r.from)
  BY <1>1, StepLearns
<1>3. Secrets'
  <2>1. \A m \in Machines : IsBound(host[m]) => host[m].secret \in Nat
    BY <1>1, HostRow DEF IsBound, Host
  <2> QED
    BY <1>1, <1>2, <2>1, SecretsStep
<1>4. ASSUME NEW m \in Machines, m # r.machine
      PROVE  (m \notin reopened' => Voice(m)') /\ (m \notin upset' => Bond(m)')
  BY <1>1, <1>2, <1>4, OtherMachines
<1> DEFINE k == r.machine
<1>5. ASSUME k \notin reopened'
      PROVE  Voice(k)'
  <2>1. Voice(k)
    BY <1>1, <1>5 DEF BInv
  <2>2. \A q \in requests' : q.machine = k => VoiceOf(q, host[k])
    BY <1>5, <2>1 DEF Voice, Ended, Changed
  <2> QED
    BY <1>1, <1>2, <2>1, <2>2, VoiceKept
<1>6. ASSUME k \notin upset'
      PROVE  Bond(k)'
  <2>1. Bond(k)
    BY <1>1, <1>6 DEF BInv
  <2>2. r.awaited
    BY <2>1 DEF Bond, BondOf
  <2>3. PICK new : /\ Changed(r, new) /\ new.issued = r.issued
                   /\ BondOf(new, host[k], target[k], agent[r.from])
    BY <1>6, <2>2 DEF Ended
  <2> QED
    BY <1>1, <2>1, <2>2, <2>3, BondChanged
<1> QED
  BY <1>3, <1>4, <1>5, <1>6 DEF BInv

-----------------------------------------------------------------------------
(* The statements of the server.                                           *)

LEMMA OfRequest ==
  ASSUME IInv, BInv, NEW r \in requests
  PROVE  /\ Valid(r) /\ r.machine \in Machines /\ r.from \in Agents /\ KeyOf[r.from] = r.machine
         /\ r.machine \in reopened => r.machine \in upset
         /\ r.machine \notin reopened =>
              /\ Voice(r.machine) /\ VoiceOf(r, host[r.machine])
              /\ host[r.machine] # NoHost => ~host[r.machine].rebind_open
         /\ r.machine \notin upset =>
              /\ Bond(r.machine)
              /\ BondOf(r, host[r.machine], target[r.machine], agent[r.from])
              /\ r.secret # NoSecret =>
                   IsBound(host[r.machine]) /\ r.secret = host[r.machine].secret
<1>1. /\ Valid(r) /\ r.machine \in Machines /\ r.from \in Agents /\ KeyOf[r.from] = r.machine
      /\ r.machine \in reopened => r.machine \in upset
  BY RequestFields DEF IInv, ExchangeOf, Valid, Observers
<1>2. ASSUME r.machine \notin reopened
      PROVE  /\ Voice(r.machine) /\ VoiceOf(r, host[r.machine])
             /\ host[r.machine] # NoHost => ~host[r.machine].rebind_open
  BY <1>1, <1>2 DEF BInv, Voice
<1>3. ASSUME r.machine \notin upset
      PROVE  /\ Bond(r.machine)
             /\ BondOf(r, host[r.machine], target[r.machine], agent[r.from])
             /\ r.secret # NoSecret =>
                  IsBound(host[r.machine]) /\ r.secret = host[r.machine].secret
  <2>1. Bond(r.machine)
    BY <1>1, <1>3 DEF BInv
  <2>2. BondOf(r, host[r.machine], target[r.machine], agent[r.from])
    BY <2>1 DEF Bond
  <2>3. r.secret = agent[r.from].secret
    BY <2>2 DEF BondOf
  <2> QED
    BY <1>1, <2>1, <2>2, <2>3 DEF Bond
<1> QED
  BY <1>1, <1>2, <1>3

LEMMA GoesChanged ==
  ASSUME NEW r \in requests, Valid(r), NEW stage \in Stages, Goes(r, stage)
  PROVE  \E new : /\ Changed(r, new) /\ new.stage = stage /\ new.target = r.target
                  /\ new.enrols = r.enrols /\ new.issued = r.issued
<1> DEFINE new == [r EXCEPT !.stage = stage]
<1>1. /\ Same(r, new) /\ new.stage = stage /\ new.target = r.target
      /\ new.enrols = r.enrols /\ new.issued = r.issued /\ new.awaited = r.awaited
  BY DEF Valid, Same, Request
<1>2. requests' = (requests \ {r}) \cup {new}
  BY DEF Goes, Becomes
<1> HIDE DEF new
<1> QED
  BY <1>1, <1>2 DEF Changed

WithEnrols(r, stage) == [r EXCEPT !.stage = stage, !.enrols = TRUE]

LEMMA EnrolsChanged ==
  ASSUME NEW r \in requests, Valid(r), NEW stage \in Stages,
         Becomes(r, WithEnrols(r, stage))
  PROVE  \E new : /\ Changed(r, new) /\ new.stage = stage /\ new.target = r.target
                  /\ new.enrols = TRUE /\ new.issued = r.issued
<1> DEFINE new == WithEnrols(r, stage)
<1>1. /\ Same(r, new) /\ new.stage = stage /\ new.target = r.target
      /\ new.enrols = TRUE /\ new.issued = r.issued /\ new.awaited = r.awaited
  BY DEF Valid, Same, Request, WithEnrols
<1>2. requests' = (requests \ {r}) \cup {new}
  BY DEF Becomes
<1> HIDE DEF new
<1> QED
  BY <1>1, <1>2 DEF Changed

WithTarget(r, stage, t) == [r EXCEPT !.stage = stage, !.target = t]

LEMMA TargetChanged ==
  ASSUME NEW r \in requests, Valid(r), NEW stage \in Stages, NEW t \in Nat,
         Becomes(r, WithTarget(r, stage, t))
  PROVE  \E new : /\ Changed(r, new) /\ new.stage = stage /\ new.target = t
                  /\ new.enrols = r.enrols /\ new.issued = r.issued
<1> DEFINE new == WithTarget(r, stage, t)
<1>1. /\ Same(r, new) /\ new.stage = stage /\ new.target = t
      /\ new.enrols = r.enrols /\ new.issued = r.issued /\ new.awaited = r.awaited
  BY DEF Valid, Same, Request, WithTarget
<1>2. requests' = (requests \ {r}) \cup {new}
  BY DEF Becomes
<1> HIDE DEF new
<1> QED
  BY <1>1, <1>2 DEF Changed

WithSecret(r, stage, s) == [r EXCEPT !.stage = stage, !.issued = s]

LEMMA SecretChanged ==
  ASSUME NEW r \in requests, Valid(r), NEW stage \in Stages, NEW s \in Nat,
         Becomes(r, WithSecret(r, stage, s))
  PROVE  \E new : /\ Changed(r, new) /\ new.stage = stage /\ new.target = r.target
                  /\ new.enrols = r.enrols /\ new.issued = s
<1> DEFINE new == WithSecret(r, stage, s)
<1>1. /\ Same(r, new) /\ new.stage = stage /\ new.target = r.target
      /\ new.enrols = r.enrols /\ new.issued = s /\ new.awaited = r.awaited
  BY DEF Valid, Same, Request, WithSecret
<1>2. requests' = (requests \ {r}) \cup {new}
  BY DEF Becomes
<1> HIDE DEF new
<1> QED
  BY <1>1, <1>2 DEF Changed

LEMMA AnswerChanged ==
  ASSUME NEW r \in requests, Valid(r), NEW v \in Verdicts \ {"none"}, Answer(r, v)
  PROVE  \/ Ended(r)
         \/ \E new : /\ Changed(r, new) /\ new.stage = "answered" /\ new.verdict = v
                     /\ new.issued = r.issued /\ new.target = r.target
  BY Answered DEF Ended, Changed, Moves

\* A request without a secret of its own may be answered anyhow.
LEMMA BondAnswered ==
  ASSUME NEW r, NEW new, NEW h, NEW t, NEW x, BondOf(r, h, t, x), Same(r, new),
         new.awaited = r.awaited, new.stage = "answered", new.issued = r.issued,
         r.issued = NoSecret, r.secret = NoSecret \/ new.verdict # "forbidden"
  PROVE  BondOf(new, h, t, x)
  BY DEF BondOf, Same

\* An answer that leaves the tables alone.
LEMMA AnswerStep ==
  ASSUME IInv, IInv', BInv, NEW r \in requests, NEW v \in Verdicts \ {"none", "ack"},
         Answer(r, v), UNCHANGED <<agent, host, target, issued, speakers, reopened>>,
         upset \subseteq upset',
         r.machine \notin upset' =>
            r.issued = NoSecret /\ (r.secret = NoSecret \/ v # "forbidden")
  PROVE  BInv'
<1>1. Valid(r) /\ issued <= issued'
  BY OfRequest DEF IInv, Tables
<1>2. CASE Ended(r)
  BY <1>1, <1>2, PlainStep
<1>3. ASSUME NEW new, Changed(r, new), new.stage = "answered", new.verdict = v,
             new.issued = r.issued
      PROVE  BInv'
  <2>1. VoiceOf(new, host[r.machine])
    BY <1>3 DEF VoiceOf
  <2>2. ASSUME r.machine \notin upset'
        PROVE  BondOf(new, host[r.machine], target[r.machine], agent[r.from])
    <3>1. BondOf(r, host[r.machine], target[r.machine], agent[r.from])
      BY <2>2, OfRequest
    <3> QED
      BY <1>3, <2>2, <3>1, BondAnswered DEF Changed
  <2> QED
    BY <1>1, <1>3, <2>1, <2>2, PlainStep
<1> QED
  BY <1>1, <1>2, <1>3, AnswerChanged

LEMMA FindActiveTokenBinds ==
  ASSUME IInv, IInv', BInv, NEW r \in requests, FindActiveToken(r),
         UNCHANGED <<agent, speakers, reopened, upset>>
  PROVE  BInv'
<1>1. Valid(r) /\ r.stage = "token" /\ UNCHANGED <<target, host, issued>> /\ issued <= issued'
  BY OfRequest DEF FindActiveToken, At, IInv, Tables
<1>2. r.machine \notin upset => r.issued = NoSecret
  BY <1>1, OfRequest DEF BondOf
<1>3. CASE Answer(r, "unauthorized")
  BY <1>1, <1>2, <1>3, AnswerStep DEF Verdicts
<1>4. CASE Goes(r, "host")
  <2>1. PICK new : Changed(r, new) /\ new.stage = "host" /\ new.issued = r.issued
    BY <1>1, <1>4, GoesChanged DEF Stages
  <2>2. VoiceOf(new, host[r.machine])
    BY <2>1 DEF VoiceOf
  <2>3. r.machine \notin upset' =>
          BondOf(new, host[r.machine], target[r.machine], agent[r.from])
    BY <1>2, <2>1, OfRequest DEF BondOf, Changed, Same
  <2> QED
    BY <1>1, <2>1, <2>2, <2>3, PlainStep
<1> QED
  BY <1>3, <1>4 DEF FindActiveToken

LEMMA FindHostBinds ==
  ASSUME IInv, IInv', BInv, NEW r \in requests, FindHost(r),
         UNCHANGED <<agent, speakers, reopened, upset>>
  PROVE  BInv'
<1> DEFINE h == host[r.machine]
<1>1. Valid(r) /\ r.stage = "host" /\ UNCHANGED <<target, host, issued>> /\ issued <= issued'
  BY OfRequest DEF FindHost, At, IInv, Tables
<1>2. r.machine \notin upset => r.issued = NoSecret
  BY <1>1, OfRequest DEF BondOf
<1>3. r.machine \notin upset /\ r.secret # NoSecret => Matches(r)
  BY OfRequest DEF Matches, IsBound
<1>4. h.target \in Nat
  BY OfRequest, HostRow DEF IInv
<1>5. CASE /\ h = NoHost /\ r.supported
           /\ Becomes(r, [r EXCEPT !.stage = "allowed", !.enrols = TRUE])
  <2>1. PICK new : /\ Changed(r, new) /\ new.stage = "allowed" /\ new.enrols = TRUE
                   /\ new.issued = r.issued
    <3>1. "allowed" \in Stages /\ Becomes(r, WithEnrols(r, "allowed"))
      BY <1>5 DEF Stages, WithEnrols
    <3> QED
      BY <1>1, <3>1, EnrolsChanged
  <2>2. VoiceOf(new, h)
    BY <2>1 DEF VoiceOf
  <2>3. r.machine \notin upset => r.secret = NoSecret
    BY <1>3, <1>5 DEF Matches
  <2>4. r.machine \notin upset' => BondOf(new, h, target[r.machine], agent[r.from])
    BY <1>2, <2>1, <2>3, OfRequest DEF BondOf, Changed, Same
  <2> QED
    BY <1>1, <2>1, <2>2, <2>4, PlainStep
<1>6. CASE Matches(r) /\ Becomes(r, [r EXCEPT !.stage = "load", !.target = h.target])
  <2>1. PICK new : Changed(r, new) /\ new.stage = "load" /\ new.issued = r.issued
    <3>1. "load" \in Stages /\ Becomes(r, WithTarget(r, "load", h.target))
      BY <1>6 DEF Stages, WithTarget
    <3> QED
      BY <1>1, <1>4, <3>1, TargetChanged
  <2>2. VoiceOf(new, h)
    BY <1>6, <2>1 DEF VoiceOf, Matches, IsBound, Changed, Same
  <2>3. r.machine \notin upset' => BondOf(new, h, target[r.machine], agent[r.from])
    BY <1>2, <2>1, OfRequest DEF BondOf, Changed, Same
  <2> QED
    BY <1>1, <2>1, <2>2, <2>3, PlainStep
<1>7. CASE /\ MayRebind(r)
           /\ Becomes(r, [r EXCEPT !.stage = IF Exempt(r) THEN "bind" ELSE "allowed",
                                   !.target = h.target])
  <2> DEFINE stage == IF Exempt(r) THEN "bind" ELSE "allowed"
  <2>1. stage \in Stages
    BY DEF Stages
  <2>2. Becomes(r, WithTarget(r, stage, h.target))
    BY <1>7 DEF WithTarget
  <2> HIDE DEF stage
  <2>3. PICK new : Changed(r, new) /\ new.issued = r.issued
    BY <1>1, <1>4, <2>1, <2>2, TargetChanged
  <2>4. r.machine \in reopened /\ r.machine \in upset
    BY <1>7, OfRequest DEF MayRebind
  <2> QED
    BY <1>1, <2>3, <2>4, PlainStep
<1>8. CASE ~Matches(r) /\ Answer(r, "forbidden")
  BY <1>1, <1>2, <1>3, <1>8, AnswerStep DEF Verdicts
<1> QED
  BY <1>5, <1>6, <1>7, <1>8 DEF FindHost

\* A request that enrols has no secret yet.
LEMMA Secretless ==
  ASSUME IInv, BInv, NEW r \in requests, r.machine \notin upset,
         r.stage \in {"allowed", "lookup", "create", "insert"}
  PROVE  r.secret = NoSecret /\ r.issued = NoSecret
  BY OfRequest DEF BondOf

LEMMA CheckEnrolmentBinds ==
  ASSUME IInv, IInv', BInv, NEW r \in requests, CheckEnrolment(r),
         UNCHANGED <<agent, speakers, reopened, upset>>
  PROVE  BInv'
<1>1. Valid(r) /\ r.stage = "allowed" /\ UNCHANGED <<target, host, issued>> /\ issued <= issued'
  BY OfRequest DEF CheckEnrolment, At, IInv, Tables
<1>2. r.machine \notin upset => r.secret = NoSecret /\ r.issued = NoSecret
  BY <1>1, Secretless
<1>3. CASE Answer(r, "forbidden")
  BY <1>1, <1>2, <1>3, AnswerStep DEF Verdicts
<1>4. CASE Goes(r, IF r.enrols THEN "lookup" ELSE "bind")
  <2> DEFINE stage == IF r.enrols THEN "lookup" ELSE "bind"
  <2>1. stage \in Stages /\ stage \in {"lookup", "bind"} /\ (stage = "bind" => ~r.enrols)
    BY DEF Stages
  <2>2. Goes(r, stage)
    BY <1>4
  <2> HIDE DEF stage
  <2>3. PICK new : Changed(r, new) /\ new.stage = stage /\ new.issued = r.issued
    BY <1>1, <2>1, <2>2, GoesChanged
  <2>4. r.machine \notin reopened => VoiceOf(new, host[r.machine])
    BY <1>1, <2>1, <2>3, OfRequest DEF VoiceOf
  <2>5. r.machine \notin upset' =>
          BondOf(new, host[r.machine], target[r.machine], agent[r.from])
    BY <1>2, <2>3, OfRequest DEF BondOf, Changed, Same
  <2> QED
    BY <1>1, <2>3, <2>4, <2>5, PlainStep
<1> QED
  BY <1>3, <1>4 DEF CheckEnrolment

LEMMA LookUpTargetBinds ==
  ASSUME IInv, IInv', BInv, NEW r \in requests, LookUpTarget(r),
         UNCHANGED <<agent, speakers, reopened, upset>>
  PROVE  BInv'
<1>1. Valid(r) /\ r.stage = "lookup" /\ UNCHANGED <<target, host, issued>> /\ issued <= issued'
  BY OfRequest DEF LookUpTarget, At, IInv, Tables
<1>2. r.machine \notin upset => r.secret = NoSecret /\ r.issued = NoSecret
  BY <1>1, Secretless
<1>3. PICK new : /\ Changed(r, new) /\ new.stage \in {"create", "insert"}
                 /\ new.issued = r.issued
  <2>1. CASE Goes(r, "create")
    BY <1>1, <2>1, GoesChanged DEF Stages
  <2>2. CASE Becomes(r, [r EXCEPT !.stage = "insert", !.target = target[r.machine]])
    <3>1. target[r.machine] \in Nat
      BY OfRequest DEF IInv, Tables
    <3>2. "insert" \in Stages /\ Becomes(r, WithTarget(r, "insert", target[r.machine]))
      BY <2>2 DEF Stages, WithTarget
    <3> QED
      BY <1>1, <3>1, <3>2, TargetChanged
  <2> QED
    BY <2>1, <2>2 DEF LookUpTarget
<1>4. VoiceOf(new, host[r.machine])
  BY <1>3 DEF VoiceOf
<1>5. r.machine \notin upset' =>
        BondOf(new, host[r.machine], target[r.machine], agent[r.from])
  BY <1>2, <1>3, OfRequest DEF BondOf, Changed, Same
<1> QED
  BY <1>1, <1>3, <1>4, <1>5, PlainStep

LEMMA CreateTargetBinds ==
  ASSUME IInv, IInv', BInv, NEW r \in requests, CreateTarget(r),
         UNCHANGED <<agent, speakers, reopened, upset>>
  PROVE  BInv'
<1>1. Valid(r) /\ r.stage = "create" /\ UNCHANGED host /\ issued \in Nat /\ r.machine \in Machines
  BY OfRequest DEF CreateTarget, At, IInv, Tables
<1>2. r.machine \notin upset => r.secret = NoSecret /\ r.issued = NoSecret
  BY <1>1, Secretless
<1>3. CASE target[r.machine] # NoTarget
  <2>1. Answer(r, "internal") /\ UNCHANGED <<target, issued>>
    BY <1>3 DEF CreateTarget
  <2> QED
    BY <1>1, <1>2, <2>1, AnswerStep DEF Verdicts
<1>4. CASE target[r.machine] = NoTarget
  <2>1. /\ issued' = issued + 1 /\ target' = [target EXCEPT ![r.machine] = issued + 1]
        /\ Becomes(r, [r EXCEPT !.stage = "insert", !.target = issued + 1])
    BY <1>4 DEF CreateTarget
  <2>2. ~IsBound(host[r.machine])
    BY <1>1, <1>4, HostRow DEF IInv, IsBound
  <2>3. PICK new : Changed(r, new) /\ new.stage = "insert" /\ new.issued = r.issued
    <3>1. /\ "insert" \in Stages /\ Becomes(r, WithTarget(r, "insert", issued + 1))
          /\ issued + 1 \in Nat
      BY <1>1, <2>1 DEF Stages, WithTarget
    <3> QED
      BY <1>1, <3>1, TargetChanged
  <2>4. VoiceOf(new, host[r.machine])
    BY <2>3 DEF VoiceOf
  <2>5. r.machine \notin upset' =>
          BondOf(new, host[r.machine], target[r.machine], agent[r.from])
    BY <1>2, <2>3, OfRequest DEF BondOf, Changed, Same
  <2>6. /\ \A m \in Machines : target'[m] = target[m] \/ (m = r.machine /\ ~IsBound(host[m]))
        /\ issued <= issued'
    BY <1>1, <2>1, <2>2 DEF IInv, Tables
  <2> QED
    BY <1>1, <2>3, <2>4, <2>5, <2>6, PlainStep
<1> QED
  BY <1>3, <1>4

LEMMA ConsumeEnrolmentBinds ==
  ASSUME IInv, IInv', BInv, NEW r \in requests, ConsumeEnrolment(r),
         UNCHANGED <<agent, speakers, reopened, upset>>
  PROVE  BInv'
<1>1. Valid(r) /\ r.stage = "count" /\ UNCHANGED <<target, host, issued>> /\ issued <= issued'
  BY OfRequest DEF ConsumeEnrolment, At, IInv, Tables
<1>2. PICK new : /\ Changed(r, new) /\ new.stage = "load" /\ new.issued = r.issued
                 /\ new.target = r.target
  BY <1>1, GoesChanged DEF ConsumeEnrolment, Stages
<1>3. r.machine \notin reopened => VoiceOf(new, host[r.machine])
  BY <1>1, <1>2, OfRequest DEF VoiceOf, Changed, Same
<1>4. r.machine \notin upset' =>
        BondOf(new, host[r.machine], target[r.machine], agent[r.from])
  BY <1>1, <1>2, OfRequest DEF BondOf, Changed, Same
<1> QED
  BY <1>1, <1>2, <1>3, <1>4, PlainStep

LEMMA FailureBinds ==
  ASSUME IInv, IInv', BInv, NEW r \in requests, UNCHANGED <<agent, speakers, reopened>>,
         \/ HandlerFails(r) /\ upset' = upset \cup {r.machine}
         \/ RejectBatch(r) /\ upset' = upset
  PROVE  BInv'
<1>1. CASE HandlerFails(r) /\ upset' = upset \cup {r.machine}
  BY <1>1, AnswerStep DEF HandlerFails, Verdicts
<1>2. CASE RejectBatch(r) /\ upset' = upset
  <2>1. r.machine \notin upset => r.issued = NoSecret
    BY <1>2, OfRequest DEF BondOf, RejectBatch, At
  <2> QED
    BY <1>2, <2>1, AnswerStep DEF RejectBatch, Verdicts
<1> QED
  BY <1>1, <1>2

\* The first request to insert the row binds the machine to its sender.
LEMMA InsertHostBinds ==
  ASSUME IInv, IInv', BInv, NEW r \in requests, InsertHost(r),
         UNCHANGED <<agent, speakers, reopened, upset>>
  PROVE  BInv'
<1> DEFINE k == r.machine
<1>1. /\ Valid(r) /\ r.stage = "insert" /\ UNCHANGED target /\ issued \in Nat /\ k \in Machines
      /\ Tables /\ Secrets /\ ExchangeOf(requests', agent') /\ issued' \in Nat
  BY OfRequest DEF InsertHost, At, IInv, Tables, BInv
<1>2. k \notin upset => r.secret = NoSecret /\ r.issued = NoSecret
  BY <1>1, Secretless
<1>3. CASE host[k] # NoHost \/ target[k] # r.target
  <2>1. Answer(r, "internal") /\ UNCHANGED <<host, issued>>
    BY <1>3 DEF InsertHost
  <2> QED
    BY <1>1, <1>2, <2>1, AnswerStep DEF Verdicts
<1>4. CASE host[k] = NoHost /\ target[k] = r.target
  <2> DEFINE row == Inserted(r)
  <2>1. /\ issued' = issued + 1 /\ host' = [host EXCEPT ![k] = row]
        /\ Becomes(r, WithSecret(r, "count", issued + 1))
    BY <1>4 DEF InsertHost, WithSecret
  <2>2. row.target = r.target /\ row.secret = issued + 1 /\ row.rebind_open = FALSE
    BY DEF Inserted
  <2>3. IsBound(row)
    BY <1>1, <2>2 DEF IsBound, NoHost, NoSecret, NoTarget, Valid
  <2>4. host'[k] = row /\ \A m \in Machines : m # k => host'[m] = host[m]
    BY <1>1, <2>1 DEF Tables
  <2> HIDE DEF row
  <2>5. "count" \in Stages /\ issued + 1 \in Nat
    BY <1>1 DEF Stages
  <2>6. PICK new : /\ Changed(r, new) /\ new.stage = "count" /\ new.target = r.target
                   /\ new.issued = issued + 1
    BY <1>1, <2>1, <2>5, SecretChanged
  <2>7. issued < issued' /\ issued <= issued'
    BY <1>1, <2>1
  <2>8. Learns(r.from)
    BY <1>1, <2>1, <2>6, <2>7, StepLearns
  <2>9. Secrets'
    <3>1. \A m \in Machines : IsBound(host[m]) => host[m].secret \in Nat
      BY <1>1, HostRow DEF IsBound, Host
    <3> QED
      BY <1>1, <2>1, <2>2, <2>4, <2>8, <3>1, SecretsStep
  <2>10. ASSUME NEW m \in Machines, m # k
         PROVE  (m \notin reopened' => Voice(m)') /\ (m \notin upset' => Bond(m)')
    BY <1>1, <2>4, <2>6, <2>8, <2>10, OtherMachines
  <2>11. ~IsBound(host[k])
    BY <1>4 DEF IsBound
  <2>12. /\ requests' = (requests \ {r}) \cup {new} /\ new.machine = k /\ new.from = r.from
         /\ new.secret = r.secret /\ new.awaited = r.awaited
    BY <2>6 DEF Changed, Same
  <2>13. ASSUME k \notin reopened'
         PROVE  Voice(k)'
    <3>1. Voice(k)
      BY <1>1, <2>13 DEF BInv
    <3>2. speakers'[k] = {}
      BY <2>11, <3>1 DEF Voice
    <3>3. ASSUME NEW q \in requests', q.machine = k
          PROVE  VoiceOf(q, row)
      <4>1. CASE q = new
        BY <2>2, <2>3, <2>6, <4>1 DEF VoiceOf
      <4>2. CASE q \in requests
        <5>1. VoiceOf(q, host[k])
          BY <3>1, <3>3, <4>2 DEF Voice
        <5> QED
          BY <2>11, <5>1 DEF VoiceOf
      <4> QED
        BY <2>12, <3>3, <4>1, <4>2
    <3> QED
      BY <2>2, <2>4, <3>2, <3>3 DEF Voice, VoiceOf, IsBound
  <2>14. ASSUME k \notin upset'
         PROVE  Bond(k)'
    <3>1. Bond(k) /\ r.awaited /\ r.secret = NoSecret /\ r.secret = agent[r.from].secret
      BY <1>2, <2>14, OfRequest DEF BondOf
    <3>2. ASSUME NEW a \in Agents, KeyOf[a] = k
          PROVE  agent[a].secret = agent[a].file /\ agent[a].secret = NoSecret
      BY <2>11, <3>1, <3>2 DEF Bond
    <3>3. ASSUME NEW q \in requests', q.machine = k
          PROVE  BondOf(q, row, target[k], agent[q.from])
      <4>1. CASE q = new
        BY <1>4, <2>2, <2>3, <2>6, <2>12, <3>1, <4>1 DEF BondOf
      <4>2. CASE q \in requests
        <5>1. BondOf(q, host[k], target[k], agent[q.from])
          BY <3>1, <3>3, <4>2 DEF Bond
        <5> QED
          BY <2>11, <5>1 DEF BondOf
      <4> QED
        BY <2>12, <3>3, <4>1, <4>2
    <3>4. \E q \in requests' : q.machine = k /\ q.awaited /\ q.issued = row.secret
      BY <2>2, <2>6, <2>12, <3>1
    <3> QED
      BY <1>1, <2>4, <3>2, <3>3, <3>4 DEF Bond, BondOf, IsBound, Reaches
  <2> QED
    BY <2>9, <2>10, <2>13, <2>14 DEF BInv
<1> QED
  BY <1>3, <1>4

\* A machine is bound again only after an administrator let it.
LEMMA BindHostBinds ==
  ASSUME IInv, IInv', BInv, NEW r \in requests, BindHost(r),
         UNCHANGED <<agent, speakers, reopened, upset>>
  PROVE  BInv'
<1> DEFINE k == r.machine
<1>1. /\ Valid(r) /\ r.stage = "bind" /\ UNCHANGED target /\ issued \in Nat /\ k \in Machines
      /\ Tables /\ Secrets /\ ExchangeOf(requests', agent') /\ issued' = issued + 1
      /\ Becomes(r, WithSecret(r, "load", issued + 1))
  BY OfRequest DEF BindHost, At, IInv, Tables, BInv, WithSecret
<1>2. k \in reopened /\ k \in upset
  BY <1>1, OfRequest DEF VoiceOf
<1>3. PICK new : Changed(r, new) /\ new.issued = issued + 1
  <2>1. "load" \in Stages /\ issued + 1 \in Nat
    BY <1>1 DEF Stages
  <2> QED
    BY <1>1, <2>1, SecretChanged
<1>4. issued < issued' /\ issued <= issued' /\ issued' \in Nat
  BY <1>1
<1>5. Learns(r.from)
  BY <1>1, <1>3, <1>4, StepLearns
<1>6. /\ \A m \in Machines : m # k => host'[m] = host[m]
      /\ host'[k] = host[k] \/ host'[k].secret = issued'
  <2>1. CASE host[k].target = r.target
    <3>1. host' = [host EXCEPT ![k] = Bound(r)]
      BY <2>1 DEF BindHost
    <3>2. host[k] # NoHost
      BY <1>1, <2>1, HostRow DEF Valid
    <3>3. Bound(r).secret = issued + 1
      BY <1>1, <3>2, BoundHost
    <3> QED
      BY <1>1, <3>1, <3>3 DEF Tables
  <2>2. CASE host[k].target # r.target
    BY <2>2 DEF BindHost
  <2> QED
    BY <2>1, <2>2
<1>7. Secrets'
  <2>1. \A m \in Machines : IsBound(host[m]) => host[m].secret \in Nat
    BY <1>1, HostRow DEF IsBound, Host
  <2> QED
    BY <1>1, <1>5, <1>6, <2>1, SecretsStep
<1>8. ASSUME NEW m \in Machines, m # k
      PROVE  (m \notin reopened' => Voice(m)') /\ (m \notin upset' => Bond(m)')
  BY <1>1, <1>3, <1>5, <1>6, <1>8, OtherMachines
<1> QED
  BY <1>2, <1>7, <1>8 DEF BInv

\* Samples are taken from the holder of the secret only.
LEMMA DeliverBinds ==
  ASSUME IInv, IInv', BInv, NEW r \in requests, NEW i, Deliver(r, i)
  PROVE  BInv'
<1> DEFINE k == r.machine
<1>1. /\ Valid(r) /\ r.stage = "load" /\ issued \in Nat /\ k \in Machines /\ r.from \in Agents
      /\ UNCHANGED <<target, host, issued, agent, upset, reopened>> /\ issued <= issued'
      /\ Tables /\ Secrets /\ ExchangeOf(requests', agent') /\ issued' \in Nat
  BY OfRequest DEF Deliver, At, IInv, Tables, BInv
<1>2. CASE target[k] # r.target
  <2>1. Answer(r, "internal") /\ UNCHANGED speakers
    BY <1>2 DEF Deliver
  <2>2. k \notin upset => r.issued = NoSecret
    BY <1>2, OfRequest DEF BondOf
  <2> QED
    BY <1>1, <2>1, <2>2, AnswerStep DEF Verdicts
<1>3. CASE target[k] = r.target
  <2>1. Goes(r, "record") /\ speakers' = [speakers EXCEPT ![k] = @ \cup {r.from}]
    BY <1>3 DEF Deliver
  <2>2. PICK new : /\ Changed(r, new) /\ new.stage = "record" /\ new.target = r.target
                   /\ new.issued = r.issued
    BY <1>1, <2>1, GoesChanged DEF Stages
  <2>3. Learns(r.from)
    BY <1>1, <2>2, StepLearns
  <2>4. Secrets'
    <3>1. \A m \in Machines : IsBound(host[m]) => host[m].secret \in Nat
      BY <1>1, HostRow DEF IsBound, Host
    <3> QED
      BY <1>1, <2>3, <3>1, SecretsStep
  <2>5. /\ \A m \in Machines : m # k => speakers'[m] = speakers[m]
        /\ speakers'[k] = speakers[k] \cup {r.from}
    BY <1>1, <2>1 DEF IInv, Observers
  <2>6. ASSUME NEW m \in Machines, m # k
        PROVE  (m \notin reopened' => Voice(m)') /\ (m \notin upset' => Bond(m)')
    BY <1>1, <2>2, <2>3, <2>5, <2>6, OtherMachines
  <2>7. ASSUME k \notin upset'
        PROVE  Bond(k)'
    <3>1. Bond(k) /\ BondOf(r, host[k], target[k], agent[r.from])
      BY <1>1, <2>7, OfRequest
    <3>2. r.awaited
      BY <3>1 DEF BondOf
    <3>3. BondOf(new, host[k], target[k], agent[r.from])
      BY <1>1, <2>2, <3>1 DEF BondOf, Changed, Same
    <3> QED
      BY <1>1, <2>2, <3>1, <3>2, <3>3, BondChanged
  <2>8. ASSUME k \notin reopened'
        PROVE  Voice(k)'
    <3> DEFINE s == host[k].secret
    <3>1. Voice(k) /\ IsBound(host[k]) /\ (s = r.secret \/ s = r.issued)
      BY <1>1, <2>8, OfRequest DEF VoiceOf
    <3>2. Holds(requests, agent, r.from, s) /\ s # NoSecret
      BY <3>1 DEF Holds, IsBound
    <3>3. s \in Nat /\ s <= issued
      BY <1>1, <3>1, HostRow DEF IsBound, Host, Secrets
    <3>4. \A a \in speakers[k] : a = r.from
      BY <1>1, <3>1, <3>2 DEF Voice, Knows
    <3> HIDE DEF s
    <3>5. ASSUME NEW b \in Agents, Holds(requests', agent', b, s)
          PROVE  b = r.from
      <4>1. Holds(requests, agent, b, s)
        BY <1>1, <2>3, <3>2, <3>3, <3>5, KnownBefore
      <4> QED
        BY <1>1, <3>2, <4>1 DEF Secrets, Knows
    <3>6. ASSUME NEW q \in requests', q.machine = k
          PROVE  VoiceOf(q, host[k])
      <4>1. VoiceOf(new, host[k])
        BY <2>2, <3>1 DEF VoiceOf, Changed, Same, s
      <4> QED
        BY <2>2, <3>1, <3>6, <4>1 DEF Voice, Changed
    <3>7. \A a \in speakers'[k] : a = r.from
      BY <2>5, <3>4
    <3> QED
      BY <1>1, <3>1, <3>5, <3>6, <3>7 DEF Voice, VoiceOf, IsBound, Knows, s
  <2> QED
    BY <2>4, <2>6, <2>7, <2>8 DEF BInv
<1> QED
  BY <1>2, <1>3

LEMMA RecordBatchBinds ==
  ASSUME IInv, IInv', BInv, NEW r \in requests, RecordBatch(r)
  PROVE  BInv'
<1>1. /\ Valid(r) /\ r.stage = "record" /\ Answer(r, "ack") /\ issued <= issued'
      /\ UNCHANGED <<target, host, issued, agent, speakers, upset, reopened>>
  BY OfRequest DEF RecordBatch, At, pushVars, IInv, Tables
<1>2. CASE Ended(r)
  BY <1>1, <1>2, PlainStep
<1>3. ASSUME NEW new, Changed(r, new), new.stage = "answered", new.verdict = "ack",
             new.issued = r.issued, new.target = r.target
      PROVE  BInv'
  <2>1. VoiceOf(new, host[r.machine])
    BY <1>3 DEF VoiceOf
  <2>2. r.machine \notin upset' =>
          BondOf(new, host[r.machine], target[r.machine], agent[r.from])
    BY <1>1, <1>3, OfRequest DEF BondOf, Changed, Same
  <2> QED
    BY <1>1, <1>3, <2>1, <2>2, PlainStep
<1> QED
  BY <1>1, <1>2, <1>3, AnswerChanged DEF Verdicts

-----------------------------------------------------------------------------
(* The steps of the agents.                                                *)

\* Nothing is issued, and what agents and requests hold was known before.
LEMMA AgentLearns ==
  ASSUME issued \in Nat, issued' = issued,
         \A b \in Agents :
           /\ agent'[b].secret = NoSecret \/ Holds(requests, agent, b, agent'[b].secret)
           /\ agent'[b].file = NoSecret \/ Holds(requests, agent, b, agent'[b].file),
         \A q \in requests' :
           /\ q.secret = NoSecret \/ Holds(requests, agent, q.from, q.secret)
           /\ q.issued = NoSecret \/ Holds(requests, agent, q.from, q.issued),
         NEW c
  PROVE  Learns(c)
<1>1. ASSUME NEW b \in Agents, NEW s, Holds(requests', agent', b, s)
      PROVE  Holds(requests, agent, b, s) \/ s = NoSecret
  BY <1>1 DEF Holds
<1> QED
  BY <1>1 DEF Learns

\* The tables are left alone: secrets stay private, and requests have not got
\* further than they had.
LEMMA AllVoices ==
  ASSUME IInv, BInv, NEW c, Learns(c), UNCHANGED <<host, speakers, issued>>,
         reopened \subseteq reopened',
         \A q \in requests' : q.machine \notin reopened' => VoiceOf(q, host[q.machine])
  PROVE  Secrets' /\ \A m \in Machines : m \notin reopened' => Voice(m)'
<1>1. Tables /\ Secrets /\ issued \in Nat
  BY DEF IInv, BInv, Tables
<1>2. Secrets'
  <2>1. \A m \in Machines : IsBound(host[m]) => host[m].secret \in Nat
    BY <1>1, HostRow DEF IsBound, Host
  <2> QED
    BY <1>1, <2>1, SecretsStep
<1>3. ASSUME NEW m \in Machines, m \notin reopened'
      PROVE  Voice(m)'
  <2>1. Voice(m)
    BY <1>3 DEF BInv
  <2>2. \A q \in requests' : q.machine = m => VoiceOf(q, host[m])
    BY <1>3
  <2> QED
    BY <1>1, <2>1, <2>2, VoiceKept
<1> QED
  BY <1>2, <1>3

LEMMA RequestVoice ==
  ASSUME IInv, BInv, NEW r \in requests, r.machine \notin reopened
  PROVE  VoiceOf(r, host[r.machine])
  BY OfRequest

LEMMA RequestHolds ==
  ASSUME NEW r \in requests
  PROVE  /\ Holds(requests, agent, r.from, r.secret)
         /\ Holds(requests, agent, r.from, r.issued)
  BY DEF Holds

LEMMA AgentHolds ==
  ASSUME NEW a
  PROVE  /\ Holds(requests, agent, a, agent[a].secret)
         /\ Holds(requests, agent, a, agent[a].file)
  BY DEF Holds

\* A step that changes neither requests, nor tables, nor secrets.
LEMMA SecretsAside ==
  ASSUME IInv, IInv', BInv,
         UNCHANGED <<requests, host, target, issued, speakers>>,
         reopened \subseteq reopened', upset \subseteq upset',
         \A a \in Agents : agent'[a].secret = agent[a].secret /\ agent'[a].file = agent[a].file
  PROVE  BInv'
<1>1. issued \in Nat /\ ExchangeOf(requests', agent')
  BY DEF IInv, Tables
<1>2. Learns(0)
  BY <1>1, AgentLearns, AgentHolds, RequestHolds
<1>3. \A q \in requests' : q.machine \notin reopened' => VoiceOf(q, host[q.machine])
  BY RequestVoice
<1>4. Secrets' /\ \A m \in Machines : m \notin reopened' => Voice(m)'
  BY <1>2, <1>3, AllVoices
<1>5. ASSUME NEW m \in Machines, m \notin upset'
      PROVE  Bond(m)'
  <2>1. Bond(m)
    BY <1>5 DEF BInv
  <2>2. \A q \in requests' : q.machine = m => BondOf(q, host[m], target[m], agent[q.from])
    BY <2>1 DEF Bond
  <2> QED
    BY <1>1, <2>1, <2>2, BondKept
<1> QED
  BY <1>4, <1>5 DEF BInv

LEMMA CollectBinds ==
  ASSUME IInv, IInv', BInv, NEW a \in Agents, Collect(a)
  PROVE  BInv'
<1>1. agent \in [Agents -> AgentState]
  BY DEF IInv, AgentsOK
<1>2. \A b \in Agents : agent'[b].secret = agent[b].secret /\ agent'[b].file = agent[b].file
  BY <1>1 DEF Collect, AgentState
<1> QED
  BY <1>2, SecretsAside DEF Collect, enrolmentVars

LEMMA SendBinds ==
  ASSUME IInv, IInv', BInv, NEW a \in Agents, Send(a)
  PROVE  BInv'
<1>1. agent \in [Agents -> AgentState] /\ issued \in Nat /\ ExchangeOf(requests', agent')
  BY DEF IInv, AgentsOK, Tables
<1>2. /\ UNCHANGED <<target, host, issued, speakers, upset, reopened>>
      /\ \A b \in Agents : agent'[b].secret = agent[b].secret /\ agent'[b].file = agent[b].file
  BY <1>1 DEF Send, AgentState
<1>3. PICK no, batch : requests' = requests \cup {Call(a, agent[a], no, batch)}
  BY DEF Send, Call
<1> DEFINE q == Call(a, agent[a], no, batch)
<1>4. /\ q.from = a /\ q.machine = KeyOf[a] /\ q.secret = agent[a].secret /\ q.issued = NoSecret
      /\ q.awaited = TRUE /\ q.stage = "token"
  BY DEF Call, NewRequest
<1> HIDE DEF q
<1>5. requests' = requests \cup {q}
  BY <1>3 DEF q
<1>6. Learns(0)
  <2>1. \A b \in Agents :
           /\ agent'[b].secret = NoSecret \/ Holds(requests, agent, b, agent'[b].secret)
           /\ agent'[b].file = NoSecret \/ Holds(requests, agent, b, agent'[b].file)
    BY <1>2, AgentHolds
  <2>2. \A p \in requests' :
           /\ p.secret = NoSecret \/ Holds(requests, agent, p.from, p.secret)
           /\ p.issued = NoSecret \/ Holds(requests, agent, p.from, p.issued)
    BY <1>4, <1>5, AgentHolds, RequestHolds
  <2> QED
    BY <1>1, <1>2, <2>1, <2>2, AgentLearns
<1>7. \A p \in requests' : p.machine \notin reopened' => VoiceOf(p, host[p.machine])
  <2>1. VoiceOf(q, host[q.machine])
    BY <1>4 DEF VoiceOf
  <2> QED
    BY <1>2, <1>5, <2>1, RequestVoice
<1>8. Secrets' /\ \A m \in Machines : m \notin reopened' => Voice(m)'
  BY <1>2, <1>6, <1>7, AllVoices
<1>9. ASSUME NEW m \in Machines, m \notin upset'
      PROVE  Bond(m)'
  <2>1. Bond(m)
    BY <1>2, <1>9 DEF BInv
  <2>2. BondOf(q, host[m], target[m], agent[q.from])
    BY <1>4 DEF BondOf
  <2>3. \A p \in requests' : p.machine = m => BondOf(p, host[m], target[m], agent[p.from])
    BY <1>5, <2>1, <2>2 DEF Bond
  <2>4. \A r \in requests : r \in requests'
    BY <1>5
  <2> QED
    BY <1>1, <1>2, <2>1, <2>3, <2>4, BondKept
<1> QED
  BY <1>8, <1>9 DEF BInv

\* The agent of r takes its answer: machines it is not about, and secrets.
LEMMA AnswerTaken ==
  ASSUME IInv, IInv', BInv, NEW r \in requests, requests' = requests \ {r}, NEW y,
         agent' = [agent EXCEPT ![r.from] = y],
         y.secret \in {NoSecret, agent[r.from].secret, r.issued},
         y.file \in {NoSecret, agent[r.from].file, r.issued},
         UNCHANGED <<target, host, issued, speakers, reopened>>, upset \subseteq upset',
         r.machine \notin upset' => Bond(r.machine)'
  PROVE  BInv'
<1>1. /\ agent \in [Agents -> AgentState] /\ issued \in Nat /\ ExchangeOf(requests', agent')
      /\ r.from \in Agents /\ KeyOf[r.from] = r.machine
  BY OfRequest DEF IInv, AgentsOK, Tables
<1>2. agent'[r.from] = y /\ \A b \in Agents : b # r.from => agent'[b] = agent[b]
  BY <1>1
<1>3. Learns(0)
  <2>1. \A b \in Agents :
           /\ agent'[b].secret = NoSecret \/ Holds(requests, agent, b, agent'[b].secret)
           /\ agent'[b].file = NoSecret \/ Holds(requests, agent, b, agent'[b].file)
    BY <1>2, AgentHolds, RequestHolds
  <2>2. \A p \in requests' :
           /\ p.secret = NoSecret \/ Holds(requests, agent, p.from, p.secret)
           /\ p.issued = NoSecret \/ Holds(requests, agent, p.from, p.issued)
    BY RequestHolds
  <2> QED
    BY <1>1, <2>1, <2>2, AgentLearns
<1>4. \A q \in requests' : q.machine \notin reopened' => VoiceOf(q, host[q.machine])
  BY RequestVoice
<1>5. Secrets' /\ \A m \in Machines : m \notin reopened' => Voice(m)'
  BY <1>3, <1>4, AllVoices
<1>6. ASSUME NEW m \in Machines, m \notin upset', m # r.machine
      PROVE  Bond(m)'
  <2>1. Bond(m)
    BY <1>6 DEF BInv
  <2>2. \A q \in requests' : q.machine = m => BondOf(q, host[m], target[m], agent[q.from])
    BY <2>1 DEF Bond
  <2>3. \A a \in Agents : KeyOf[a] = m => agent'[a] = agent[a]
    BY <1>1, <1>2, <1>6
  <2>4. \A q \in requests : q.machine = m => q \in requests'
    BY <1>6
  <2> QED
    BY <1>1, <2>1, <2>2, <2>3, <2>4, BondKept
<1> QED
  BY <1>5, <1>6 DEF BInv

\* An answer that brings no secret leaves the one the agent has.
LEMMA BondWithout ==
  ASSUME IInv, IInv', BInv, NEW r \in requests, requests' = requests \ {r},
         r.issued = NoSecret, r.machine \notin upset, NEW y,
         agent' = [agent EXCEPT ![r.from] = y],
         y.secret = agent[r.from].secret, y.file = agent[r.from].file,
         UNCHANGED <<target, host>>
  PROVE  Bond(r.machine)'
<1> DEFINE k == r.machine
<1>1. /\ agent \in [Agents -> AgentState] /\ ExchangeOf(requests', agent')
      /\ Bond(k) /\ k \in Machines
  BY OfRequest DEF IInv, AgentsOK
<1>2. \A a \in Agents : agent'[a].secret = agent[a].secret /\ agent'[a].file = agent[a].file
  BY <1>1
<1>3. \A q \in requests' : q.machine = k => BondOf(q, host[k], target[k], agent[q.from])
  BY <1>1 DEF Bond
<1>4. \A q \in requests : q.machine = k /\ q.awaited /\ q.issued # NoSecret =>
         \E p \in requests' : p.machine = k /\ p.awaited /\ p.issued = q.issued
  OBVIOUS
<1> QED
  BY <1>1, <1>2, <1>3, <1>4, BondKept

\* A new secret is the machine's, and the agent has it on disk.
LEMMA BondAdopted ==
  ASSUME IInv, IInv', BInv, NEW r \in requests, requests' = requests \ {r},
         r.issued # NoSecret, r.machine \notin upset, NEW y,
         agent' = [agent EXCEPT ![r.from] = y],
         y.secret = r.issued, y.file = r.issued,
         UNCHANGED <<target, host>>
  PROVE  Bond(r.machine)'
<1> DEFINE k == r.machine
<1>1. /\ agent \in [Agents -> AgentState] /\ ExchangeOf(requests, agent) /\ k \in Machines
      /\ r.from \in Agents /\ KeyOf[r.from] = k
      /\ Bond(k) /\ BondOf(r, host[k], target[k], agent[r.from])
  BY OfRequest DEF IInv, AgentsOK
<1>2. r.awaited /\ IsBound(host[k]) /\ r.issued = host[k].secret
  BY <1>1 DEF BondOf
<1>3. agent'[r.from] = y /\ \A b \in Agents : b # r.from => agent'[b] = agent[b]
  BY <1>1
<1>4. ASSUME NEW q \in requests', q.machine = k
      PROVE  BondOf(q, host[k], target[k], agent'[q.from])
  <2>1. BondOf(q, host[k], target[k], agent[q.from])
    BY <1>1, <1>4 DEF Bond
  <2>2. q.awaited /\ q # r /\ q \in requests
    BY <2>1 DEF BondOf
  <2>3. q.from # r.from /\ q.from \in Agents
    BY <1>1, <1>2, <2>2, RequestFields DEF ExchangeOf
  <2> QED
    BY <1>3, <2>1, <2>3
<1>5. ASSUME NEW a \in Agents, KeyOf[a] = k
      PROVE  /\ agent'[a].secret = agent'[a].file
             /\ agent'[a].secret # NoSecret => agent'[a].secret = host[k].secret
  BY <1>1, <1>2, <1>3, <1>5 DEF Bond
<1>6. agent'[r.from].secret = host[k].secret
  BY <1>2, <1>3
<1> QED
  BY <1>1, <1>2, <1>4, <1>5, <1>6 DEF Bond, BondOf, IsBound, Reaches

LEMMA AcknowledgedBinds ==
  ASSUME IInv, IInv', BInv, NEW r \in requests, Acknowledged(r)
  PROVE  BInv'
<1> DEFINE x == agent[r.from]
           z == Sent(x)
<1>1. /\ UNCHANGED <<target, host, issued, speakers, reopened>> /\ requests' = requests \ {r}
      /\ upset \subseteq upset'
  BY DEF Acknowledged, Interferes
<1>2. Good(x) /\ r.issued \in Nat
  BY OfRequest, RequestFields DEF IInv, AgentsOK
<1>3. Good(z) /\ z.secret = x.secret /\ z.file = x.file
  BY <1>2, SentGood
<1> HIDE DEF z
<1>4. CASE r.issued = NoSecret /\ agent' = [agent EXCEPT ![r.from] = z] /\ UNCHANGED upset
  <2>1. r.machine \notin upset' => Bond(r.machine)'
    BY <1>1, <1>3, <1>4, BondWithout
  <2> QED
    BY <1>1, <1>3, <1>4, <2>1, AnswerTaken
<1>5. ASSUME NEW w \in BOOLEAN, r.issued # NoSecret,
             agent' = [agent EXCEPT ![r.from] = Adopt(z, r.issued, w)],
             w \/ r.machine \in upset', w => upset' = upset
      PROVE  BInv'
  <2> DEFINE y == Adopt(z, r.issued, w)
  <2>1. y.secret = r.issued /\ y.file = IF w THEN r.issued ELSE z.file
    BY <1>2, <1>3, AdoptGood
  <2>2. agent' = [agent EXCEPT ![r.from] = y]
    BY <1>5
  <2> HIDE DEF y
  <2>3. r.machine \notin upset' => Bond(r.machine)'
    BY <1>1, <1>5, <2>1, <2>2, BondAdopted
  <2> QED
    BY <1>1, <1>3, <2>1, <2>2, <2>3, AnswerTaken
<1> QED
  BY <1>4, <1>5 DEF Acknowledged, Interferes, z

\* A machine nothing interfered with is not refused for its secret: what its
\* agent forgets is nothing.
LEMMA RefusedBinds ==
  ASSUME IInv, IInv', BInv, NEW r \in requests, Refused(r)
  PROVE  BInv'
<1> DEFINE x == agent[r.from]
           z == IF r.verdict \in Retried THEN Restored(x) ELSE Sent(x)
           y == IF r.verdict \in Forgetting THEN Forget(z) ELSE z
<1>1. /\ UNCHANGED <<target, host, issued, speakers, reopened, upset>>
      /\ requests' = requests \ {r} /\ agent' = [agent EXCEPT ![r.from] = y]
      /\ r.stage = "answered" /\ r.verdict # "ack"
  BY DEF Refused, Own
<1>2. Good(x)
  BY OfRequest DEF IInv, AgentsOK
<1>3. Good(z) /\ z.secret = x.secret /\ z.file = x.file
  BY <1>2, SentGood, RestoredGood
<1> HIDE DEF z
<1>4. IF r.verdict = "forbidden" THEN y.secret = NoSecret /\ y.file = NoSecret
                                 ELSE y.secret = x.secret /\ y.file = x.file
  BY <1>3, ForgetGood DEF Forgetting
<1> HIDE DEF y
<1>5. ASSUME r.machine \notin upset
      PROVE  Bond(r.machine)'
  <2>1. /\ BondOf(r, host[r.machine], target[r.machine], x) /\ x.secret = x.file
    BY <1>5, OfRequest DEF Bond
  <2>2. r.issued = NoSecret /\ (r.verdict = "forbidden" => x.secret = NoSecret)
    BY <1>1, <2>1 DEF BondOf
  <2>3. y.secret = x.secret /\ y.file = x.file
    BY <1>4, <2>1, <2>2
  <2> QED
    BY <1>1, <1>5, <2>2, <2>3, BondWithout
<1> QED
  BY <1>1, <1>4, <1>5, AnswerTaken

\* An agent that no longer waits: its request is gone, or goes on unawaited
\* with what it carried.
LEMMA AbandonFacts ==
  ASSUME IInv, NEW a \in Agents, Abandon(a)
  PROVE  /\ \A q \in requests' : q \in requests \/
              \E r \in requests :
                /\ r.from = a /\ q.from = a /\ q.machine = r.machine /\ q.secret = r.secret
                /\ q.issued = r.issued /\ q.stage = r.stage /\ q.enrols = r.enrols
         /\ \A q \in requests' : q.from # a => q \in requests
         /\ \A q \in requests : q.from # a => q \in requests'
         /\ ~Sending(a) => requests' = requests
<1>1. PICK late \in BOOLEAN : requests' = Others(requests, a) \cup Orphans(requests, a, late)
  BY DEF Abandon, Others, Orphans, Late
<1>2. ExchangeOf(requests, agent)
  BY DEF IInv
<1>3. ASSUME NEW q \in Orphans(requests, a, late)
      PROVE  \E r \in requests :
                /\ r.from = a /\ r.awaited /\ q.from = a /\ q.machine = r.machine
                /\ q.secret = r.secret /\ q.issued = r.issued /\ q.stage = r.stage
                /\ q.enrols = r.enrols
  <2>1. PICK r \in Late(requests, a, late) : q = [r EXCEPT !.awaited = FALSE]
    BY <1>3 DEF Orphans
  <2>2. r \in requests /\ r.from = a /\ r.awaited /\ r.stage # "answered" /\ r \in Request
    BY <1>2, <2>1 DEF Late, ExchangeOf, Valid
  <2> QED
    BY <2>1, <2>2 DEF Request
<1>4. ~Sending(a) => \A r \in requests : ~(r.from = a /\ r.awaited)
  BY <1>2 DEF Sending, ExchangeOf
<1> QED
  BY <1>1, <1>3, <1>4 DEF Others

\* The request of an agent is abandoned; the agent keeps its secret, or takes
\* the one in its file.
LEMMA Abandoned ==
  ASSUME IInv, IInv', BInv, NEW a \in Agents, Abandon(a), NEW y,
         agent' = [agent EXCEPT ![a] = y],
         y.secret \in {agent[a].secret, agent[a].file}, y.file = agent[a].file,
         UNCHANGED <<target, host, issued, speakers, reopened>>, upset \subseteq upset',
         Sending(a) => KeyOf[a] \in upset'
  PROVE  BInv'
<1>1. /\ agent \in [Agents -> AgentState] /\ issued \in Nat /\ ExchangeOf(requests', agent')
      /\ ExchangeOf(requests, agent)
  BY DEF IInv, AgentsOK, Tables
<1>2. agent'[a] = y /\ \A b \in Agents : b # a => agent'[b] = agent[b]
  BY <1>1
<1>3. Learns(0)
  <2>1. \A b \in Agents :
           /\ agent'[b].secret = NoSecret \/ Holds(requests, agent, b, agent'[b].secret)
           /\ agent'[b].file = NoSecret \/ Holds(requests, agent, b, agent'[b].file)
    BY <1>2, AgentHolds
  <2>2. \A p \in requests' :
           /\ Holds(requests, agent, p.from, p.secret)
           /\ Holds(requests, agent, p.from, p.issued)
    BY AbandonFacts, RequestHolds
  <2> QED
    BY <1>1, <2>1, <2>2, AgentLearns
<1>4. ASSUME NEW q \in requests', q.machine \notin reopened'
      PROVE  VoiceOf(q, host[q.machine])
  <2>1. CASE q \in requests
    BY <1>4, <2>1, RequestVoice
  <2>2. ASSUME NEW r \in requests, q.machine = r.machine, q.secret = r.secret,
               q.issued = r.issued, q.stage = r.stage, q.enrols = r.enrols
        PROVE  VoiceOf(q, host[q.machine])
    <3>1. VoiceOf(r, host[r.machine])
      BY <1>4, <2>2, RequestVoice
    <3> QED
      BY <2>2, <3>1 DEF VoiceOf
  <2> QED
    BY <2>1, <2>2, AbandonFacts
<1>5. Secrets' /\ \A m \in Machines : m \notin reopened' => Voice(m)'
  BY <1>3, <1>4, AllVoices
<1>6. ASSUME NEW m \in Machines, m \notin upset'
      PROVE  Bond(m)'
  <2>1. Bond(m)
    BY <1>6 DEF BInv
  <2>2. CASE KeyOf[a] # m
    <3>1. \A b \in Agents : KeyOf[b] = m => agent'[b] = agent[b]
      BY <1>2, <2>2
    <3>2. \A q \in requests' : q.machine = m => q \in requests
      BY <1>1, <2>2, AbandonFacts DEF ExchangeOf, Valid
    <3>3. \A q \in requests : q.machine = m => q \in requests'
      BY <1>1, <2>2, AbandonFacts DEF ExchangeOf, Valid
    <3>4. \A q \in requests' : q.machine = m => BondOf(q, host[m], target[m], agent[q.from])
      BY <2>1, <3>2 DEF Bond
    <3> QED
      BY <1>1, <2>1, <3>1, <3>3, <3>4, BondKept
  <2>3. CASE KeyOf[a] = m
    <3>1. requests' = requests
      BY <1>6, <2>3, AbandonFacts
    <3>2. y.secret = agent[a].secret
      BY <2>1, <2>3 DEF Bond
    <3>3. \A b \in Agents :
             agent'[b].secret = agent[b].secret /\ agent'[b].file = agent[b].file
      BY <1>2, <3>2
    <3>4. \A q \in requests' : q.machine = m => BondOf(q, host[m], target[m], agent[q.from])
      BY <2>1, <3>1 DEF Bond
    <3> QED
      BY <1>1, <2>1, <3>1, <3>3, <3>4, BondKept
  <2> QED
    BY <2>2, <2>3
<1> QED
  BY <1>5, <1>6 DEF BInv

LEMMA GiveUpBinds ==
  ASSUME IInv, IInv', BInv, NEW a \in Agents, GiveUp(a)
  PROVE  BInv'
<1> DEFINE y == Restored(agent[a])
<1>1. /\ agent' = [agent EXCEPT ![a] = y] /\ Abandon(a) /\ upset' = upset \cup {KeyOf[a]}
      /\ UNCHANGED <<target, host, issued, speakers, reopened>>
  BY DEF GiveUp, Interferes
<1>2. y.secret = agent[a].secret /\ y.file = agent[a].file
  BY RestoredGood DEF IInv, AgentsOK
<1> HIDE DEF y
<1> QED
  BY <1>1, <1>2, Abandoned

LEMMA RestartBinds ==
  ASSUME IInv, IInv', BInv, NEW a \in Agents, Restart(a)
  PROVE  BInv'
<1> DEFINE x == agent[a]
<1>1. /\ Abandon(a) /\ UNCHANGED <<target, host, issued, speakers, reopened>>
      /\ upset' = IF Sending(a) THEN upset \cup {KeyOf[a]} ELSE upset
  BY DEF Restart
<1>2. PICK up \in BOOLEAN :
        agent' = [agent EXCEPT ![a].buffer = <<>>, ![a].batch = <<>>, ![a].secret = x.file,
                               ![a].supported = up \/ @]
  BY DEF Restart
<1>3. Good(x) /\ agent \in [Agents -> AgentState]
  BY DEF IInv, AgentsOK
<1> DEFINE y == [x EXCEPT !.buffer = <<>>, !.batch = <<>>, !.secret = x.file,
                          !.supported = up \/ x.supported]
<1>4. agent' = [agent EXCEPT ![a] = y]
  BY <1>2, <1>3 DEF AgentState
<1>5. y.secret = x.file /\ y.file = x.file
  BY <1>3 DEF Good, AgentState
<1> HIDE DEF y
<1> QED
  BY <1>1, <1>4, <1>5, Abandoned

\* The server forgets every request; the agents keep their secrets.
LEMMA CrashBinds ==
  ASSUME IInv, IInv', BInv, Crash
  PROVE  BInv'
<1>1. /\ UNCHANGED <<target, host, issued, speakers, reopened>> /\ requests' = {}
      /\ upset' = Machines /\ agent' = [a \in Agents |-> Restored(agent[a])]
      /\ issued \in Nat
  BY DEF Crash, IInv, Tables
<1>2. \A a \in Agents : agent'[a].secret = agent[a].secret /\ agent'[a].file = agent[a].file
  BY <1>1, RestoredGood DEF IInv, AgentsOK
<1>3. Learns(0)
  BY <1>1, <1>2, AgentHolds, AgentLearns
<1>4. Secrets' /\ \A m \in Machines : m \notin reopened' => Voice(m)'
  BY <1>1, <1>3, AllVoices
<1> QED
  BY <1>1, <1>4 DEF BInv

-----------------------------------------------------------------------------
(* Administrators.                                                         *)

\* An administrator changes the row of a machine, which counts as reopened.
LEMMA ReopenedBinds ==
  ASSUME IInv, IInv', BInv, NEW k \in Machines, k \in reopened',
         UNCHANGED <<requests, issued, agent, speakers>>,
         \A m \in Machines : m # k => host'[m] = host[m] /\ target'[m] = target[m],
         host'[k] = NoHost \/ (IsBound(host'[k]) => IsBound(host[k])
                                                    /\ host'[k].secret = host[k].secret),
         reopened \subseteq reopened', upset \subseteq upset'
  PROVE  BInv'
<1>1. issued \in Nat /\ ExchangeOf(requests', agent') /\ Tables /\ Secrets /\ k \in upset'
  BY DEF IInv, Tables, BInv, Observers
<1>2. Learns(0)
  BY <1>1, AgentLearns, AgentHolds, RequestHolds
<1>3. Secrets'
  <2>1. \A m \in Machines : IsBound(host[m]) => host[m].secret \in Nat
    BY <1>1, HostRow DEF IsBound, Host
  <2>2. \A m \in Machines : IsBound(host'[m]) =>
            host'[m].secret = issued' \/ (IsBound(host[m]) /\ host'[m].secret = host[m].secret)
    BY DEF IsBound
  <2> QED
    BY <1>1, <1>2, <2>1, <2>2, SecretsStep
<1>4. ASSUME NEW m \in Machines, m # k, m \notin reopened'
      PROVE  Voice(m)'
  <2>1. Voice(m)
    BY <1>4 DEF BInv
  <2>2. \A q \in requests' : q.machine = m => VoiceOf(q, host[m])
    BY <2>1 DEF Voice
  <2> QED
    BY <1>1, <1>2, <1>4, <2>1, <2>2, VoiceKept
<1>5. ASSUME NEW m \in Machines, m # k, m \notin upset'
      PROVE  Bond(m)'
  <2>1. Bond(m)
    BY <1>5 DEF BInv
  <2>2. \A q \in requests' : q.machine = m => BondOf(q, host[m], target[m], agent[q.from])
    BY <2>1 DEF Bond
  <2> QED
    BY <1>1, <1>5, <2>1, <2>2, BondKept
<1> QED
  BY <1>1, <1>3, <1>4, <1>5 DEF BInv

\* A window, once open, was opened by an administrator.
LEMMA AdministerBinds ==
  ASSUME IInv, IInv', BInv, NEW k \in Machines,
         UNCHANGED <<agent, speakers>>,
         \/ /\ AllowRebind(k) \/ DeleteTarget(k)
            /\ Interferes(k) /\ reopened' = reopened \cup {k}
         \/ WindowCloses(k) /\ UNCHANGED <<upset, reopened>>
  PROVE  BInv'
<1>1. /\ host \in [Machines -> Host \cup {NoHost}] /\ target \in [Machines -> Nat]
      /\ host[k] # NoHost => host[k] \in Host
  BY HostRow DEF IInv, Tables
<1>2. \A b \in BOOLEAN : host[k] # NoHost =>
         /\ [host EXCEPT ![k].rebind_open = b][k].secret = host[k].secret
         /\ \A m \in Machines \ {k} : [host EXCEPT ![k].rebind_open = b][m] = host[m]
  BY <1>1 DEF Host
<1>3. CASE AllowRebind(k) \/ WindowCloses(k)
  <2>1. PICK b \in BOOLEAN : host' = [host EXCEPT ![k].rebind_open = b]
    BY <1>3 DEF AllowRebind, WindowCloses
  <2>2. /\ host[k] # NoHost /\ UNCHANGED <<target, requests, issued>>
    BY <1>3 DEF AllowRebind, WindowCloses
  <2>3. k \in reopened' /\ reopened \subseteq reopened' /\ upset \subseteq upset'
    <3>1. CASE AllowRebind(k)
      BY <3>1 DEF Interferes, WindowCloses, AllowRebind
    <3>2. CASE WindowCloses(k)
      <4>1. k \in reopened
        BY <3>2 DEF WindowCloses, BInv, Voice
      <4> QED
        BY <4>1 DEF Interferes
    <3> QED
      BY <1>3, <3>1, <3>2
  <2>4. host'[k].secret = host[k].secret
        /\ \A m \in Machines : m # k => host'[m] = host[m] /\ target'[m] = target[m]
    BY <1>2, <2>1, <2>2
  <2> QED
    BY <2>2, <2>3, <2>4, ReopenedBinds DEF IsBound
<1>4. CASE DeleteTarget(k)
  <2>1. /\ host' = [host EXCEPT ![k] = NoHost] /\ target' = [target EXCEPT ![k] = NoTarget]
        /\ UNCHANGED <<requests, issued>>
    BY <1>4 DEF DeleteTarget
  <2>2. host'[k] = NoHost /\ \A m \in Machines : m # k => host'[m] = host[m]
                                                        /\ target'[m] = target[m]
    BY <1>1, <2>1
  <2>3. k \in reopened' /\ reopened \subseteq reopened' /\ upset \subseteq upset'
    <3>1. ~WindowCloses(k)
      BY <1>4, <2>1, <2>2, <1>1 DEF WindowCloses, DeleteTarget
    <3> QED
      BY <3>1 DEF Interferes
  <2> QED
    BY <2>1, <2>2, <2>3, ReopenedBinds
<1> QED
  BY <1>3, <1>4

-----------------------------------------------------------------------------
(* The invariant holds.                                                    *)

LEMMA InitBInv == Init => BInv
<1> SUFFICES ASSUME Init
             PROVE  BInv
  OBVIOUS
<1>1. /\ requests = {} /\ issued = 1 /\ speakers = [m \in Machines |-> {}]
      /\ agent = [a \in Agents |-> NewAgent(a \notin scenario.outdated)]
      /\ host = [m \in Machines |->
                  IF m \in scenario.legacy
                  THEN [target |-> 1, secret |-> NoSecret, token |-> scenario.token,
                        rebind_open |-> FALSE]
                  ELSE NoHost]
  BY DEF Init, EnrolmentInit
<1>2. \A a \in Agents : agent[a].secret = NoSecret /\ agent[a].file = NoSecret
  BY <1>1 DEF NewAgent
<1>3. ASSUME NEW m \in Machines
      PROVE  ~IsBound(host[m]) /\ (host[m] # NoHost => ~host[m].rebind_open)
  <2>1. CASE m \in scenario.legacy
    BY <1>1, <2>1 DEF IsBound
  <2>2. CASE m \notin scenario.legacy
    BY <1>1, <2>2 DEF IsBound
  <2> QED
    BY <2>1, <2>2
<1>4. \A a \in Agents : \A s : Knows(a, s) => s = NoSecret
  BY <1>1, <1>2 DEF Knows, Holds
<1>5. Secrets
  BY <1>1, <1>3, <1>4 DEF Secrets, NoSecret
<1>6. \A m \in Machines : Voice(m)
  BY <1>1, <1>3 DEF Voice
<1>7. \A m \in Machines : Bond(m)
  BY <1>1, <1>2, <1>3 DEF Bond
<1> QED
  BY <1>5, <1>6, <1>7 DEF BInv

LEMMA ServerBinds ==
  ASSUME IInv, IInv', BInv, NEW r \in requests, Handle(r) \/ Fault(r)
  PROVE  BInv'
<1>1. CASE RecordBatch(r)
  BY <1>1, RecordBatchBinds
<1>2. ASSUME NEW i, Deliver(r, i)
      PROVE  BInv'
  BY <1>2, DeliverBinds
<1>3. CASE /\ \/ FindActiveToken(r) \/ FindHost(r) \/ CheckEnrolment(r) \/ LookUpTarget(r)
              \/ CreateTarget(r) \/ InsertHost(r) \/ ConsumeEnrolment(r) \/ BindHost(r)
           /\ UNCHANGED <<writerVars, pushVars>>
  <2>1. UNCHANGED <<agent, speakers, reopened, upset>>
    BY <1>3 DEF pushVars
  <2> QED
    BY <1>3, <2>1, FindActiveTokenBinds, FindHostBinds, CheckEnrolmentBinds, LookUpTargetBinds,
       CreateTargetBinds, InsertHostBinds, ConsumeEnrolmentBinds, BindHostBinds
<1>4. CASE \/ HandlerFails(r) /\ Interferes(r.machine) /\ UNCHANGED <<agent, speakers, reopened>>
           \/ RejectBatch(r) /\ UNCHANGED <<agent, speakers, upset, reopened>>
  BY <1>4, FailureBinds DEF Interferes
<1> QED
  BY <1>1, <1>2, <1>3, <1>4 DEF Handle, Fault

LEMMA NextBInv == IInv /\ IInv' /\ BInv /\ [Next]_vars => BInv'
<1> SUFFICES ASSUME IInv, IInv', BInv, [Next]_vars
             PROVE  BInv'
  OBVIOUS
<1>1. ASSUME NEW a \in Agents, Collect(a) \/ Loop(a) \/ GiveUp(a) \/ Restart(a) \/ Help(a)
      PROVE  BInv'
  <2>1. CASE Loop(a)
    BY <2>1, SendBinds, AcknowledgedBinds, RefusedBinds DEF Loop
  <2>2. CASE Help(a)
    <3>1. KeyOf[a] \in Machines
      BY PushAssumption
    <3> QED
      BY <2>2, <3>1, AdministerBinds DEF Help
  <2> QED
    BY <1>1, <2>1, <2>2, CollectBinds, GiveUpBinds, RestartBinds
<1>2. ASSUME NEW r \in requests, Handle(r) \/ Fault(r)
      PROVE  BInv'
  BY <1>2, ServerBinds
<1>3. CASE Administer
  <2>1. UNCHANGED <<agent, speakers>>
    BY <1>3 DEF Administer
  <2>2. ASSUME NEW t \in Tokens, RevokeToken(t) \/ TokenExpires(t), UNCHANGED <<upset, reopened>>
        PROVE  BInv'
    <3>1. UNCHANGED <<requests, host, target, issued>>
      BY <2>2 DEF RevokeToken, TokenExpires
    <3> QED
      BY <2>1, <2>2, <3>1, SecretsAside
  <2>3. ASSUME NEW k \in Machines,
               \/ /\ AllowRebind(k) \/ DeleteTarget(k)
                  /\ Interferes(k) /\ reopened' = reopened \cup {k}
               \/ WindowCloses(k) /\ UNCHANGED <<upset, reopened>>
        PROVE  BInv'
    BY <2>1, <2>3, AdministerBinds
  <2> QED
    BY <1>3, <2>2, <2>3 DEF Administer
<1>4. CASE Writer \/ VictoriaFails \/ UNCHANGED vars
  <2>1. UNCHANGED <<requests, host, target, issued, speakers, agent, upset, reopened>>
    BY <1>4 DEF Writer, VictoriaFails, vars, enrolmentVars, pushVars
  <2> QED
    BY <2>1, SecretsAside
<1> QED
  BY <1>1, <1>2, <1>3, <1>4, CrashBinds DEF Next

THEOREM BindingInvariance == Spec => []BInv
<1>1. BInv /\ IInv /\ IInv' /\ [Next]_vars => BInv'
  BY NextBInv
<1> QED
  BY <1>1, InitBInv, Invariance, PTL DEF Spec

\* One installation speaks for a machine: unless an administrator reopened or
\* deleted it, the handler never takes the samples of a second agent with the
\* same key as the machine's, for any number of clones that enrol at once, and
\* whatever answers are lost.
THEOREM OneVoiceKept == Spec => []OneVoice
<1>1. BInv => OneVoice
  BY DEF BInv, Voice, OneVoice
<1> QED
  BY <1>1, BindingInvariance, PTL

\* No machine is locked out by what agents and server do when nothing
\* interferes: the secret in its row is held by an agent of the machine, or by
\* the answer this agent waits for.
THEOREM BindingKept == Spec => []BindingHolds
<1>1. BInv => BindingHolds
  BY DEF BInv, Bond, Reaches, IsBound, BindingHolds
<1> QED
  BY <1>1, BindingInvariance, PTL
=============================================================================
