--------------------------- MODULE AgentPushProofs --------------------------
(***************************************************************************)
(* Proofs about AgentPush, for every number of agents, machines and        *)
(* samples, every capacity of the buffers, of the batches and of the       *)
(* channel, and any number of mishaps: the type invariant, the order and   *)
(* the size of the queues, and that no sample disappears without a trace.  *)
(***************************************************************************)
EXTENDS AgentPush, SequenceTheorems, FiniteSetTheorems, TLAPS

-----------------------------------------------------------------------------
(* Sequences.                                                              *)

\* A part of a sequence.
LEMMA PartOf ==
  ASSUME NEW S, NEW s \in Seq(S), NEW m \in Int, NEW n \in Int, 1 <= m, n <= Len(s)
  PROVE  /\ SubSeq(s, m, n) \in Seq(S)
         /\ Len(SubSeq(s, m, n)) = IF m <= n THEN n - m + 1 ELSE 0
         /\ \A i \in 1..Len(SubSeq(s, m, n)) :
              SubSeq(s, m, n)[i] = s[m + i - 1] /\ m + i - 1 \in m..n
<1>1. Len(s) \in Nat /\ \A i \in 1..Len(s) : s[i] \in S
  BY LenProperties, ElementOfSeq
<1>2. \A i \in m..n : s[i] \in S
  BY <1>1
<1>3. /\ SubSeq(s, m, n) \in Seq(S)
      /\ Len(SubSeq(s, m, n)) = IF m <= n THEN n - m + 1 ELSE 0
      /\ \A i \in 1..(n - m + 1) : SubSeq(s, m, n)[i] = s[m + i - 1]
  BY <1>2, SubSeqProperties
<1>4. ASSUME NEW i \in 1..Len(SubSeq(s, m, n))
      PROVE  SubSeq(s, m, n)[i] = s[m + i - 1] /\ m + i - 1 \in m..n
  <2>1. i \in 1..(n - m + 1)
    BY <1>3
  <2> QED
    BY <1>3, <2>1
<1> QED
  BY <1>3, <1>4

\* What is in a sequence is in one of the two parts that it is cut into.
LEMMA CutRange ==
  ASSUME NEW S, NEW s \in Seq(S), NEW k \in 0..Len(s)
  PROVE  /\ SubSeq(s, 1, k) \in Seq(S) /\ SubSeq(s, k + 1, Len(s)) \in Seq(S)
         /\ SubSeq(s, 1, k) \o SubSeq(s, k + 1, Len(s)) = s
         /\ Range(s) = Range(SubSeq(s, 1, k)) \cup Range(SubSeq(s, k + 1, Len(s)))
<1> DEFINE front == SubSeq(s, 1, k)
           back == SubSeq(s, k + 1, Len(s))
<1>1. Len(s) \in Nat
  BY LenProperties
<1>2. front \in Seq(S) /\ Len(front) = k /\ \A i \in 1..k : front[i] = s[i]
  BY <1>1, PartOf
<1>3. /\ back \in Seq(S) /\ Len(back) = Len(s) - k
      /\ \A i \in 1..(Len(s) - k) : back[i] = s[k + i]
  BY <1>1, PartOf
<1> HIDE DEF front, back
<1>4. /\ front \o back \in Seq(S) /\ Len(front \o back) = Len(s)
      /\ \A i \in 1..Len(s) : (front \o back)[i] = IF i <= k THEN front[i] ELSE back[i - k]
  BY <1>1, <1>2, <1>3, ConcatProperties
<1>5. \A i \in 1..Len(s) : (front \o back)[i] = s[i]
  BY <1>1, <1>2, <1>3, <1>4
<1>6. front \o back = s
  BY <1>4, <1>5, SeqEqual
<1>7. Range(s) = Range(front) \cup Range(back)
  BY <1>2, <1>3, <1>6, RangeConcatenation
<1> QED
  BY <1>2, <1>3, <1>6, <1>7 DEF front, back

\* Two sequences, one after the other.
LEMMA Joined ==
  ASSUME NEW S, NEW b \in Seq(S), NEW c \in Seq(S)
  PROVE  /\ b \o c \in Seq(S) /\ Len(b \o c) = Len(b) + Len(c)
         /\ Range(b \o c) = Range(b) \cup Range(c)
         /\ Len(b) \in 0..Len(b \o c)
         /\ SubSeq(b \o c, Len(b) + 1, Len(b \o c)) = c
         /\ b = <<>> => b \o c = c
<1> DEFINE s == b \o c
           t == SubSeq(s, Len(b) + 1, Len(s))
<1>1. Len(b) \in Nat /\ Len(c) \in Nat
  BY LenProperties
<1>2. /\ s \in Seq(S) /\ Len(s) = Len(b) + Len(c)
      /\ \A i \in 1..(Len(b) + Len(c)) : s[i] = IF i <= Len(b) THEN b[i] ELSE c[i - Len(b)]
  BY ConcatProperties
<1>3. Range(s) = Range(b) \cup Range(c)
  BY RangeConcatenation
<1>4. b = <<>> => s = c
  BY ConcatEmptySeq
<1> HIDE DEF s
<1>5. /\ t \in Seq(S) /\ Len(t) = Len(c)
      /\ \A i \in 1..Len(t) : t[i] = s[Len(b) + i]
  BY <1>1, <1>2, PartOf
<1> HIDE DEF t
<1>6. ASSUME NEW i \in 1..Len(t)
      PROVE  t[i] = c[i]
  <2>1. i \in 1..Len(c)
    BY <1>5
  <2>2. /\ Len(b) + i \in 1..(Len(b) + Len(c)) /\ ~(Len(b) + i <= Len(b))
        /\ Len(b) + i - Len(b) = i
    BY <1>1, <2>1
  <2>3. s[Len(b) + i] = c[Len(b) + i - Len(b)]
    BY <1>2, <2>2
  <2> QED
    BY <1>5, <2>2, <2>3
<1>7. t = c
  BY <1>5, <1>6, SeqEqual
<1>8. Len(b) \in 0..Len(s)
  BY <1>1, <1>2
<1> QED
  BY <1>2, <1>3, <1>4, <1>7, <1>8 DEF s, t

LEMMA AppendRange ==
  ASSUME NEW S, NEW s \in Seq(S), NEW e \in S
  PROVE  Append(s, e) \in Seq(S) /\ Range(Append(s, e)) = Range(s) \cup {e}
<1> DEFINE t == Append(s, e)
<1>1. Len(s) \in Nat
  BY LenProperties
<1>2. /\ t \in Seq(S) /\ Len(t) = Len(s) + 1
      /\ \A i \in 1..Len(s) : t[i] = s[i]
  BY AppendProperties
<1>3. t[Len(s) + 1] = e
  BY AppendProperties
<1> HIDE DEF t
<1>4. Range(s) = {s[i] : i \in 1..Len(s)} /\ Range(t) = {t[i] : i \in 1..Len(t)}
  BY <1>2, RangeEquality
<1>5. \A i : i \in 1..Len(t) <=> i \in 1..Len(s) \/ i = Len(s) + 1
  BY <1>1, <1>2
<1>6. Range(t) = Range(s) \cup {e}
  BY <1>2, <1>3, <1>4, <1>5
<1> QED
  BY <1>2, <1>6 DEF t

LEMMA EmptyRange ==
  Range(<<>>) = {} /\ Len(<<>>) = 0
  BY DEF Range

-----------------------------------------------------------------------------
(* The buffer of an agent.                                                 *)

\* What an agent still has to send: at most as many as the buffer has room
\* for, in the order in which they were collected.
Orderly(s, collected) ==
  /\ s \in Seq(Sample) /\ Len(s) <= Limit
  /\ \A i \in 1..Len(s) : s[i][2] <= collected
  /\ \A i, j \in 1..Len(s) : i < j => s[i][2] < s[j][2]

LEMMA LimitType == Limit \in Nat /\ Limit >= 1
  BY PushAssumption DEF Limit

\* A later part of an orderly sequence is orderly.
LEMMA OrderlyPart ==
  ASSUME NEW n \in Nat, NEW s, Orderly(s, n), NEW k \in 0..Len(s)
  PROVE  Orderly(SubSeq(s, k + 1, Len(s)), n)
<1> DEFINE t == SubSeq(s, k + 1, Len(s))
<1>1. s \in Seq(Sample) /\ Len(s) \in Nat /\ Len(s) <= Limit
  BY LenProperties DEF Orderly
<1>2. /\ t \in Seq(Sample) /\ Len(t) = Len(s) - k
      /\ \A i \in 1..Len(t) : t[i] = s[k + i] /\ k + i \in 1..Len(s)
  BY <1>1, PartOf
<1> HIDE DEF t
<1>3. Len(t) <= Limit
  BY <1>1, <1>2, LimitType
<1>4. \A i \in 1..Len(t) : t[i][2] <= n
  BY <1>2 DEF Orderly
<1>5. ASSUME NEW i \in 1..Len(t), NEW j \in 1..Len(t), i < j
      PROVE  t[i][2] < t[j][2]
  <2>1. k + i < k + j
    BY <1>5
  <2> QED
    BY <1>2, <2>1 DEF Orderly
<1>6. Orderly(t, n)
  BY <1>2, <1>3, <1>4, <1>5 DEF Orderly
<1> QED
  BY <1>6 DEF t

\* A buffer that fits is left as it is.
LEMMA EnoughRoom ==
  ASSUME NEW s \in Seq(Sample), Len(s) <= Limit
  PROVE  EnforceCapacity(s) = s
<1>1. Overflow(s) = 0 /\ Len(s) \in Nat
  BY LimitType, LenProperties DEF Overflow
<1>2. EnforceCapacity(s) = SubSeq(s, 1, Len(s))
  BY <1>1 DEF EnforceCapacity
<1> QED
  BY <1>2, SubSeqFull

\* A sample joins the buffer; the oldest goes when there is no room for both.
LEMMA OrderlyPush ==
  ASSUME NEW a \in Agents, NEW n \in Nat, NEW s, Orderly(s, n)
  PROVE  LET t == Append(s, <<a, n + 1>>)
         IN Orderly(EnforceCapacity(t), n + 1) /\ t \in Seq(Sample)
<1> DEFINE x == <<a, n + 1>>
           t == Append(s, x)
<1>1. s \in Seq(Sample) /\ Len(s) \in Nat /\ Len(s) <= Limit
  BY LenProperties DEF Orderly
<1>2. x \in Sample /\ x[2] = n + 1
  BY DEF Sample
<1>3. /\ t \in Seq(Sample) /\ Len(t) = Len(s) + 1
      /\ \A i \in 1..Len(s) : t[i] = s[i]
  BY <1>1, <1>2, AppendProperties
<1>3a. t[Len(s) + 1] = x
  BY <1>1, <1>2, AppendProperties
<1>4. \A i \in 1..Len(s) : s[i][2] \in Nat /\ s[i][2] <= n
  BY <1>1, ElementOfSeq DEF Orderly, Sample
<1> HIDE DEF t, x
<1>5. \A i \in 1..Len(t) : t[i][2] <= n + 1
  BY <1>1, <1>2, <1>3, <1>3a, <1>4
<1>6. \A i, j \in 1..Len(t) : i < j => t[i][2] < t[j][2]
  <2> SUFFICES ASSUME NEW i \in 1..Len(t), NEW j \in 1..Len(t), i < j
               PROVE  t[i][2] < t[j][2]
    OBVIOUS
  <2>1. i \in 1..Len(s)
    BY <1>1, <1>3
  <2>2. CASE j \in 1..Len(s)
    BY <1>3, <2>1, <2>2 DEF Orderly
  <2>3. CASE j = Len(s) + 1
    BY <1>2, <1>3, <1>3a, <1>4, <2>1, <2>3
  <2> QED
    BY <1>1, <1>3, <2>2, <2>3
<1> DEFINE k == Overflow(t)
           u == SubSeq(t, k + 1, Len(t))
<1>7. k \in 0..Len(t) /\ Len(t) - k <= Limit
  BY <1>1, <1>3, LimitType DEF Overflow
<1> HIDE DEF k
<1>8. /\ u \in Seq(Sample) /\ Len(u) = Len(t) - k
      /\ \A i \in 1..Len(u) : u[i] = t[k + i] /\ k + i \in 1..Len(t)
  BY <1>1, <1>3, <1>7, PartOf
<1>9. u = EnforceCapacity(t)
  BY DEF EnforceCapacity, k
<1> HIDE DEF u
<1>10. \A i \in 1..Len(u) : u[i][2] <= n + 1
  BY <1>5, <1>8
<1>11. ASSUME NEW i \in 1..Len(u), NEW j \in 1..Len(u), i < j
       PROVE  u[i][2] < u[j][2]
  <2>1. k + i < k + j
    BY <1>7, <1>11
  <2> QED
    BY <1>6, <1>8, <2>1
<1>12. Orderly(u, n + 1)
  BY <1>7, <1>8, <1>10, <1>11 DEF Orderly
<1> QED
  BY <1>3, <1>9, <1>12 DEF t, x

\* The state of an agent.
AgentState ==
  [ buffer : Seq(Sample), batch : Seq(Sample), secret : Nat, file : Nat, supported : BOOLEAN,
    collected : Nat ]

\* What it still has to send, the batch in flight first.
Line(x) == x.batch \o x.buffer

Good(x) == x \in AgentState /\ Orderly(Line(x), x.collected)

LEMMA LineOfGood ==
  ASSUME NEW x, Good(x)
  PROVE  /\ x.batch \in Seq(Sample) /\ x.buffer \in Seq(Sample) /\ Line(x) \in Seq(Sample)
         /\ Len(Line(x)) = Len(x.batch) + Len(x.buffer) /\ Len(Line(x)) <= Limit
         /\ Range(Line(x)) = Range(x.batch) \cup Range(x.buffer)
         /\ x.batch = <<>> => Line(x) = x.buffer
<1>1. x.batch \in Seq(Sample) /\ x.buffer \in Seq(Sample)
  BY DEF Good, AgentState
<1>2. Len(Line(x)) <= Limit
  BY DEF Good, Orderly
<1>3. /\ Line(x) \in Seq(Sample) /\ Len(Line(x)) = Len(x.batch) + Len(x.buffer)
      /\ Range(Line(x)) = Range(x.batch) \cup Range(x.buffer)
      /\ x.batch = <<>> => Line(x) = x.buffer
  <2>1. Line(x) \in Seq(Sample)
    BY <1>1, Joined DEF Line
  <2>2. Len(Line(x)) = Len(x.batch) + Len(x.buffer)
    BY <1>1, Joined DEF Line
  <2>3. Range(Line(x)) = Range(x.batch) \cup Range(x.buffer)
    BY <1>1, Joined DEF Line
  <2>4. x.batch = <<>> => Line(x) = x.buffer
    BY <1>1, Joined DEF Line
  <2> QED
    BY <2>1, <2>2, <2>3, <2>4
<1> QED
  BY <1>1, <1>2, <1>3

\* A batch that failed finds its place in front of the newer samples: nothing is lost.
LEMMA RestoredGood ==
  ASSUME NEW x, Good(x)
  PROVE  /\ Good(Restored(x)) /\ Restored(x).batch = <<>>
         /\ Range(Restored(x).buffer) = Range(x.batch) \cup Range(x.buffer)
         /\ Restored(x).secret = x.secret /\ Restored(x).file = x.file
         /\ Restored(x).collected = x.collected
<1>1. Line(x) \in Seq(Sample) /\ Len(Line(x)) <= Limit
  BY LineOfGood
<1>2. Restore(x) = Line(x)
  BY <1>1, EnoughRoom DEF Restore, Line
<1>3. Restored(x) = [x EXCEPT !.buffer = Line(x), !.batch = <<>>]
  BY <1>2 DEF Restored
<1>4. x \in AgentState /\ <<>> \in Seq(Sample)
  BY DEF Good
<1> DEFINE y == Restored(x)
<1>5. /\ y \in AgentState /\ y.buffer = Line(x) /\ y.batch = <<>>
      /\ y.collected = x.collected /\ y.secret = x.secret /\ y.file = x.file
  BY <1>1, <1>3, <1>4 DEF AgentState
<1> HIDE DEF y
<1>6. Line(y) = Line(x)
  BY <1>1, <1>5, ConcatEmptySeq DEF Line
<1>7. Good(y)
  BY <1>5, <1>6 DEF Good
<1>8. Range(Line(x)) = Range(x.batch) \cup Range(x.buffer)
  BY LineOfGood
<1> QED
  BY <1>5, <1>7, <1>8 DEF y

LEMMA SentGood ==
  ASSUME NEW x, Good(x)
  PROVE  /\ Good(Sent(x)) /\ Sent(x).batch = <<>> /\ Sent(x).buffer = x.buffer
         /\ Sent(x).secret = x.secret /\ Sent(x).file = x.file
         /\ Sent(x).collected = x.collected
<1>1. /\ x.batch \in Seq(Sample) /\ x.buffer \in Seq(Sample) /\ Line(x) \in Seq(Sample)
      /\ Len(Line(x)) = Len(x.batch) + Len(x.buffer)
  BY LineOfGood
<1>2. x \in AgentState /\ <<>> \in Seq(Sample) /\ x.collected \in Nat
  BY DEF Good, AgentState
<1> DEFINE y == Sent(x)
<1>3. /\ y \in AgentState /\ y.buffer = x.buffer /\ y.batch = <<>>
      /\ y.collected = x.collected /\ y.secret = x.secret /\ y.file = x.file
  BY <1>2 DEF AgentState, Sent
<1> HIDE DEF y
<1>4. Line(y) = x.buffer
  BY <1>1, <1>3, ConcatEmptySeq DEF Line
<1>5. x.buffer = SubSeq(Line(x), Len(x.batch) + 1, Len(Line(x)))
  BY <1>1, Joined DEF Line
<1>6. Len(x.batch) \in 0..Len(Line(x))
  BY <1>1, Joined DEF Line
<1>7. Good(y)
  BY <1>2, <1>3, <1>4, <1>5, <1>6, OrderlyPart DEF Good
<1> QED
  BY <1>3, <1>7 DEF y

\* A collection: the new sample is in the buffer, or what is missing was counted.
LEMMA CollectedGood ==
  ASSUME NEW a \in Agents, NEW x, Good(x), x.batch = <<>>
  PROVE  LET n == x.collected + 1
             t == Append(x.buffer, <<a, n>>)
             y == [x EXCEPT !.buffer = EnforceCapacity(t), !.collected = n]
         IN /\ Good(y) /\ y.batch = <<>> /\ y.buffer = EnforceCapacity(t) /\ y.collected = n
            /\ y.secret = x.secret /\ y.file = x.file /\ y.supported = x.supported
            /\ t \in Seq(Sample) /\ Range(t) = Range(x.buffer) \cup {<<a, n>>}
<1> DEFINE n == x.collected + 1
           t == Append(x.buffer, <<a, n>>)
           y == [x EXCEPT !.buffer = EnforceCapacity(t), !.collected = n]
<1>1. /\ x \in AgentState /\ x.collected \in Nat /\ x.buffer \in Seq(Sample)
      /\ Line(x) = x.buffer
  BY LineOfGood DEF Good, AgentState
<1>2. Orderly(x.buffer, x.collected)
  BY <1>1 DEF Good
<1>3. Orderly(EnforceCapacity(t), n) /\ t \in Seq(Sample)
  BY <1>1, <1>2, OrderlyPush
<1>4. Range(t) = Range(x.buffer) \cup {<<a, n>>}
  <2>1. <<a, n>> \in Sample
    BY <1>1 DEF Sample
  <2> QED
    BY <1>1, <2>1, AppendRange
<1>5. EnforceCapacity(t) \in Seq(Sample) /\ n \in Nat
  BY <1>1, <1>3 DEF Orderly
<1> HIDE DEF t, n
<1>6. /\ y \in AgentState /\ y.batch = <<>> /\ y.buffer = EnforceCapacity(t) /\ y.collected = n
      /\ y.secret = x.secret /\ y.file = x.file /\ y.supported = x.supported
  BY <1>1, <1>5 DEF AgentState
<1> HIDE DEF y
<1>7. Line(y) = EnforceCapacity(t)
  BY <1>5, <1>6, Joined DEF Line, AgentState
<1>8. Good(y)
  BY <1>3, <1>6, <1>7 DEF Good
<1> QED
  BY <1>3, <1>4, <1>6, <1>8 DEF y, t, n

\* A batch is cut from the front of the buffer.
LEMMA BatchGood ==
  ASSUME NEW x, Good(x), x.batch = <<>>, x.buffer # <<>>
  PROVE  LET k == Take(x.buffer)
             batch == SubSeq(x.buffer, 1, k)
             y == [x EXCEPT !.batch = batch, !.buffer = SubSeq(x.buffer, k + 1, Len(x.buffer))]
         IN /\ Good(y) /\ y.batch = batch /\ batch \in Seq(Sample) /\ batch # <<>>
            /\ Range(x.buffer) = Range(y.batch) \cup Range(y.buffer)
            /\ y.secret = x.secret /\ y.file = x.file /\ y.collected = x.collected
            /\ y.supported = x.supported
<1> DEFINE k == Take(x.buffer)
           batch == SubSeq(x.buffer, 1, k)
           rest == SubSeq(x.buffer, k + 1, Len(x.buffer))
           y == [x EXCEPT !.batch = batch, !.buffer = rest]
<1>1. /\ x \in AgentState /\ x.buffer \in Seq(Sample) /\ Line(x) = x.buffer
  BY LineOfGood DEF Good, AgentState
<1>2. Len(x.buffer) \in Nat /\ Len(x.buffer) # 0
  BY <1>1, EmptySeq
<1>3. k \in 0..Len(x.buffer) /\ k >= 1
  BY <1>2, PushAssumption DEF Take
<1> HIDE DEF k
<1>4. /\ batch \in Seq(Sample) /\ rest \in Seq(Sample) /\ batch \o rest = x.buffer
      /\ Range(x.buffer) = Range(batch) \cup Range(rest)
  BY <1>1, <1>3, CutRange
<1>5. Len(batch) = k
  BY <1>1, <1>2, <1>3, PartOf
<1> HIDE DEF batch, rest
<1>6. batch # <<>>
  BY <1>3, <1>5, EmptyRange
<1>7. /\ y \in AgentState /\ y.batch = batch /\ y.buffer = rest /\ y.secret = x.secret
      /\ y.file = x.file /\ y.collected = x.collected /\ y.supported = x.supported
  BY <1>1, <1>4 DEF AgentState
<1> HIDE DEF y
<1>8. Good(y)
  BY <1>1, <1>4, <1>7 DEF Good, Line
<1> QED
  BY <1>4, <1>6, <1>7, <1>8 DEF y, batch, rest, k

\* A restart leaves nothing to send.
LEMMA RestartedGood ==
  ASSUME NEW x, Good(x), NEW up \in BOOLEAN
  PROVE  LET y == [x EXCEPT !.buffer = <<>>, !.batch = <<>>, !.secret = x.file,
                            !.supported = up \/ x.supported]
         IN /\ Good(y) /\ y.batch = <<>> /\ y.secret = x.file /\ y.file = x.file
            /\ y.collected = x.collected
<1> DEFINE y == [x EXCEPT !.buffer = <<>>, !.batch = <<>>, !.secret = x.file,
                          !.supported = up \/ x.supported]
<1>1. /\ x \in AgentState /\ <<>> \in Seq(Sample) /\ x.supported \in BOOLEAN /\ x.file \in Nat
      /\ x.collected \in Nat
  BY DEF Good, AgentState
<1>2. (up \/ x.supported) \in BOOLEAN
  OBVIOUS
<1>3. /\ y \in AgentState /\ y.batch = <<>> /\ y.buffer = <<>> /\ y.secret = x.file
      /\ y.file = x.file /\ y.collected = x.collected
  BY <1>1, <1>2 DEF AgentState
<1> HIDE DEF y
<1>4. Line(y) = <<>>
  BY <1>1, <1>3, Joined DEF Line
<1>5. Orderly(<<>>, x.collected)
  BY LimitType, EmptyRange DEF Orderly
<1>6. Good(y)
  BY <1>3, <1>4, <1>5 DEF Good
<1> QED
  BY <1>3, <1>6 DEF y

-----------------------------------------------------------------------------
(* Requests.                                                               *)

\* A request is answered only while its agent waits, and with a verdict; one
\* that is about to write the host's row knows its target.
Valid(r) ==
  /\ r \in Request
  /\ r.machine = KeyOf[r.from] /\ r.token = TokenOf[r.from]
  /\ r.stage = "answered" => r.awaited /\ r.verdict # "none"
  /\ r.stage \in {"insert", "bind"} \/ (r.stage = "allowed" /\ ~r.enrols)
     => r.target # NoTarget

\* new is r, further on in the hands of the server.
Same(r, new) ==
  /\ new \in Request
  /\ new.no = r.no /\ new.from = r.from /\ new.machine = r.machine /\ new.token = r.token
  /\ new.batch = r.batch /\ new.secret = r.secret /\ new.supported = r.supported

\* The batch has been handed to the writer.
Taken(r) == r.awaited /\ (r.stage = "record" \/ (r.stage = "answered" /\ r.verdict = "ack"))

\* What a statement does to a request: it goes on, or is answered, or ends
\* because nobody waits.
Moves(r, new) == Same(r, new) /\ Valid(new) /\ new.awaited = r.awaited

LEMMA NewVerdict ==
  ASSUME NEW r, Valid(r), NEW v \in Verdicts
  PROVE  LET new == [r EXCEPT !.stage = "answered", !.verdict = v]
         IN /\ Same(r, new) /\ new.stage = "answered" /\ new.target = r.target
            /\ new.enrols = r.enrols /\ new.issued = r.issued /\ new.verdict = v
            /\ new.awaited = r.awaited
  BY DEF Valid, Same, Request, Stages

LEMMA Unawaited ==
  ASSUME NEW r, Valid(r), r.stage # "answered"
  PROVE  LET new == [r EXCEPT !.awaited = FALSE]
         IN /\ Same(r, new) /\ Valid(new) /\ new.stage = r.stage /\ new.target = r.target
            /\ new.enrols = r.enrols /\ new.issued = r.issued /\ new.verdict = r.verdict
            /\ new.awaited = FALSE
<1> DEFINE new == [r EXCEPT !.awaited = FALSE]
<1>1. /\ Same(r, new) /\ new.stage = r.stage /\ new.target = r.target
      /\ new.enrols = r.enrols /\ new.issued = r.issued /\ new.verdict = r.verdict
      /\ new.awaited = FALSE
  BY DEF Valid, Same, Request
<1> HIDE DEF new
<1>2. Valid(new)
  BY <1>1 DEF Valid, Same
<1> QED
  BY <1>1, <1>2 DEF new

\* A request that only goes on stays valid.
LEMMA GoesOn ==
  ASSUME NEW r, Valid(r), NEW new, Same(r, new), new.awaited = r.awaited,
         new.stage # "answered",
         new.stage \in {"insert", "bind"} \/ (new.stage = "allowed" /\ ~new.enrols)
           => new.target # NoTarget
  PROVE  Moves(r, new)
  BY DEF Valid, Same, Moves

LEMMA Answered ==
  ASSUME NEW r \in requests, Valid(r), NEW v \in Verdicts \ {"none"}, Answer(r, v)
  PROVE  \/ /\ ~r.awaited /\ requests' = requests \ {r}
         \/ \E new : /\ requests' = (requests \ {r}) \cup {new}
                     /\ Moves(r, new) /\ r.awaited /\ new.stage = "answered"
                     /\ new.verdict = v /\ new.issued = r.issued /\ new.target = r.target
                     /\ new.enrols = r.enrols
<1> DEFINE new == [r EXCEPT !.stage = "answered", !.verdict = v]
<1>1. /\ Same(r, new) /\ new.stage = "answered" /\ new.target = r.target
      /\ new.enrols = r.enrols /\ new.issued = r.issued /\ new.verdict = v
      /\ new.awaited = r.awaited
  BY NewVerdict
<1>2. requests' = (requests \ {r}) \cup {q \in {new} : r.awaited}
  BY DEF Answer
<1> HIDE DEF new
<1>3. CASE ~r.awaited
  BY <1>2, <1>3
<1>4. CASE r.awaited
  <2>1. Valid(new)
    BY <1>1, <1>4 DEF Valid, Same
  <2>2. requests' = (requests \ {r}) \cup {new}
    BY <1>2, <1>4
  <2> QED
    BY <1>1, <1>4, <2>1, <2>2 DEF Moves
<1> QED
  BY <1>3, <1>4

-----------------------------------------------------------------------------
(* The tables of the server, and its statements.                           *)

\* A row of agent_hosts refers to the target of its machine.
Tables ==
  /\ tokens \in [Tokens -> [uses : Nat, revoked : BOOLEAN, expired : BOOLEAN]]
  /\ target \in [Machines -> Nat]
  /\ host \in [Machines -> Host \cup {NoHost}]
  /\ \A m \in Machines : host[m] # NoHost => host[m].target = target[m]
  /\ issued \in Nat

LEMMA HostRow ==
  ASSUME Tables, NEW m \in Machines
  PROVE  /\ host[m].target \in Nat /\ (host[m] = NoHost <=> host[m].target = NoTarget)
         /\ host[m] # NoHost => host[m] \in Host /\ host[m].target = target[m]
  BY DEF Tables, Host, NoHost, NoTarget

LEMMA RequestFields ==
  ASSUME NEW r, Valid(r)
  PROVE  /\ r.machine \in Machines /\ r.token \in Tokens /\ r.from \in Agents
         /\ r.batch \in Seq(Sample) /\ r.secret \in Nat /\ r.target \in Nat /\ r.issued \in Nat
         /\ r.stage \in Stages /\ r.awaited \in BOOLEAN /\ r.enrols \in BOOLEAN /\ r.no \in Nat
         /\ r.verdict \in Verdicts /\ r.supported \in BOOLEAN
  BY DEF Valid, Request

\* How a step of the server leaves the requests.
Advances(r) ==
  \/ ~r.awaited /\ requests' = requests \ {r}
  \/ \E new : Moves(r, new) /\ requests' = (requests \ {r}) \cup {new} /\ ~Taken(new)

LEMMA AnswerAdvances ==
  ASSUME NEW r \in requests, Valid(r), NEW v \in Verdicts \ {"none", "ack"}, Answer(r, v)
  PROVE  Advances(r)
  BY Answered DEF Advances, Taken

LEMMA BecomesAdvances ==
  ASSUME NEW r \in requests, Valid(r), NEW new, Same(r, new), new.awaited = r.awaited,
         new.stage \notin {"answered", "record"},
         new.stage \in {"insert", "bind"} \/ (new.stage = "allowed" /\ ~new.enrols)
           => new.target # NoTarget,
         Becomes(r, new)
  PROVE  Advances(r)
<1>1. Moves(r, new)
  BY GoesOn
<1>2. ~Taken(new)
  BY DEF Taken
<1> QED
  BY <1>1, <1>2 DEF Becomes, Advances

LEMMA GoesAdvances ==
  ASSUME NEW r \in requests, Valid(r), NEW stage \in Stages \ {"answered", "record"},
         stage \in {"insert", "bind"} \/ (stage = "allowed" /\ ~r.enrols)
           => r.target # NoTarget,
         Goes(r, stage)
  PROVE  Advances(r)
<1> DEFINE new == [r EXCEPT !.stage = stage]
<1>1. stage \in Stages /\ stage \notin {"answered", "record"}
  BY DEF Stages
<1>2. /\ Same(r, new) /\ new.stage = stage /\ new.target = r.target /\ new.enrols = r.enrols
      /\ new.awaited = r.awaited
  BY <1>1 DEF Valid, Same, Request
<1>3. Becomes(r, new)
  BY DEF Goes
<1> HIDE DEF new
<1> QED
  BY <1>1, <1>2, <1>3, BecomesAdvances

LEMMA EnrolsAdvances ==
  ASSUME NEW r \in requests, Valid(r), NEW stage \in Stages \ {"answered", "record"},
         stage \in {"insert", "bind"} => r.target # NoTarget,
         Becomes(r, [r EXCEPT !.stage = stage, !.enrols = TRUE])
  PROVE  Advances(r)
<1> DEFINE new == [r EXCEPT !.stage = stage, !.enrols = TRUE]
<1>1. stage \in Stages /\ stage \notin {"answered", "record"}
  BY DEF Stages
<1>2. /\ Same(r, new) /\ new.stage = stage /\ new.target = r.target /\ new.enrols = TRUE
      /\ new.awaited = r.awaited
  BY <1>1 DEF Valid, Same, Request
<1>3. Becomes(r, new)
  BY DEF Goes
<1> HIDE DEF new
<1> QED
  BY <1>1, <1>2, <1>3, BecomesAdvances

LEMMA TargetAdvances ==
  ASSUME NEW r \in requests, Valid(r), NEW stage \in Stages \ {"answered", "record"}, NEW t \in Nat,
         stage \in {"insert", "bind", "allowed"} => t # NoTarget,
         Becomes(r, [r EXCEPT !.stage = stage, !.target = t])
  PROVE  Advances(r)
<1> DEFINE new == [r EXCEPT !.stage = stage, !.target = t]
<1>1. stage \in Stages /\ stage \notin {"answered", "record"}
  BY DEF Stages
<1>2. /\ Same(r, new) /\ new.stage = stage /\ new.target = t /\ new.enrols = r.enrols
      /\ new.awaited = r.awaited
  BY <1>1 DEF Valid, Same, Request
<1>3. Becomes(r, new)
  BY DEF Goes
<1> HIDE DEF new
<1> QED
  BY <1>1, <1>2, <1>3, BecomesAdvances

LEMMA SecretAdvances ==
  ASSUME NEW r \in requests, Valid(r), NEW stage \in {"count", "load"}, NEW s \in Nat,
         Becomes(r, [r EXCEPT !.stage = stage, !.issued = s])
  PROVE  Advances(r)
<1> DEFINE new == [r EXCEPT !.stage = stage, !.issued = s]
<1>1. stage \in Stages /\ stage \notin {"answered", "record"}
  BY DEF Stages
<1>2. /\ Same(r, new) /\ new.stage = stage /\ new.target = r.target /\ new.enrols = r.enrols
      /\ new.awaited = r.awaited
  BY <1>1 DEF Valid, Same, Request
<1>3. Becomes(r, new)
  BY DEF Goes
<1> HIDE DEF new
<1> QED
  BY <1>1, <1>2, <1>3, BecomesAdvances

\* A statement that writes no table.
LEMMA TablesKept ==
  ASSUME Tables, UNCHANGED <<tokens, target, host, issued>>
  PROVE  Tables'
  BY DEF Tables

LEMMA FindActiveTokenStep ==
  ASSUME Tables, NEW r \in requests, Valid(r), FindActiveToken(r)
  PROVE  Tables' /\ Advances(r)
<1>1. Tables'
  BY TablesKept DEF FindActiveToken
<1>2. CASE Answer(r, "unauthorized")
  BY <1>1, <1>2, AnswerAdvances DEF Verdicts
<1>3. CASE Goes(r, "host")
  BY <1>1, <1>3, GoesAdvances DEF Stages
<1> QED
  BY <1>1, <1>2, <1>3 DEF FindActiveToken

LEMMA FindHostStep ==
  ASSUME Tables, NEW r \in requests, Valid(r), FindHost(r)
  PROVE  Tables' /\ Advances(r)
<1>1. Tables'
  BY TablesKept DEF FindHost
<1>2. /\ r.machine \in Machines
      /\ host[r.machine].target \in Nat
      /\ host[r.machine] # NoHost => host[r.machine].target # NoTarget
  BY RequestFields, HostRow
<1>3. CASE Becomes(r, [r EXCEPT !.stage = "allowed", !.enrols = TRUE])
  BY <1>1, <1>3, EnrolsAdvances DEF Stages
<1>4. CASE Becomes(r, [r EXCEPT !.stage = "load", !.target = host[r.machine].target])
  BY <1>1, <1>2, <1>4, TargetAdvances DEF Stages
<1>5. CASE /\ MayRebind(r)
           /\ Becomes(r, [r EXCEPT !.stage = IF Exempt(r) THEN "bind" ELSE "allowed",
                                   !.target = host[r.machine].target])
  <2> DEFINE stage == IF Exempt(r) THEN "bind" ELSE "allowed"
  <2>1. stage \in Stages /\ stage \in {"bind", "allowed"}
    BY DEF Stages
  <2>2. host[r.machine].target # NoTarget
    BY <1>2, <1>5 DEF MayRebind
  <2> HIDE DEF stage
  <2>3. Becomes(r, [r EXCEPT !.stage = stage, !.target = host[r.machine].target])
    BY <1>5 DEF stage
  <2> QED
    BY <1>1, <1>2, <2>1, <2>2, <2>3, TargetAdvances
<1>6. CASE Answer(r, "forbidden")
  BY <1>1, <1>6, AnswerAdvances DEF Verdicts
<1> QED
  BY <1>1, <1>3, <1>4, <1>5, <1>6 DEF FindHost

LEMMA CheckEnrolmentStep ==
  ASSUME Tables, NEW r \in requests, Valid(r), CheckEnrolment(r)
  PROVE  Tables' /\ Advances(r)
<1>1. Tables'
  BY TablesKept DEF CheckEnrolment
<1>2. CASE Answer(r, "forbidden")
  BY <1>1, <1>2, AnswerAdvances DEF Verdicts
<1>3. CASE Goes(r, IF r.enrols THEN "lookup" ELSE "bind")
  <2> DEFINE stage == IF r.enrols THEN "lookup" ELSE "bind"
  <2>1. stage \in Stages /\ stage \notin {"answered", "record", "allowed", "insert"}
    BY DEF Stages
  <2>2. stage = "bind" => r.target # NoTarget
    BY DEF CheckEnrolment, At, Valid
  <2> HIDE DEF stage
  <2>3. Goes(r, stage)
    BY <1>3 DEF stage
  <2> QED
    BY <1>1, <2>1, <2>2, <2>3, GoesAdvances
<1> QED
  BY <1>1, <1>2, <1>3 DEF CheckEnrolment

LEMMA LookUpTargetStep ==
  ASSUME Tables, NEW r \in requests, Valid(r), LookUpTarget(r)
  PROVE  Tables' /\ Advances(r)
<1>1. Tables'
  BY TablesKept DEF LookUpTarget
<1>2. target[r.machine] \in Nat
  BY RequestFields DEF Tables
<1>3. CASE Goes(r, "create")
  BY <1>1, <1>3, GoesAdvances DEF Stages
<1>4. CASE /\ target[r.machine] # NoTarget
           /\ Becomes(r, [r EXCEPT !.stage = "insert", !.target = target[r.machine]])
  BY <1>1, <1>2, <1>4, TargetAdvances DEF Stages
<1> QED
  BY <1>1, <1>3, <1>4 DEF LookUpTarget

LEMMA CreateTargetStep ==
  ASSUME Tables, NEW r \in requests, Valid(r), CreateTarget(r)
  PROVE  Tables' /\ Advances(r)
<1>1. r.machine \in Machines
  BY RequestFields
<1>2. CASE target[r.machine] # NoTarget
  <2>1. Tables'
    BY <1>2, TablesKept DEF CreateTarget
  <2>2. Answer(r, "internal")
    BY <1>2 DEF CreateTarget
  <2> QED
    BY <2>1, <2>2, AnswerAdvances DEF Verdicts
<1>3. CASE target[r.machine] = NoTarget
  <2>1. host[r.machine] = NoHost
    BY <1>1, <1>3, HostRow
  <2>2. /\ issued' = issued + 1 /\ target' = [target EXCEPT ![r.machine] = issued + 1]
        /\ Becomes(r, [r EXCEPT !.stage = "insert", !.target = issued + 1])
        /\ UNCHANGED <<tokens, host>>
    BY <1>3 DEF CreateTarget
  <2>3. Tables'
    BY <1>1, <2>1, <2>2 DEF Tables
  <2>4. issued + 1 \in Nat /\ issued + 1 # NoTarget
    BY DEF Tables, NoTarget
  <2>5. Advances(r)
    BY <2>2, <2>4, TargetAdvances DEF Stages
  <2> QED
    BY <2>3, <2>5
<1> QED
  BY <1>2, <1>3

LEMMA InsertHostStep ==
  ASSUME Tables, NEW r \in requests, Valid(r), InsertHost(r)
  PROVE  Tables' /\ Advances(r)
<1>1. /\ r.machine \in Machines /\ r.token \in Tokens /\ r.target \in Nat
      /\ r.target # NoTarget
  BY RequestFields DEF InsertHost, At, Valid
<1>2. CASE host[r.machine] # NoHost \/ target[r.machine] # r.target
  <2>1. Tables'
    BY <1>2, TablesKept DEF InsertHost
  <2>2. Answer(r, "internal")
    BY <1>2 DEF InsertHost
  <2> QED
    BY <2>1, <2>2, AnswerAdvances DEF Verdicts
<1>3. CASE ~(host[r.machine] # NoHost \/ target[r.machine] # r.target)
  <2>1. /\ issued' = issued + 1 /\ host' = [host EXCEPT ![r.machine] = Inserted(r)]
        /\ Becomes(r, [r EXCEPT !.stage = "count", !.issued = issued + 1])
        /\ UNCHANGED <<tokens, target>>
    BY <1>3 DEF InsertHost
  <2>2. issued \in Nat /\ issued + 1 \in Nat
    BY DEF Tables
  <2>3. Inserted(r) \in Host /\ Inserted(r).target = target[r.machine]
    BY <1>1, <1>3, <2>2 DEF Inserted, Host
  <2>4. Tables'
    BY <1>1, <2>1, <2>2, <2>3 DEF Tables
  <2>5. Advances(r)
    BY <2>1, <2>2, SecretAdvances
  <2> QED
    BY <2>4, <2>5
<1> QED
  BY <1>2, <1>3

LEMMA ConsumeEnrolmentStep ==
  ASSUME Tables, NEW r \in requests, Valid(r), ConsumeEnrolment(r)
  PROVE  Tables' /\ Advances(r)
<1>1. r.token \in Tokens
  BY RequestFields
<1>2. tokens' \in [Tokens -> [uses : Nat, revoked : BOOLEAN, expired : BOOLEAN]]
  BY <1>1 DEF ConsumeEnrolment, Tables
<1>3. Tables'
  BY <1>2 DEF ConsumeEnrolment, Tables
<1>4. Advances(r)
  BY GoesAdvances DEF ConsumeEnrolment, Stages
<1> QED
  BY <1>3, <1>4

LEMMA BoundHost ==
  ASSUME Tables, NEW r, Valid(r), host[r.machine] # NoHost
  PROVE  /\ Bound(r) \in Host /\ Bound(r).target = host[r.machine].target
         /\ Bound(r).secret = issued + 1 /\ Bound(r).token = r.token
         /\ Bound(r).rebind_open = FALSE
<1>1. host[r.machine] \in Host /\ r.token \in Tokens /\ issued + 1 \in Nat
  BY RequestFields, HostRow DEF Tables
<1> QED
  BY <1>1 DEF Bound, Host

LEMMA BindHostStep ==
  ASSUME Tables, NEW r \in requests, Valid(r), BindHost(r)
  PROVE  Tables' /\ Advances(r)
<1>1. /\ r.machine \in Machines /\ r.target # NoTarget /\ issued \in Nat /\ issued' = issued + 1
      /\ issued + 1 \in Nat /\ UNCHANGED <<tokens, target>>
  BY RequestFields DEF BindHost, At, Valid, Tables
<1>2. Advances(r)
  BY <1>1, SecretAdvances DEF BindHost
<1>3. CASE host[r.machine].target = r.target
  <2>1. host[r.machine] # NoHost /\ host[r.machine].target = target[r.machine]
    BY <1>1, <1>3, HostRow
  <2>2. host' = [host EXCEPT ![r.machine] = Bound(r)]
    BY <1>3 DEF BindHost
  <2>3. Tables'
    BY <1>1, <2>1, <2>2, BoundHost DEF Tables
  <2> QED
    BY <1>2, <2>3
<1>4. CASE host[r.machine].target # r.target
  <2>1. host' = host
    BY <1>4 DEF BindHost
  <2>2. Tables'
    BY <1>1, <2>1 DEF Tables
  <2> QED
    BY <1>2, <2>2
<1> QED
  BY <1>3, <1>4

LEMMA HandlerEnds ==
  ASSUME Tables, NEW r \in requests, Valid(r), HandlerFails(r) \/ RejectBatch(r)
  PROVE  Tables' /\ Advances(r)
<1>1. Tables'
  BY TablesKept DEF HandlerFails, RejectBatch
<1>2. Answer(r, "internal") \/ Answer(r, "rejected")
  BY DEF HandlerFails, RejectBatch
<1>3. Advances(r)
  BY <1>2, AnswerAdvances DEF Verdicts
<1> QED
  BY <1>1, <1>3

\* Administrators and time change the tables only.
LEMMA AdministratorStep ==
  ASSUME Tables,
         \/ \E m \in Machines : AllowRebind(m) \/ DeleteTarget(m) \/ WindowCloses(m)
         \/ \E t \in Tokens : RevokeToken(t) \/ TokenExpires(t)
  PROVE  Tables' /\ requests' = requests
<1>1. ASSUME NEW m \in Machines, AllowRebind(m) \/ WindowCloses(m)
      PROVE  Tables' /\ requests' = requests
  <2>1. host[m] # NoHost /\ host[m] \in Host /\ host[m].target = target[m]
    BY <1>1, HostRow DEF AllowRebind, WindowCloses
  <2>2. PICK b \in BOOLEAN : host' = [host EXCEPT ![m].rebind_open = b]
    BY <1>1 DEF AllowRebind, WindowCloses
  <2>3. /\ [host[m] EXCEPT !.rebind_open = b] \in Host
        /\ [host[m] EXCEPT !.rebind_open = b].target = host[m].target
    BY <2>1 DEF Host
  <2>4. /\ host' \in [Machines -> Host \cup {NoHost}]
        /\ \A k \in Machines : host'[k] # NoHost => host'[k].target = target[k]
    BY <2>1, <2>2, <2>3 DEF Tables
  <2> QED
    BY <1>1, <2>4 DEF Tables, AllowRebind, WindowCloses
<1>2. ASSUME NEW m \in Machines, DeleteTarget(m)
      PROVE  Tables' /\ requests' = requests
  BY <1>2 DEF DeleteTarget, Tables, NoTarget
<1>3. ASSUME NEW t \in Tokens, RevokeToken(t) \/ TokenExpires(t)
      PROVE  Tables' /\ requests' = requests
  <2>1. CASE RevokeToken(t)
    BY <2>1 DEF RevokeToken, Tables
  <2>2. CASE TokenExpires(t)
    BY <2>2 DEF TokenExpires, Tables
  <2> QED
    BY <1>3, <2>1, <2>2
<1> QED
  BY <1>1, <1>2, <1>3

-----------------------------------------------------------------------------
(* Agents and requests.                                                    *)

\* An agent waits for exactly one request while it sends, which carries its
\* batch, and for none otherwise; numbers tell requests apart.
ExchangeOf(R, A) ==
  /\ IsFiniteSet(R)
  /\ \A r \in R : Valid(r)
  /\ \A r, q \in R : r.no = q.no => r = q
  /\ \A r, q \in R : r.from = q.from /\ r.awaited /\ q.awaited => r = q
  /\ \A r \in R : r.awaited => r.batch = A[r.from].batch
  /\ \A a \in Agents : A[a].batch # <<>> <=> \E r \in R : r.from = a /\ r.awaited

\* Only the batch of agent a changes.
OnlyBatch(A, B, a) == \A b \in Agents \ {a} : B[b].batch = A[b].batch

LEMMA ExchangeMoves ==
  ASSUME NEW R, NEW A, ExchangeOf(R, A), NEW r \in R, NEW new, Moves(r, new)
  PROVE  ExchangeOf((R \ {r}) \cup {new}, A)
<1> DEFINE Q == (R \ {r}) \cup {new}
<1>1. /\ new.no = r.no /\ new.from = r.from /\ new.batch = r.batch /\ new.awaited = r.awaited
      /\ Valid(new)
  BY DEF Moves, Same
<1>2. IsFiniteSet(Q)
  BY FS_RemoveElement, FS_AddElement DEF ExchangeOf
<1>3. \A q \in Q : Valid(q)
  BY <1>1 DEF ExchangeOf
<1>4. \A p, q \in Q : p.no = q.no => p = q
  BY <1>1 DEF ExchangeOf
<1>5. \A p, q \in Q : p.from = q.from /\ p.awaited /\ q.awaited => p = q
  BY <1>1 DEF ExchangeOf
<1>6. \A q \in Q : q.awaited => q.batch = A[q.from].batch
  BY <1>1 DEF ExchangeOf
<1>7. \A a \in Agents : (\E q \in Q : q.from = a /\ q.awaited)
                        <=> \E q \in R : q.from = a /\ q.awaited
  BY <1>1
<1> HIDE DEF Q
<1>8. ExchangeOf(Q, A)
  BY <1>2, <1>3, <1>4, <1>5, <1>6, <1>7 DEF ExchangeOf
<1> QED
  BY <1>8 DEF Q

\* A request that nobody waits for ends.
LEMMA ExchangeDrops ==
  ASSUME NEW R, NEW A, ExchangeOf(R, A), NEW r \in R, ~r.awaited
  PROVE  ExchangeOf(R \ {r}, A)
<1>1. IsFiniteSet(R \ {r})
  BY FS_RemoveElement DEF ExchangeOf
<1>2. \A a \in Agents : (\E q \in R \ {r} : q.from = a /\ q.awaited)
                        <=> \E q \in R : q.from = a /\ q.awaited
  OBVIOUS
<1> QED
  BY <1>1, <1>2 DEF ExchangeOf

\* The agent takes its answer.
LEMMA ExchangeEnds ==
  ASSUME NEW R, NEW A, ExchangeOf(R, A), NEW r \in R, r.awaited,
         NEW B, OnlyBatch(A, B, r.from), B[r.from].batch = <<>>
  PROVE  ExchangeOf(R \ {r}, B)
<1> DEFINE Q == R \ {r}
<1>1. IsFiniteSet(Q)
  BY FS_RemoveElement DEF ExchangeOf
<1>2. \A q \in Q : q.awaited => q.from # r.from /\ q.from \in Agents
  BY RequestFields DEF ExchangeOf
<1>3. \A q \in Q : q.awaited => q.batch = B[q.from].batch
  BY <1>2 DEF ExchangeOf, OnlyBatch
<1>4. ASSUME NEW a \in Agents
      PROVE  B[a].batch # <<>> <=> \E q \in Q : q.from = a /\ q.awaited
  <2>1. CASE a = r.from
    BY <1>2, <2>1
  <2>2. CASE a # r.from
    <3>1. B[a].batch = A[a].batch
      BY <2>2 DEF OnlyBatch
    <3>2. (\E q \in Q : q.from = a /\ q.awaited) <=> \E q \in R : q.from = a /\ q.awaited
      BY <2>2
    <3> QED
      BY <3>1, <3>2 DEF ExchangeOf
  <2> QED
    BY <2>1, <2>2
<1>5. /\ \A q \in Q : Valid(q)
      /\ \A p, q \in Q : p.no = q.no => p = q
      /\ \A p, q \in Q : p.from = q.from /\ p.awaited /\ q.awaited => p = q
  BY DEF ExchangeOf
<1> HIDE DEF Q
<1>6. ExchangeOf(Q, B)
  BY <1>1, <1>3, <1>4, <1>5 DEF ExchangeOf
<1> QED
  BY <1>6 DEF Q

\* An agent sends a batch.
LEMMA ExchangeBegins ==
  ASSUME NEW R, NEW A, ExchangeOf(R, A), NEW new, Valid(new), new.awaited,
         \A q \in R : q.no # new.no, A[new.from].batch = <<>>, new.batch # <<>>,
         NEW B, OnlyBatch(A, B, new.from), B[new.from].batch = new.batch
  PROVE  ExchangeOf(R \cup {new}, B)
<1> DEFINE Q == R \cup {new}
<1>1. IsFiniteSet(Q)
  BY FS_AddElement DEF ExchangeOf
<1>2. new.from \in Agents /\ \A q \in R : q.from \in Agents
  BY RequestFields DEF ExchangeOf
<1>3. \A q \in R : q.awaited => q.from # new.from
  BY <1>2 DEF ExchangeOf
<1>4. \A q \in Q : q.awaited => q.batch = B[q.from].batch
  BY <1>2, <1>3 DEF ExchangeOf, OnlyBatch
<1>5. ASSUME NEW a \in Agents
      PROVE  B[a].batch # <<>> <=> \E q \in Q : q.from = a /\ q.awaited
  <2>1. CASE a = new.from
    BY <2>1
  <2>2. CASE a # new.from
    <3>1. B[a].batch = A[a].batch
      BY <2>2 DEF OnlyBatch
    <3>2. (\E q \in Q : q.from = a /\ q.awaited) <=> \E q \in R : q.from = a /\ q.awaited
      BY <2>2
    <3> QED
      BY <3>1, <3>2 DEF ExchangeOf
  <2> QED
    BY <2>1, <2>2
<1>6. /\ \A q \in Q : Valid(q)
      /\ \A p, q \in Q : p.no = q.no => p = q
      /\ \A p, q \in Q : p.from = q.from /\ p.awaited /\ q.awaited => p = q
  BY <1>3 DEF ExchangeOf
<1> HIDE DEF Q
<1>7. ExchangeOf(Q, B)
  BY <1>1, <1>4, <1>5, <1>6 DEF ExchangeOf
<1> QED
  BY <1>7 DEF Q

\* The requests that are left when agent a no longer waits.
Others(R, a) == {r \in R : ~(r.from = a /\ r.awaited)}
Late(R, a, late) == {q \in R : late /\ q.from = a /\ q.awaited /\ q.stage # "answered"}
Orphans(R, a, late) == {[r EXCEPT !.awaited = FALSE] : r \in Late(R, a, late)}

LEMMA ExchangeAbandoned ==
  ASSUME NEW R, NEW A, ExchangeOf(R, A), NEW a \in Agents, NEW late \in BOOLEAN,
         NEW B, OnlyBatch(A, B, a), B[a].batch = <<>>
  PROVE  /\ ExchangeOf(Others(R, a) \cup Orphans(R, a, late), B)
         /\ \A q \in Orphans(R, a, late) :
              /\ ~q.awaited
              /\ \E r \in R : /\ r.from = a /\ r.awaited /\ r.stage # "answered" /\ Same(r, q)
                              /\ q.stage = r.stage /\ q.target = r.target
                              /\ q.enrols = r.enrols /\ q.issued = r.issued
<1> DEFINE K == Others(R, a)
           O == Orphans(R, a, late)
           Q == K \cup O
<1>1. ASSUME NEW q \in O
      PROVE  /\ ~q.awaited /\ Valid(q)
             /\ \E r \in R : /\ r.from = a /\ r.awaited /\ r.stage # "answered" /\ Same(r, q)
                             /\ q.stage = r.stage /\ q.target = r.target
                             /\ q.enrols = r.enrols /\ q.issued = r.issued
  <2>1. PICK r \in Late(R, a, late) : q = [r EXCEPT !.awaited = FALSE]
    BY DEF Orphans
  <2>2. r \in R /\ Valid(r) /\ r.from = a /\ r.awaited /\ r.stage # "answered"
    BY DEF Late, ExchangeOf
  <2>3. /\ Same(r, q) /\ Valid(q) /\ q.stage = r.stage /\ q.target = r.target
        /\ q.enrols = r.enrols /\ q.issued = r.issued /\ q.awaited = FALSE
    BY <2>1, <2>2, Unawaited
  <2> QED
    BY <2>2, <2>3
<1>2. IsFiniteSet(Q)
  <2>1. IsFiniteSet(K)
    BY FS_Subset DEF ExchangeOf, Others
  <2>2. IsFiniteSet(O)
    <3>1. \A r, t \in Late(R, a, late) : r = t
      BY DEF Late, ExchangeOf
    <3>2. \A p, q \in O : p = q
      BY <3>1 DEF Orphans
    <3>3. O = {} \/ \E p : O = {p}
      BY <3>2
    <3>4. CASE O = {}
      BY <3>4, FS_EmptySet, Zenon
    <3>5. ASSUME NEW p, O = {p}
          PROVE  IsFiniteSet(O)
      BY <3>5, FS_Singleton, Zenon
    <3> QED
      BY <3>3, <3>4, <3>5, Zenon
  <2> QED
    BY <2>1, <2>2, FS_Union
<1>3. K \subseteq R /\ \A q \in K : q.from = a => ~q.awaited
  BY DEF Others
<1>4. \A q \in Q : Valid(q)
  BY <1>1, <1>3 DEF ExchangeOf
<1>5. ASSUME NEW p \in Q, NEW q \in Q, p.no = q.no
      PROVE  p = q
  <2>1. CASE p \in K /\ q \in K
    BY <1>3, <1>5, <2>1 DEF ExchangeOf
  <2>2. ASSUME NEW u \in K, NEW v \in O
        PROVE  u.no # v.no
    <3>1. PICK r \in R : r.from = a /\ r.awaited /\ v.no = r.no
      BY <1>1 DEF Same
    <3>2. u # r
      BY <1>3, <3>1
    <3> QED
      BY <1>3, <3>1, <3>2 DEF ExchangeOf
  <2>3. CASE p \in O /\ q \in O
    <3>1. PICK r \in Late(R, a, late) : p = [r EXCEPT !.awaited = FALSE]
      BY <2>3 DEF Orphans
    <3>2. PICK t \in Late(R, a, late) : q = [t EXCEPT !.awaited = FALSE]
      BY <2>3 DEF Orphans
    <3>3. r = t
      BY DEF Late, ExchangeOf
    <3> QED
      BY <3>1, <3>2, <3>3
  <2> QED
    BY <1>5, <2>1, <2>2, <2>3
<1>6. \A p, q \in Q : p.from = q.from /\ p.awaited /\ q.awaited => p = q
  BY <1>1, <1>3 DEF ExchangeOf
<1>7. \A q \in R : q.from \in Agents
  BY RequestFields DEF ExchangeOf
<1>8. \A q \in Q : q.awaited => q.batch = B[q.from].batch
  BY <1>1, <1>3, <1>7 DEF ExchangeOf, OnlyBatch
<1>9. ASSUME NEW b \in Agents
      PROVE  B[b].batch # <<>> <=> \E q \in Q : q.from = b /\ q.awaited
  <2>1. CASE b = a
    BY <1>1, <1>3, <2>1
  <2>2. CASE b # a
    <3>1. B[b].batch = A[b].batch
      BY <2>2 DEF OnlyBatch
    <3>2. (\E q \in Q : q.from = b /\ q.awaited) <=> \E q \in R : q.from = b /\ q.awaited
      BY <1>1, <2>2 DEF Others
    <3> QED
      BY <3>1, <3>2 DEF ExchangeOf
  <2> QED
    BY <2>1, <2>2
<1> HIDE DEF Q, K, O
<1>10. ExchangeOf(Q, B)
  BY <1>2, <1>4, <1>5, <1>6, <1>8, <1>9 DEF ExchangeOf
<1> QED
  BY <1>1, <1>10 DEF Q, K, O

LEMMA ExchangeEmpty ==
  ASSUME NEW B, \A a \in Agents : B[a].batch = <<>>
  PROVE  ExchangeOf({}, B)
  BY FS_EmptySet DEF ExchangeOf

\* The batches in flight stay as they are.
LEMMA ExchangeKept ==
  ASSUME NEW R, NEW A, ExchangeOf(R, A), NEW B, \A a \in Agents : B[a].batch = A[a].batch
  PROVE  ExchangeOf(R, B)
  BY RequestFields DEF ExchangeOf

-----------------------------------------------------------------------------
(* The writer, and what becomes of samples.                                *)

PendingBound == IF MaxBuffered > FlushAt - 1 THEN MaxBuffered ELSE FlushAt - 1

WriterOK ==
  /\ channel \in Seq(Seq(Sample)) /\ pending \in Seq(Sample) /\ writing \in BOOLEAN
  /\ stored \subseteq Sample /\ refused \subseteq Sample /\ evicted \subseteq Sample
  /\ ~writing => Len(pending) <= PendingBound

\* The samples the writer has answered for.
Written == InWriter \cup stored \cup refused \cup evicted

InChannel(c) == UNION {Range(c[i]) : i \in DOMAIN c}

LEMMA InChannelBatch ==
  ASSUME NEW c
  PROVE  \A x : x \in InChannel(c) <=> \E b \in Range(c) : x \in Range(b)
<1>1. Range(c) = {c[i] : i \in DOMAIN c}
  BY DEF Range
<1> QED
  BY <1>1 DEF InChannel

LEMMA WrittenParts ==
  /\ InWriter = InChannel(channel) \cup Range(pending)
  /\ InWriter' = InChannel(channel') \cup Range(pending')
  /\ Written = InWriter \cup stored \cup refused \cup evicted
  /\ Written' = InWriter' \cup stored' \cup refused' \cup evicted'
<1>1. InWriter = InChannel(channel) \cup Range(pending)
  BY Zenon DEF InWriter, InChannel
<1>2. InWriter' = InChannel(channel') \cup Range(pending')
  BY Zenon DEF InWriter, InChannel
<1>3. Written = InWriter \cup stored \cup refused \cup evicted
  BY Zenon DEF Written
<1>4. Written' = InWriter' \cup stored' \cup refused' \cup evicted'
  BY Zenon DEF Written
<1> QED
  BY <1>1, <1>2, <1>3, <1>4

LEMMA BoundType ==
  /\ PendingBound \in Nat /\ PendingBound >= MaxBuffered /\ PendingBound >= FlushAt - 1
  /\ FlushAt \in Nat /\ FlushAt >= 1 /\ MaxBuffered \in Nat
  /\ PendingBound' = PendingBound /\ FlushAt' = FlushAt
  BY WriterAssumption DEF PendingBound, FlushAt

LEMMA WriterNext ==
  ASSUME channel' \in Seq(Seq(Sample)), pending' \in Seq(Sample), writing' \in BOOLEAN,
         stored' \subseteq Sample, refused' \subseteq Sample, evicted' \subseteq Sample,
         ~writing' => Len(pending') <= PendingBound
  PROVE  WriterOK'
<1>1. PendingBound' = PendingBound
  BY BoundType
<1> QED
  BY <1>1 DEF WriterOK

LEMMA WriterKept ==
  ASSUME WriterOK, UNCHANGED writerVars
  PROVE  WriterOK' /\ Written' = Written /\ InWriter' = InWriter
  BY BoundType, WrittenParts DEF WriterOK, writerVars

LEMMA InWriterType ==
  ASSUME WriterOK
  PROVE  InWriter \subseteq Sample
<1>1. ASSUME NEW i \in DOMAIN channel
      PROVE  Range(channel[i]) \subseteq Sample
  <2>1. channel[i] \in Seq(Sample)
    BY ElementOfSeq, LenProperties DEF WriterOK
  <2> QED
    BY <2>1, RangeOfSeq
<1>2. Range(pending) \subseteq Sample
  BY RangeOfSeq DEF WriterOK
<1>3. InChannel(channel) \subseteq Sample
  BY <1>1 DEF InChannel
<1> QED
  BY <1>2, <1>3, WrittenParts

\* A batch handed over is in the channel, or counted.
LEMMA SinkSendStep ==
  ASSUME WriterOK, NEW s \in Seq(Sample), SinkSend(s)
  PROVE  WriterOK' /\ Written \cup Range(s) \subseteq Written'
<1>1. /\ UNCHANGED <<pending, writing, stored, evicted>> /\ Range(s) \subseteq Sample
      /\ channel \in Seq(Seq(Sample))
  BY RangeOfSeq DEF SinkSend, WriterOK
<1>2. CASE channel' = Append(channel, s) /\ refused' = refused
  <2>1. channel' \in Seq(Seq(Sample)) /\ Range(channel') = Range(channel) \cup {s}
    BY <1>1, <1>2, AppendRange
  <2>2. WriterOK'
    BY <1>1, <1>2, <2>1, BoundType DEF WriterOK
  <2>3. InChannel(channel) \cup Range(s) \subseteq InChannel(channel')
    BY <2>1, InChannelBatch
  <2> QED
    BY <1>1, <1>2, <2>2, <2>3, WrittenParts
<1>3. CASE refused' = refused \cup Range(s) /\ channel' = channel
  <2>1. WriterOK'
    BY <1>1, <1>3, BoundType DEF WriterOK
  <2> QED
    BY <1>1, <1>3, <2>1, WrittenParts
<1> QED
  BY <1>2, <1>3 DEF SinkSend

LEMMA WriterReceivesStep ==
  ASSUME WriterOK, WriterReceives
  PROVE  WriterOK' /\ Written \subseteq Written'
<1>1. /\ channel \in Seq(Seq(Sample)) /\ channel # <<>> /\ pending \in Seq(Sample)
      /\ pending' = pending \o Head(channel) /\ channel' = Tail(channel)
      /\ writing' = (Len(pending') >= FlushAt) /\ UNCHANGED <<stored, refused, evicted>>
  BY DEF WriterOK, WriterReceives
<1>2. /\ Head(channel) \in Seq(Sample) /\ Tail(channel) \in Seq(Seq(Sample))
      /\ channel = <<Head(channel)>> \o Tail(channel)
  BY <1>1, HeadTailProperties, ConcatProperties
<1>3. pending' \in Seq(Sample) /\ Len(pending') \in Nat
  BY <1>1, <1>2, Joined, LenProperties
<1>4. Range(pending') = Range(pending) \cup Range(Head(channel))
  BY <1>1, <1>2, Joined
<1>5. /\ PendingBound \in Nat /\ PendingBound >= MaxBuffered /\ PendingBound >= FlushAt - 1
      /\ FlushAt \in Nat /\ FlushAt >= 1 /\ MaxBuffered \in Nat
      /\ PendingBound' = PendingBound /\ FlushAt' = FlushAt
  BY BoundType
<1>6. WriterOK'
  <2>1. ASSUME ~writing'
        PROVE  Len(pending') <= PendingBound
    <3>1. ~(Len(pending') >= FlushAt)
      BY <1>1, <2>1, Zenon
    <3> QED
      BY <1>3, <1>5, <3>1
  <2>2. writing' \in BOOLEAN
    BY <1>1
  <2> QED
    BY <1>1, <1>2, <1>3, <2>1, <2>2, WriterNext DEF WriterOK
<1>7. \A x \in Range(channel) : x = Head(channel) \/ x \in Range(channel')
  <2>1. /\ Len(channel) \in Nat /\ Len(Tail(channel)) = Len(channel) - 1
        /\ \A i \in 1..Len(Tail(channel)) : Tail(channel)[i] = channel[i + 1]
    BY <1>1, HeadTailProperties, LenProperties
  <2>2. Head(channel) = channel[1]
    BY <1>1, HeadTailProperties
  <2>3. ASSUME NEW i \in 1..Len(channel), i # 1
        PROVE  channel[i] = Tail(channel)[i - 1] /\ i - 1 \in 1..Len(Tail(channel))
    BY <2>1, <2>3
  <2>4. Range(channel) = {channel[i] : i \in 1..Len(channel)}
    BY <1>1, RangeEquality
  <2>5. Range(Tail(channel)) = {Tail(channel)[i] : i \in 1..Len(Tail(channel))}
    BY <1>2, RangeEquality
  <2> QED
    BY <1>1, <2>2, <2>3, <2>4, <2>5
<1>8. InChannel(channel) \subseteq InChannel(channel') \cup Range(Head(channel))
  BY <1>7, InChannelBatch
<1> QED
  BY <1>1, <1>4, <1>6, <1>8, WrittenParts

LEMMA WriterTicksStep ==
  ASSUME WriterOK, WriterTicks
  PROVE  WriterOK' /\ Written \subseteq Written'
  BY WrittenParts, BoundType DEF WriterOK, WriterTicks

LEMMA WriteSucceedsStep ==
  ASSUME WriterOK, WriteSucceeds
  PROVE  WriterOK' /\ Written \subseteq Written'
<1>1. /\ PendingBound \in Nat /\ PendingBound >= MaxBuffered /\ PendingBound >= FlushAt - 1
      /\ FlushAt \in Nat /\ FlushAt >= 1 /\ MaxBuffered \in Nat
      /\ PendingBound' = PendingBound /\ FlushAt' = FlushAt
  BY BoundType
<1>2. pending' = <<>> /\ Len(<<>>) = 0 /\ <<>> \in Seq(Sample) /\ Range(pending) \subseteq Sample
  BY EmptyRange, RangeOfSeq DEF WriteSucceeds, WriterOK
<1>3. WriterOK'
  <2>1. ~writing' => Len(pending') <= PendingBound
    BY <1>1, <1>2
  <2> QED
    BY <1>2, <2>1, WriterNext DEF WriterOK, WriteSucceeds
<1> QED
  BY <1>2, <1>3, WrittenParts DEF WriteSucceeds

\* What the buffer cannot keep is counted.
LEMMA WriteFailsStep ==
  ASSUME WriterOK, WriteFails
  PROVE  WriterOK' /\ Written \subseteq Written'
<1>1. /\ PendingBound \in Nat /\ PendingBound >= MaxBuffered /\ PendingBound >= FlushAt - 1
      /\ FlushAt \in Nat /\ FlushAt >= 1 /\ MaxBuffered \in Nat
      /\ PendingBound' = PendingBound /\ FlushAt' = FlushAt
  BY BoundType
<1>2. pending \in Seq(Sample) /\ Len(pending) \in Nat
  BY LenProperties DEF WriterOK
<1> DEFINE k == Excess
<1>3. k \in 0..Len(pending) /\ Len(pending) - k <= MaxBuffered
  BY <1>1, <1>2 DEF Excess
<1> HIDE DEF k
<1>4. /\ pending' = SubSeq(pending, k + 1, Len(pending))
      /\ evicted' = evicted \cup Range(SubSeq(pending, 1, k))
      /\ writing' = FALSE /\ UNCHANGED <<channel, stored, refused>>
  BY DEF WriteFails, Kept, k
<1>5. /\ pending' \in Seq(Sample) /\ SubSeq(pending, 1, k) \in Seq(Sample)
      /\ Range(pending) = Range(SubSeq(pending, 1, k)) \cup Range(pending')
  BY <1>2, <1>3, <1>4, CutRange
<1>6. Len(pending') = Len(pending) - k
  BY <1>2, <1>3, <1>4, PartOf
<1>7. Range(SubSeq(pending, 1, k)) \subseteq Sample
  BY <1>5, RangeOfSeq
<1>8. WriterOK'
  <2>1. Len(pending') <= PendingBound
    BY <1>1, <1>2, <1>3, <1>6
  <2> QED
    BY <1>4, <1>5, <1>7, <2>1, WriterNext DEF WriterOK
<1> QED
  BY <1>4, <1>5, <1>8, WrittenParts

LEMMA WriterDiesStep ==
  ASSUME WriterOK, WriterDies
  PROVE  WriterOK' /\ Written \subseteq Written' \cup InWriter
<1>1. /\ PendingBound \in Nat /\ PendingBound >= MaxBuffered /\ PendingBound >= FlushAt - 1
      /\ FlushAt \in Nat /\ FlushAt >= 1 /\ MaxBuffered \in Nat
      /\ PendingBound' = PendingBound /\ FlushAt' = FlushAt
  BY BoundType
<1>2. Len(<<>>) = 0 /\ <<>> \in Seq(Sample) /\ <<>> \in Seq(Seq(Sample))
  BY EmptyRange
<1>3. WriterOK'
  <2>1. ~writing' => Len(pending') <= PendingBound
    BY <1>1, <1>2 DEF WriterDies
  <2> QED
    BY <1>2, <2>1, WriterNext DEF WriterOK, WriterDies
<1> QED
  BY <1>3, WrittenParts DEF WriterDies

Losses == UNION {lost[c] : c \in Causes}

LEMMA LosesStep ==
  ASSUME lost \in [Causes -> SUBSET Sample], NEW c \in Causes, NEW S \in SUBSET Sample,
         Loses(c, S)
  PROVE  lost' \in [Causes -> SUBSET Sample] /\ Losses \cup S \subseteq Losses'
<1>1. lost' = [lost EXCEPT ![c] = lost[c] \cup S]
  BY DEF Loses
<1>2. lost' \in [Causes -> SUBSET Sample]
  BY <1>1
<1>3. \A d \in Causes : lost[d] \subseteq lost'[d]
  BY <1>1
<1>4. S \subseteq lost'[c]
  BY <1>1
<1> QED
  BY <1>2, <1>3, <1>4 DEF Losses

-----------------------------------------------------------------------------
(* The inductive invariant.                                                *)

\* The samples somebody else answers for than their agent.
Settled == Written \cup Losses

\* Every sample agent a collected is still in its hands, x, or settled.
Traced(a, x, S) ==
  \A n \in 1..x.collected : <<a, n>> \in Range(x.batch) \cup Range(x.buffer) \cup S

AgentsOK == agent \in [Agents -> AgentState] /\ \A a \in Agents : Good(agent[a])

Observers ==
  /\ scenario \in Scenarios
  /\ lost \in [Causes -> SUBSET Sample]
  /\ speakers \in [Machines -> SUBSET Agents]
  /\ upset \subseteq Machines /\ reopened \subseteq upset /\ left \in Nat

Traces == \A a \in Agents : Traced(a, agent[a], Settled)

\* An acknowledgement is given only for what has been settled.
Deliveries == \A r \in requests : Taken(r) => Range(r.batch) \subseteq Settled

IInv ==
  /\ Tables /\ ExchangeOf(requests, agent) /\ AgentsOK /\ WriterOK /\ Observers
  /\ Traces /\ Deliveries

LEMMA ScenarioType ==
  ASSUME NEW s \in Scenarios
  PROVE  s.mishaps \in Nat /\ s.token \in Tokens /\ s.samples \in Nat
  BY PushAssumption DEF Scenario

LEMMA MishapStep ==
  ASSUME left \in Nat, Mishap
  PROVE  left' \in Nat
  BY DEF Mishap

LEMMA SettledGrows ==
  ASSUME Written \subseteq Written', Losses \subseteq Losses'
  PROVE  Settled \subseteq Settled'
  BY DEF Settled

LEMMA LossesKept ==
  ASSUME lost' = lost
  PROVE  Losses' = Losses
  BY DEF Losses

\* The hands of one agent change.
LEMMA OneAgent ==
  ASSUME AgentsOK, Traces, Settled \subseteq Settled', NEW a \in Agents, NEW y, Good(y),
         Traced(a, y, Settled'), agent' = [agent EXCEPT ![a] = y]
  PROVE  /\ AgentsOK' /\ Traces' /\ OnlyBatch(agent, agent', a) /\ agent'[a] = y
         /\ \A b \in Agents \ {a} : agent'[b] = agent[b]
<1>1. agent \in [Agents -> AgentState] /\ y \in AgentState
  BY DEF AgentsOK, Good
<1>2. /\ agent' \in [Agents -> AgentState] /\ agent'[a] = y
      /\ \A b \in Agents \ {a} : agent'[b] = agent[b]
  BY <1>1
<1>3. ASSUME NEW b \in Agents
      PROVE  Good(agent'[b])
  BY <1>2 DEF AgentsOK
<1>4. AgentsOK'
  <2>1. AgentsOK' <=> agent' \in [Agents -> AgentState] /\ \A b \in Agents : Good(agent'[b])
    BY DEF AgentsOK, AgentState, Sample, Good, Line, Orderly, Limit
  <2> QED
    BY <1>2, <1>3, <2>1
<1>5. ASSUME NEW b \in Agents
      PROVE  Traced(b, agent'[b], Settled')
  <2>1. CASE b = a
    BY <1>2, <2>1
  <2>2. CASE b # a
    BY <1>2, <2>2 DEF Traces, Traced
  <2> QED
    BY <2>1, <2>2
<1> QED
  BY <1>2, <1>4, <1>5 DEF Traces, OnlyBatch, Traced

LEMMA AgentsKept ==
  ASSUME AgentsOK, Traces, Settled \subseteq Settled', agent' = agent
  PROVE  AgentsOK' /\ Traces'
<1>1. AgentsOK'
  BY DEF AgentsOK, AgentState, Sample, Good, Line, Orderly, Limit
<1>2. Traces'
  BY DEF Traces, Traced
<1> QED
  BY <1>1, <1>2

\* y answers for all that x answered for, but for what is settled.
LEMMA HandedOn ==
  ASSUME NEW a, NEW x, NEW y, NEW S, NEW T, S \subseteq T, Traced(a, x, S),
         y.collected = x.collected,
         Range(x.batch) \cup Range(x.buffer) \subseteq Range(y.batch) \cup Range(y.buffer) \cup T
  PROVE  Traced(a, y, T)
  BY DEF Traced

\* A step of the server on one request.
LEMMA ServerStep ==
  ASSUME ExchangeOf(requests, agent), AgentsOK, Traces, Deliveries, Settled \subseteq Settled',
         agent' = agent, NEW r \in requests, Advances(r)
  PROVE  ExchangeOf(requests, agent)' /\ AgentsOK' /\ Traces' /\ Deliveries'
<1>1. AgentsOK' /\ Traces'
  BY AgentsKept
<1>2. CASE ~r.awaited /\ requests' = requests \ {r}
  <2>1. ExchangeOf(requests, agent)'
    BY <1>2, ExchangeDrops
  <2>2. Deliveries'
    BY <1>2 DEF Deliveries
  <2> QED
    BY <1>1, <2>1, <2>2
<1>3. ASSUME NEW new, Moves(r, new), requests' = (requests \ {r}) \cup {new}, ~Taken(new)
      PROVE  ExchangeOf(requests, agent)' /\ Deliveries'
  <2>1. ExchangeOf(requests, agent)'
    BY <1>3, ExchangeMoves
  <2>2. Deliveries'
    BY <1>3 DEF Deliveries
  <2> QED
    BY <2>1, <2>2
<1> QED
  BY <1>1, <1>2, <1>3 DEF Advances

-----------------------------------------------------------------------------
(* The steps of an agent.                                                  *)

LEMMA CollectStep ==
  ASSUME IInv, NEW a \in Agents, Collect(a)
  PROVE  IInv'
<1> USE DEF IInv
<1> DEFINE x == agent[a]
           n == x.collected + 1
           t == Append(x.buffer, <<a, n>>)
           y == [x EXCEPT !.buffer = EnforceCapacity(t), !.collected = n]
<1>1. Good(x) /\ x.batch = <<>> /\ x.collected \in Nat /\ agent \in [Agents -> AgentState]
  BY DEF AgentsOK, Collect, Sending, Good, AgentState
<1>2. /\ agent' = [agent EXCEPT ![a].buffer = EnforceCapacity(t), ![a].collected = n]
      /\ Loses("overflow", Range(t) \ Range(EnforceCapacity(t)))
      /\ UNCHANGED <<enrolmentVars, writerVars, scenario, speakers, upset, reopened, left>>
  BY DEF Collect
<1>3. agent' = [agent EXCEPT ![a] = y]
  BY <1>1, <1>2 DEF AgentState
<1>4. /\ Good(y) /\ y.batch = <<>> /\ y.buffer = EnforceCapacity(t) /\ y.collected = n
      /\ t \in Seq(Sample) /\ Range(t) = Range(x.buffer) \cup {<<a, n>>}
  BY <1>1, CollectedGood
<1>5. Range(t) \subseteq Sample
  BY <1>4, RangeOfSeq
<1> HIDE DEF t, y
<1>6. /\ lost' \in [Causes -> SUBSET Sample]
      /\ Losses \cup (Range(t) \ Range(EnforceCapacity(t))) \subseteq Losses'
  BY <1>2, <1>5, LosesStep DEF Observers, Causes
<1>7. WriterOK' /\ Written' = Written
  BY <1>2, WriterKept
<1>8. Settled \subseteq Settled'
  BY <1>6, <1>7, SettledGrows
<1>9. Traced(a, y, Settled')
  <2> SUFFICES ASSUME NEW i \in 1..y.collected
               PROVE  <<a, i>> \in Range(y.batch) \cup Range(y.buffer) \cup Settled'
    BY DEF Traced
  <2>1. i \in 1..x.collected \/ i = n
    BY <1>1, <1>4
  <2>2. CASE i = n
    BY <1>4, <1>6, <2>2 DEF Settled
  <2>3. CASE i \in 1..x.collected
    <3>1. <<a, i>> \in Range(x.batch) \cup Range(x.buffer) \cup Settled
      BY <2>3 DEF Traces, Traced
    <3>2. Range(x.batch) = {}
      BY <1>1, EmptyRange
    <3> QED
      BY <1>4, <1>6, <1>8, <3>1, <3>2 DEF Settled
  <2> QED
    BY <2>1, <2>2, <2>3
<1>10. /\ AgentsOK' /\ Traces' /\ OnlyBatch(agent, agent', a) /\ agent'[a] = y
  BY <1>3, <1>4, <1>8, <1>9, OneAgent
<1>11. requests' = requests /\ Tables'
  BY <1>2, TablesKept DEF enrolmentVars
<1>12. ExchangeOf(requests, agent)'
  BY <1>1, <1>4, <1>10, <1>11, ExchangeKept DEF OnlyBatch
<1>13. Deliveries'
  BY <1>8, <1>11 DEF Deliveries
<1>14. Observers'
  BY <1>2, <1>6 DEF Observers, Sample
<1> QED
  BY <1>7, <1>10, <1>11, <1>12, <1>13, <1>14

\* The request with which agent a, in state x, sends a batch.
Call(a, x, no, batch) ==
  NewRequest(no, a, KeyOf[a], TokenOf[a], batch, x.secret, x.supported)

LEMMA NewRequestValid ==
  ASSUME NEW a \in Agents, NEW x \in AgentState, NEW no \in Nat, NEW batch \in Seq(Sample)
  PROVE  Valid(Call(a, x, no, batch))
<1> DEFINE q == Call(a, x, no, batch)
<1>1. /\ KeyOf[a] \in Machines /\ TokenOf[a] \in Tokens /\ x.secret \in Nat
      /\ x.supported \in BOOLEAN
  BY PushAssumption DEF AgentState
<1>2. q = [ no |-> no, from |-> a, machine |-> KeyOf[a], token |-> TokenOf[a], batch |-> batch,
            secret |-> x.secret, supported |-> x.supported, stage |-> "token",
            target |-> NoTarget, enrols |-> FALSE, issued |-> NoSecret, verdict |-> "none",
            awaited |-> TRUE ]
  BY DEF NewRequest, Call
<1>3. q \in Request
  BY <1>1, <1>2 DEF Request, Stages, Verdicts, NoTarget, NoSecret
<1>4. /\ q.no = no /\ q.from = a /\ q.batch = batch /\ q.awaited = TRUE
      /\ q.stage = "token" /\ q.secret = x.secret /\ q.issued = NoSecret
      /\ q.machine = KeyOf[a] /\ q.enrols = FALSE /\ q.token = TokenOf[a]
      /\ q.target = NoTarget /\ q.supported = x.supported
  BY <1>2
<1> HIDE DEF q
<1>5. Valid(q)
  BY <1>3, <1>4 DEF Valid
<1> QED
  BY <1>5 DEF q

LEMMA FreeNumber ==
  ASSUME IsFiniteSet(requests), NEW no \in FreeNumbers
  PROVE  no \in Nat /\ \A r \in requests : r.no # no
<1>1. Cardinality(requests) \in Nat
  BY FS_CardinalityType
<1> QED
  BY <1>1 DEF FreeNumbers

LEMMA SendStep ==
  ASSUME IInv, NEW a \in Agents, Send(a)
  PROVE  IInv'
<1> USE DEF IInv
<1> DEFINE x == agent[a]
           k == Take(x.buffer)
           batch == SubSeq(x.buffer, 1, k)
           y == [x EXCEPT !.batch = batch, !.buffer = SubSeq(x.buffer, k + 1, Len(x.buffer))]
<1>1. /\ Good(x) /\ x \in AgentState /\ x.batch = <<>> /\ x.buffer # <<>>
      /\ agent \in [Agents -> AgentState]
  BY DEF AgentsOK, Send, Sending, Good
<1>2. /\ agent' = [agent EXCEPT ![a].batch = batch,
                                ![a].buffer = SubSeq(x.buffer, k + 1, Len(x.buffer))]
      /\ UNCHANGED <<tokens, target, host, issued, writerVars, scenario, lost, speakers, upset,
                     reopened, left>>
  BY DEF Send
<1>3. PICK no \in FreeNumbers :
        requests' = requests \cup {Call(a, x, no, batch)}
  BY DEF Send, Call
<1>4. agent' = [agent EXCEPT ![a] = y]
  BY <1>1, <1>2 DEF AgentState
<1>5. /\ Good(y) /\ y.batch = batch /\ batch \in Seq(Sample) /\ batch # <<>>
      /\ Range(x.buffer) = Range(y.batch) \cup Range(y.buffer) /\ y.collected = x.collected
  BY <1>1, BatchGood
<1>6. no \in Nat /\ \A r \in requests : r.no # no
  BY FreeNumber DEF ExchangeOf
<1> DEFINE q == Call(a, x, no, batch)
<1> HIDE DEF y, batch
<1> HIDE DEF IInv, x, q
<1>7. /\ Valid(q) /\ q.no = no /\ q.from = a /\ q.batch = batch /\ q.awaited = TRUE
      /\ q.stage = "token"
  <2>1. x \in AgentState /\ batch \in Seq(Sample) /\ no \in Nat
    BY <1>1, <1>5, <1>6
  <2>2. Valid(q)
    BY <2>1, NewRequestValid DEF q
  <2>3. /\ q.no = no /\ q.from = a /\ q.batch = batch /\ q.awaited = TRUE
        /\ q.stage = "token"
    BY DEF q, Call, NewRequest
  <2> QED
    BY <2>2, <2>3
<1> USE DEF IInv, x
<1>8. WriterOK' /\ Written' = Written /\ Losses' = Losses
  BY <1>2, WriterKept, LossesKept
<1>9. Settled' = Settled
  BY <1>8 DEF Settled
<1>10. Traced(a, y, Settled')
  <2>1. Range(x.batch) = {}
    BY <1>1, EmptyRange
  <2> QED
    BY <1>5, <1>9, <2>1 DEF Traces, Traced
<1>11. AgentsOK' /\ Traces' /\ OnlyBatch(agent, agent', a) /\ agent'[a] = y
  BY <1>4, <1>5, <1>9, <1>10, OneAgent
<1>12. requests' = requests \cup {q}
  BY <1>3 DEF q
<1>13. ExchangeOf(requests, agent)'
  BY <1>1, <1>5, <1>6, <1>7, <1>11, <1>12, ExchangeBegins
<1>14. Deliveries'
  BY <1>7, <1>9, <1>12 DEF Deliveries, Taken
<1>15. Observers' /\ Tables'
  BY <1>2, TablesKept DEF Observers, Sample
<1> QED
  BY <1>8, <1>11, <1>13, <1>14, <1>15

\* The agent of r takes its answer and stops sending.
LEMMA TakesAnswer ==
  ASSUME IInv, Settled \subseteq Settled', NEW r \in requests, r.awaited,
         NEW y, Good(y), y.batch = <<>>, y.collected = agent[r.from].collected,
         Range(agent[r.from].batch) \cup Range(agent[r.from].buffer)
           \subseteq Range(y.batch) \cup Range(y.buffer) \cup Settled',
         agent' = [agent EXCEPT ![r.from] = y], requests' = requests \ {r}
  PROVE  ExchangeOf(requests, agent)' /\ AgentsOK' /\ Traces' /\ Deliveries'
<1>1. r.from \in Agents /\ ExchangeOf(requests, agent) /\ AgentsOK /\ Traces /\ Deliveries
  BY RequestFields DEF IInv, ExchangeOf
<1>2. Traced(r.from, agent[r.from], Settled)
  BY <1>1 DEF Traces
<1>3. Traced(r.from, y, Settled')
  BY <1>2, HandedOn
<1>4. AgentsOK' /\ Traces' /\ OnlyBatch(agent, agent', r.from) /\ agent'[r.from] = y
  BY <1>1, <1>3, OneAgent
<1>5. ExchangeOf(requests, agent)'
  BY <1>1, <1>4, ExchangeEnds
<1>6. Deliveries'
  BY <1>1 DEF Deliveries
<1> QED
  BY <1>4, <1>5, <1>6

LEMMA AdoptGood ==
  ASSUME NEW x, Good(x), NEW secret \in Nat, NEW written \in BOOLEAN
  PROVE  LET y == Adopt(x, secret, written)
         IN /\ Good(y) /\ y.batch = x.batch /\ y.buffer = x.buffer
            /\ y.collected = x.collected /\ y.secret = secret
            /\ y.file = IF written THEN secret ELSE x.file
<1> DEFINE y == Adopt(x, secret, written)
<1>1. x \in AgentState /\ x.file \in Nat
  BY DEF Good, AgentState
<1>2. /\ y \in AgentState /\ y.batch = x.batch /\ y.buffer = x.buffer
      /\ y.collected = x.collected /\ y.secret = secret
      /\ y.file = IF written THEN secret ELSE x.file
  BY <1>1 DEF AgentState, Adopt
<1> HIDE DEF y
<1>3. Good(y)
  BY <1>2 DEF Good, Line
<1> QED
  BY <1>2, <1>3 DEF y

LEMMA ForgetGood ==
  ASSUME NEW x, Good(x)
  PROVE  LET y == Forget(x)
         IN /\ Good(y) /\ y.batch = x.batch /\ y.buffer = x.buffer
            /\ y.collected = x.collected /\ y.secret = NoSecret /\ y.file = NoSecret
<1> DEFINE y == Forget(x)
<1>1. x \in AgentState /\ NoSecret \in Nat
  BY DEF Good, NoSecret
<1>2. /\ y \in AgentState /\ y.batch = x.batch /\ y.buffer = x.buffer
      /\ y.collected = x.collected /\ y.secret = NoSecret /\ y.file = NoSecret
  BY <1>1 DEF AgentState, Forget
<1> HIDE DEF y
<1>3. Good(y)
  BY <1>2 DEF Good, Line
<1> QED
  BY <1>2, <1>3 DEF y

LEMMA AcknowledgedStep ==
  ASSUME IInv, NEW r \in requests, Acknowledged(r)
  PROVE  IInv'
<1> DEFINE x == agent[r.from]
           z == Sent(x)
<1>1. /\ r.stage = "answered" /\ r.verdict = "ack" /\ requests' = requests \ {r}
      /\ UNCHANGED <<tokens, target, host, issued, writerVars, scenario, lost, speakers, reopened>>
  BY DEF Acknowledged, Own
<1>2. /\ Valid(r) /\ r.awaited /\ r.from \in Agents /\ r.issued \in Nat /\ r.machine \in Machines
      /\ r.batch = x.batch
  BY <1>1, RequestFields DEF IInv, ExchangeOf, Valid
<1>3. Good(x)
  BY <1>2 DEF IInv, AgentsOK
<1>4. Good(z) /\ z.batch = <<>> /\ z.buffer = x.buffer /\ z.collected = x.collected
  BY <1>3, SentGood
<1>5. WriterOK' /\ Written' = Written /\ Losses' = Losses
  BY <1>1, WriterKept, LossesKept DEF IInv
<1>6. Settled' = Settled
  BY <1>5 DEF Settled
<1>7. Range(x.batch) \subseteq Settled
  BY <1>1, <1>2 DEF IInv, Deliveries, Taken
<1> HIDE DEF z
<1>8. PICK y : /\ agent' = [agent EXCEPT ![r.from] = y]
               /\ y = z \/ \E b \in BOOLEAN : y = Adopt(z, r.issued, b)
  BY DEF Acknowledged, z
<1>9. Good(y) /\ y.batch = <<>> /\ y.buffer = x.buffer /\ y.collected = x.collected
  <2>1. CASE y = z
    BY <1>4, <2>1
  <2>2. ASSUME NEW b \in BOOLEAN, y = Adopt(z, r.issued, b)
        PROVE  Good(y) /\ y.batch = z.batch /\ y.buffer = z.buffer /\ y.collected = z.collected
    BY <1>2, <1>4, <2>2, AdoptGood
  <2> QED
    BY <1>4, <1>8, <2>1, <2>2
<1>10. Range(x.batch) \cup Range(x.buffer) \subseteq Range(y.batch) \cup Range(y.buffer) \cup Settled'
  BY <1>6, <1>7, <1>9
<1>11. ExchangeOf(requests, agent)' /\ AgentsOK' /\ Traces' /\ Deliveries'
  BY <1>1, <1>2, <1>6, <1>8, <1>9, <1>10, TakesAnswer
<1>12. upset' = upset \/ upset' = upset \cup {r.machine}
  BY DEF Acknowledged, Interferes
<1>13. left' \in Nat
  BY MishapStep DEF Acknowledged, IInv, Observers
<1>14. Observers'
  BY <1>1, <1>2, <1>12, <1>13 DEF IInv, Observers, Sample
<1>15. Tables'
  BY <1>1, TablesKept DEF IInv
<1> QED
  BY <1>5, <1>11, <1>14, <1>15 DEF IInv

\* A refused batch is put back, or its loss is counted.
LEMMA RefusedStep ==
  ASSUME IInv, NEW r \in requests, Refused(r)
  PROVE  IInv'
<1> DEFINE x == agent[r.from]
           z == IF r.verdict \in Retried THEN Restored(x) ELSE Sent(x)
           y == IF r.verdict \in Forgetting THEN Forget(z) ELSE z
           S == IF r.verdict = "rejected" THEN Range(x.batch) ELSE {}
<1>1. /\ r.stage = "answered" /\ r.verdict # "ack" /\ requests' = requests \ {r}
      /\ agent' = [agent EXCEPT ![r.from] = y] /\ Loses("rejected", S)
      /\ UNCHANGED <<tokens, target, host, issued, writerVars, scenario, speakers, upset,
                     reopened, left>>
  BY DEF Refused, Own
<1>2. Valid(r) /\ r.awaited /\ r.from \in Agents
  BY <1>1, RequestFields DEF IInv, ExchangeOf, Valid
<1>3. r.verdict \in Retried \/ r.verdict = "rejected"
  BY <1>1, <1>2 DEF Valid, Request, Verdicts, Retried
<1>4. Good(x)
  BY <1>2 DEF IInv, AgentsOK
<1>5. S \subseteq Sample
  <2>1. x.batch \in Seq(Sample)
    BY <1>4, LineOfGood
  <2> QED
    BY <2>1, RangeOfSeq
<1>6. lost' \in [Causes -> SUBSET Sample] /\ Losses \cup S \subseteq Losses'
  BY <1>1, <1>5, LosesStep DEF IInv, Observers, Causes
<1>7. WriterOK' /\ Written' = Written
  BY <1>1, WriterKept DEF IInv
<1>8. Settled \subseteq Settled' /\ S \subseteq Settled'
  BY <1>6, <1>7 DEF Settled
<1>9. /\ Good(z) /\ z.batch = <<>> /\ z.collected = x.collected
      /\ Range(x.batch) \cup Range(x.buffer) \subseteq Range(z.buffer) \cup Settled'
  <2>1. CASE r.verdict \in Retried
    BY <1>4, <2>1, RestoredGood
  <2>2. CASE r.verdict \notin Retried
    <3>1. z = Sent(x)
      BY <2>2
    <3>2. S = Range(x.batch)
      BY <1>3, <2>2
    <3>3. Good(Sent(x)) /\ Sent(x).batch = <<>> /\ Sent(x).buffer = x.buffer
          /\ Sent(x).collected = x.collected
      BY <1>4, SentGood
    <3> QED
      BY <1>8, <3>1, <3>2, <3>3
  <2> QED
    BY <2>1, <2>2
<1> HIDE DEF z, S
<1>10. /\ Good(y) /\ y.batch = z.batch /\ y.buffer = z.buffer /\ y.collected = z.collected
  BY <1>9, ForgetGood
<1> HIDE DEF y
<1>11. Range(x.batch) \cup Range(x.buffer) \subseteq Range(y.batch) \cup Range(y.buffer) \cup Settled'
  BY <1>9, <1>10
<1>12. ExchangeOf(requests, agent)' /\ AgentsOK' /\ Traces' /\ Deliveries'
  BY <1>1, <1>2, <1>8, <1>9, <1>10, <1>11, TakesAnswer
<1>13. Observers'
  BY <1>1, <1>6 DEF IInv, Observers, Sample
<1>14. Tables'
  BY <1>1, TablesKept DEF IInv
<1> QED
  BY <1>7, <1>12, <1>13, <1>14 DEF IInv

\* Agent a no longer waits for its request.
LEMMA AbandonStep ==
  ASSUME IInv, Settled \subseteq Settled', NEW a \in Agents, NEW y, Good(y), y.batch = <<>>,
         y.collected = agent[a].collected,
         Range(agent[a].batch) \cup Range(agent[a].buffer)
           \subseteq Range(y.batch) \cup Range(y.buffer) \cup Settled',
         agent' = [agent EXCEPT ![a] = y], Abandon(a)
  PROVE  ExchangeOf(requests, agent)' /\ AgentsOK' /\ Traces' /\ Deliveries'
<1>1. ExchangeOf(requests, agent) /\ AgentsOK /\ Traces /\ Deliveries
  BY DEF IInv
<1>2. Traced(a, agent[a], Settled)
  BY <1>1 DEF Traces
<1>3. Traced(a, y, Settled')
  BY <1>2, HandedOn
<1>4. AgentsOK' /\ Traces' /\ OnlyBatch(agent, agent', a) /\ agent'[a] = y
  BY <1>1, <1>3, OneAgent
<1>5. PICK late \in BOOLEAN : requests' = Others(requests, a) \cup Orphans(requests, a, late)
  BY DEF Abandon, Others, Orphans, Late
<1>6. /\ ExchangeOf(Others(requests, a) \cup Orphans(requests, a, late), agent')
      /\ \A q \in Orphans(requests, a, late) : ~q.awaited
  <2>1. agent'[a].batch = <<>>
    BY <1>4
  <2> HIDE DEF Good
  <2> QED
    BY <1>1, <1>4, <2>1, ExchangeAbandoned
<1>7. Deliveries'
  BY <1>1, <1>5, <1>6 DEF Deliveries, Others, Taken
<1>8. ExchangeOf(requests, agent)'
  BY <1>5, <1>6
<1> QED
  BY <1>4, <1>7, <1>8

LEMMA GiveUpStep ==
  ASSUME IInv, NEW a \in Agents, GiveUp(a)
  PROVE  IInv'
<1> DEFINE y == Restored(agent[a])
<1>1. /\ Mishap /\ upset' = upset \cup {KeyOf[a]} /\ Abandon(a)
      /\ agent' = [agent EXCEPT ![a] = y]
      /\ UNCHANGED <<tokens, target, host, issued, writerVars, scenario, lost, speakers, reopened>>
  BY DEF GiveUp, Interferes
<1>2. Good(agent[a])
  BY DEF IInv, AgentsOK
<1>3. /\ Good(y) /\ y.batch = <<>> /\ y.collected = agent[a].collected
      /\ Range(y.buffer) = Range(agent[a].batch) \cup Range(agent[a].buffer)
  BY <1>2, RestoredGood
<1>4. WriterOK' /\ Written' = Written /\ Losses' = Losses
  BY <1>1, WriterKept, LossesKept DEF IInv
<1>5. Settled \subseteq Settled'
  BY <1>4 DEF Settled
<1> HIDE DEF y
<1>6. ExchangeOf(requests, agent)' /\ AgentsOK' /\ Traces' /\ Deliveries'
  BY <1>1, <1>3, <1>5, AbandonStep
<1>7. left' \in Nat
  BY <1>1, MishapStep DEF IInv, Observers
<1>8. Observers'
  BY <1>1, <1>7, PushAssumption DEF IInv, Observers, Sample
<1>9. Tables'
  BY <1>1, TablesKept DEF IInv
<1> QED
  BY <1>4, <1>6, <1>8, <1>9 DEF IInv

LEMMA RestartStep ==
  ASSUME IInv, NEW a \in Agents, Restart(a)
  PROVE  IInv'
<1> DEFINE x == agent[a]
           S == Range(x.batch) \cup Range(x.buffer)
<1>1. /\ Mishap /\ upset' \in {upset, upset \cup {KeyOf[a]}} /\ Abandon(a)
      /\ Loses("stopped", S)
      /\ UNCHANGED <<tokens, target, host, issued, writerVars, scenario, speakers, reopened>>
  BY DEF Restart
<1>2. PICK up \in BOOLEAN :
        agent' = [agent EXCEPT ![a].buffer = <<>>, ![a].batch = <<>>, ![a].secret = x.file,
                               ![a].supported = up \/ @]
  BY DEF Restart
<1>3. Good(x) /\ agent \in [Agents -> AgentState]
  BY DEF IInv, AgentsOK
<1> DEFINE y == [x EXCEPT !.buffer = <<>>, !.batch = <<>>, !.secret = x.file,
                          !.supported = up \/ x.supported]
<1>4. agent' = [agent EXCEPT ![a] = y]
  BY <1>2, <1>3 DEF AgentState
<1>5. Good(y) /\ y.batch = <<>> /\ y.collected = x.collected
  BY <1>3, RestartedGood
<1> HIDE DEF y
<1>6. S \subseteq Sample
  <2>1. x.batch \in Seq(Sample) /\ x.buffer \in Seq(Sample)
    BY <1>3, LineOfGood
  <2> QED
    BY <2>1, RangeOfSeq
<1>7. lost' \in [Causes -> SUBSET Sample] /\ Losses \cup S \subseteq Losses'
  BY <1>1, <1>6, LosesStep DEF IInv, Observers, Causes
<1>8. WriterOK' /\ Written' = Written
  BY <1>1, WriterKept DEF IInv
<1>9. Settled \subseteq Settled' /\ S \subseteq Settled'
  BY <1>7, <1>8 DEF Settled
<1>10. ExchangeOf(requests, agent)' /\ AgentsOK' /\ Traces' /\ Deliveries'
  BY <1>1, <1>4, <1>5, <1>9, AbandonStep
<1>11. left' \in Nat
  BY <1>1, MishapStep DEF IInv, Observers
<1>12. Observers'
  BY <1>1, <1>7, <1>11, PushAssumption DEF IInv, Observers, Sample
<1>13. Tables'
  BY <1>1, TablesKept DEF IInv
<1> QED
  BY <1>8, <1>10, <1>12, <1>13 DEF IInv

-----------------------------------------------------------------------------
(* The steps of the server.                                                *)

\* A batch without its element k, if it has one.
LEMMA LeftOut ==
  ASSUME NEW S, NEW b \in Seq(S), NEW k \in 0..Len(b)
  PROVE  LET d == SubSeq(b, 1, k - 1) \o SubSeq(b, k + 1, Len(b))
         IN d \in Seq(S) /\ Range(b) \subseteq Range(d) \cup {b[i] : i \in DOMAIN b \cap {k}}
<1> DEFINE front == SubSeq(b, 1, k - 1)
           back == SubSeq(b, k + 1, Len(b))
           d == front \o back
<1>1. Len(b) \in Nat /\ DOMAIN b = 1..Len(b)
  BY LenProperties
<1>2. front \in Seq(S) /\ \A i \in 1..(k - 1) : i \in 1..Len(front) /\ front[i] = b[i]
  BY <1>1, PartOf
<1>3. /\ back \in Seq(S)
      /\ \A i \in 1..(Len(b) - k) : i \in 1..Len(back) /\ back[i] = b[k + i]
  BY <1>1, PartOf
<1> HIDE DEF front, back
<1>4. d \in Seq(S) /\ Range(d) = Range(front) \cup Range(back)
  BY <1>2, <1>3, Joined
<1>5. /\ Range(front) = {front[i] : i \in 1..Len(front)}
      /\ Range(back) = {back[i] : i \in 1..Len(back)}
      /\ Range(b) = {b[i] : i \in 1..Len(b)}
  BY <1>2, <1>3, RangeEquality
<1>6. ASSUME NEW i \in 1..Len(b), i # k
      PROVE  b[i] \in Range(front) \cup Range(back)
  <2>1. CASE i < k
    <3>1. i \in 1..(k - 1)
      BY <1>1, <2>1
    <3> QED
      BY <1>2, <1>5, <3>1
  <2>2. CASE i > k
    <3>1. i - k \in 1..(Len(b) - k) /\ k + (i - k) = i
      BY <1>1, <2>2
    <3>2. i - k \in 1..Len(back) /\ back[i - k] = b[i]
      BY <1>3, <3>1
    <3> QED
      BY <1>5, <3>2
  <2> QED
    BY <1>1, <1>6, <2>1, <2>2
<1> HIDE DEF d
<1>7. Range(b) \subseteq Range(d) \cup {b[i] : i \in DOMAIN b \cap {k}}
  BY <1>1, <1>4, <1>5, <1>6
<1> QED
  BY <1>4, <1>7 DEF d, front, back

\* A statement that touches neither the writer nor the agents.
LEMMA StatementStep ==
  ASSUME IInv, NEW r \in requests, Tables', Advances(r),
         UNCHANGED <<writerVars, scenario, agent, lost, speakers, reopened>>,
         upset' = upset \/ upset' = upset \cup {r.machine}, left' \in Nat
  PROVE  IInv'
<1>1. WriterOK' /\ Written' = Written /\ Losses' = Losses
  BY WriterKept, LossesKept DEF IInv
<1>2. Settled \subseteq Settled'
  BY <1>1 DEF Settled
<1>3. ExchangeOf(requests, agent)' /\ AgentsOK' /\ Traces' /\ Deliveries'
  BY <1>2, ServerStep DEF IInv
<1>4. r.machine \in Machines
  BY RequestFields DEF IInv, ExchangeOf
<1>5. Observers'
  BY <1>4 DEF IInv, Observers, Sample
<1> QED
  BY <1>1, <1>3, <1>5 DEF IInv

\* What is handed over is settled before it is acknowledged.
LEMMA DeliverStep ==
  ASSUME IInv, NEW r \in requests, NEW k \in 0..Len(r.batch), Deliver(r, k), left' \in Nat
  PROVE  IInv'
<1> DEFINE b == r.batch
           d == SubSeq(b, 1, k - 1) \o SubSeq(b, k + 1, Len(b))
           S == {b[i] : i \in DOMAIN b \cap {k}}
<1>1. /\ r.stage = "load" /\ Valid(r) /\ b \in Seq(Sample) /\ r.machine \in Machines
      /\ r.from \in Agents
      /\ UNCHANGED <<tokens, target, host, issued, scenario, agent, upset, reopened>>
  BY RequestFields DEF Deliver, At, IInv, ExchangeOf
<1>2. Tables'
  BY <1>1, TablesKept DEF IInv
<1>3. CASE target[r.machine] # r.target
  <2>1. Answer(r, "internal") /\ UNCHANGED <<writerVars, lost, speakers>>
    BY <1>3 DEF Deliver
  <2>2. Advances(r)
    BY <1>1, <2>1, AnswerAdvances DEF Verdicts
  <2> QED
    BY <1>1, <1>2, <2>1, <2>2, StatementStep
<1>4. CASE target[r.machine] = r.target
  <2>1. /\ SinkSend(d) /\ Loses("filtered", S) /\ Goes(r, "record")
        /\ speakers' = [speakers EXCEPT ![r.machine] = @ \cup {r.from}]
    BY <1>4 DEF Deliver
  <2>2. d \in Seq(Sample) /\ Range(b) \subseteq Range(d) \cup S
    BY <1>1, LeftOut
  <2>3. S \subseteq Sample
    <3>1. \A i \in DOMAIN b : b[i] \in Sample
      BY <1>1, ElementOfSeq, LenProperties
    <3> QED
      BY <3>1
  <2> HIDE DEF d, S
  <2>4. WriterOK' /\ Written \cup Range(d) \subseteq Written'
    BY <2>1, <2>2, SinkSendStep DEF IInv
  <2>5. lost' \in [Causes -> SUBSET Sample] /\ Losses \cup S \subseteq Losses'
    BY <2>1, <2>3, LosesStep DEF IInv, Observers, Causes
  <2>6. Settled \subseteq Settled' /\ Range(b) \subseteq Settled'
    BY <2>2, <2>4, <2>5 DEF Settled
  <2> DEFINE new == [r EXCEPT !.stage = "record"]
  <2>7. Same(r, new) /\ new.stage = "record" /\ new.awaited = r.awaited
    BY <1>1 DEF Valid, Same, Request, Stages
  <2>8. requests' = (requests \ {r}) \cup {new}
    BY <2>1 DEF Goes, Becomes
  <2> HIDE DEF new
  <2>9. Moves(r, new)
    BY <1>1, <2>7, GoesOn
  <2>10. ExchangeOf(requests, agent)'
    <3>1. ExchangeOf((requests \ {r}) \cup {new}, agent)
      BY <2>9, ExchangeMoves DEF IInv
    <3> QED
      BY <1>1, <2>8, <3>1
  <2>11. AgentsOK' /\ Traces'
    BY <1>1, <2>6, AgentsKept DEF IInv
  <2>12. Deliveries'
    <3>1. new.batch = b
      BY <2>7 DEF Same
    <3> QED
      BY <2>6, <2>8, <3>1 DEF IInv, Deliveries
  <2>13. Observers'
    BY <1>1, <2>1, <2>5 DEF IInv, Observers, Sample
  <2> QED
    BY <1>2, <2>4, <2>10, <2>11, <2>12, <2>13 DEF IInv
<1> QED
  BY <1>3, <1>4

LEMMA RecordBatchStep ==
  ASSUME IInv, NEW r \in requests, RecordBatch(r)
  PROVE  IInv'
<1>1. /\ r.stage = "record" /\ Valid(r) /\ Answer(r, "ack")
      /\ UNCHANGED <<tokens, target, host, issued, writerVars, pushVars>>
  BY DEF RecordBatch, At, IInv, ExchangeOf
<1>2. WriterOK' /\ Written' = Written /\ Losses' = Losses /\ Tables'
  BY <1>1, WriterKept, LossesKept, TablesKept DEF IInv, pushVars
<1>3. Settled' = Settled
  BY <1>2 DEF Settled
<1>4. AgentsOK' /\ Traces'
  BY <1>1, <1>3, AgentsKept DEF IInv, pushVars
<1>5. Observers'
  BY <1>1 DEF IInv, Observers, pushVars, Sample
<1>6. agent' = agent
  BY <1>1 DEF pushVars
<1>7. CASE ~r.awaited /\ requests' = requests \ {r}
  <2>1. ExchangeOf(requests \ {r}, agent)
    BY <1>7, ExchangeDrops DEF IInv
  <2>2. ExchangeOf(requests, agent)'
    BY <1>6, <1>7, <2>1
  <2>3. Deliveries'
    BY <1>3, <1>7 DEF IInv, Deliveries
  <2> QED
    BY <1>2, <1>4, <1>5, <2>2, <2>3 DEF IInv
<1>8. ASSUME NEW new, requests' = (requests \ {r}) \cup {new}, Moves(r, new), r.awaited
      PROVE  IInv'
  <2>1. ExchangeOf((requests \ {r}) \cup {new}, agent)
    BY <1>8, ExchangeMoves DEF IInv
  <2>2. ExchangeOf(requests, agent)'
    BY <1>6, <1>8, <2>1
  <2>3. Range(new.batch) \subseteq Settled
    <3>1. Range(r.batch) \subseteq Settled
      <4>1. Taken(r)
        BY <1>1, <1>8 DEF Taken
      <4>2. Deliveries
        BY DEF IInv
      <4> QED
        BY <4>1, <4>2 DEF Deliveries
    <3>2. new.batch = r.batch
      BY <1>8 DEF Moves, Same
    <3> QED
      BY <3>1, <3>2
  <2>4. Deliveries'
    BY <1>3, <1>8, <2>3 DEF IInv, Deliveries
  <2> QED
    BY <1>2, <1>4, <1>5, <2>2, <2>4 DEF IInv
<1> QED
  BY <1>1, <1>7, <1>8, Answered DEF Verdicts

LEMMA HandleStep ==
  ASSUME IInv, NEW r \in requests, Handle(r)
  PROVE  IInv'
<1>1. Tables /\ Valid(r) /\ left \in Nat
  BY DEF IInv, ExchangeOf, Observers
<1>2. CASE RecordBatch(r)
  BY <1>2, RecordBatchStep
<1>3. CASE Deliver(r, 0) /\ UNCHANGED left
  <2>1. 0 \in 0..Len(r.batch) /\ left' \in Nat
    BY <1>1, <1>3, RequestFields, LenProperties
  <2> QED
    BY <1>3, <2>1, DeliverStep
<1>4. CASE /\ \/ FindActiveToken(r) \/ FindHost(r) \/ CheckEnrolment(r) \/ LookUpTarget(r)
              \/ CreateTarget(r) \/ InsertHost(r) \/ ConsumeEnrolment(r) \/ BindHost(r)
           /\ UNCHANGED <<writerVars, pushVars>>
  <2>1. Tables' /\ Advances(r)
    BY <1>1, <1>4, FindActiveTokenStep, FindHostStep, CheckEnrolmentStep, LookUpTargetStep,
       CreateTargetStep, InsertHostStep, ConsumeEnrolmentStep, BindHostStep
  <2>2. UNCHANGED <<writerVars, scenario, agent, lost, speakers, upset, reopened, left>>
    BY <1>4 DEF pushVars
  <2> QED
    BY <1>1, <2>1, <2>2, StatementStep
<1> QED
  BY <1>2, <1>3, <1>4 DEF Handle

LEMMA FaultStep ==
  ASSUME IInv, NEW r \in requests, Fault(r)
  PROVE  IInv'
<1>1. Tables /\ Valid(r) /\ left \in Nat
  BY DEF IInv, ExchangeOf, Observers
<1>2. CASE /\ HandlerFails(r) \/ RejectBatch(r)
           /\ Mishap /\ upset' \in {upset, upset \cup {r.machine}}
           /\ UNCHANGED <<writerVars, scenario, agent, lost, speakers, reopened>>
  <2>1. Tables' /\ Advances(r) /\ left' \in Nat
    BY <1>1, <1>2, HandlerEnds, MishapStep
  <2> QED
    BY <1>2, <2>1, StatementStep
<1>3. ASSUME NEW i \in DOMAIN r.batch, Deliver(r, i), Mishap
      PROVE  IInv'
  <2>1. r.batch \in Seq(Sample)
    BY <1>1, RequestFields
  <2>2. i \in 0..Len(r.batch)
    BY <2>1, LenProperties
  <2>3. left' \in Nat
    BY <1>1, <1>3, MishapStep
  <2> QED
    BY <1>3, <2>2, <2>3, DeliverStep
<1> QED
  BY <1>2, <1>3 DEF Fault, Interferes

LEMMA CrashStep ==
  ASSUME IInv, Crash
  PROVE  IInv'
<1>1. /\ Mishap /\ upset' = Machines /\ requests' = {} /\ WriterDies
      /\ agent' = [a \in Agents |-> Restored(agent[a])] /\ Loses("crashed", InWriter)
      /\ UNCHANGED <<tokens, target, host, issued, scenario, speakers, reopened>>
  BY DEF Crash
<1>2. WriterOK' /\ Written \subseteq Written' \cup InWriter /\ InWriter \subseteq Sample
  BY <1>1, WriterDiesStep, InWriterType DEF IInv
<1>3. lost' \in [Causes -> SUBSET Sample] /\ Losses \cup InWriter \subseteq Losses'
  BY <1>1, <1>2, LosesStep DEF IInv, Observers, Causes
<1>4. Settled \subseteq Settled'
  BY <1>2, <1>3 DEF Settled
<1>5. ASSUME NEW a \in Agents
      PROVE  /\ Good(agent'[a]) /\ agent'[a].batch = <<>> /\ agent'[a] \in AgentState
             /\ Traced(a, agent'[a], Settled')
  <2>1. agent'[a] = Restored(agent[a]) /\ Good(agent[a])
    BY <1>1 DEF IInv, AgentsOK
  <2>2. /\ Good(Restored(agent[a])) /\ Restored(agent[a]).batch = <<>>
        /\ Range(Restored(agent[a]).buffer) = Range(agent[a].batch) \cup Range(agent[a].buffer)
        /\ Restored(agent[a]).collected = agent[a].collected
    BY <2>1, RestoredGood
  <2>3. Traced(a, agent[a], Settled)
    BY DEF IInv, Traces
  <2>4. Traced(a, Restored(agent[a]), Settled')
    BY <1>4, <2>2, <2>3, HandedOn
  <2> QED
    BY <2>1, <2>2, <2>4 DEF Good
<1>6. AgentsOK'
  <2>1. agent' \in [Agents -> AgentState]
    BY <1>1, <1>5
  <2>2. AgentsOK' <=> agent' \in [Agents -> AgentState] /\ \A b \in Agents : Good(agent'[b])
    BY DEF AgentsOK, AgentState, Sample, Good, Line, Orderly, Limit
  <2> QED
    BY <1>5, <2>1, <2>2
<1>7. Traces'
  BY <1>5 DEF Traces, Traced
<1>8. ExchangeOf(requests, agent)'
  BY <1>1, <1>5, ExchangeEmpty
<1>9. Deliveries'
  BY <1>1 DEF Deliveries
<1>10. left' \in Nat
  BY <1>1, MishapStep DEF IInv, Observers
<1>11. Observers'
  BY <1>1, <1>3, <1>10 DEF IInv, Observers, Sample
<1>12. Tables'
  BY <1>1, TablesKept DEF IInv
<1> QED
  BY <1>2, <1>6, <1>7, <1>8, <1>9, <1>11, <1>12 DEF IInv

\* What changes neither agents nor requests, and only settles more.
LEMMA QuietStep ==
  ASSUME IInv, Tables', WriterOK', Observers', Settled \subseteq Settled', agent' = agent,
         requests' = requests
  PROVE  IInv'
<1>1. AgentsOK' /\ Traces'
  BY AgentsKept DEF IInv
<1>2. ExchangeOf(requests, agent)'
  BY DEF IInv
<1>3. Deliveries'
  BY DEF IInv, Deliveries
<1> QED
  BY <1>1, <1>2, <1>3 DEF IInv

LEMMA AdministrationStep ==
  ASSUME IInv, Administer \/ \E a \in Agents : Help(a)
  PROVE  IInv'
<1>1. /\ \/ \E m \in Machines : AllowRebind(m) \/ DeleteTarget(m) \/ WindowCloses(m)
         \/ \E t \in Tokens : RevokeToken(t) \/ TokenExpires(t)
      /\ UNCHANGED <<writerVars, scenario, agent, lost, speakers>>
      /\ left' = left \/ Mishap
      /\ \/ UNCHANGED <<upset, reopened>>
         \/ \E m \in Machines : upset' = upset \cup {m} /\ reopened' = reopened \cup {m}
  <2>1. CASE Administer
    BY <2>1 DEF Administer, Interferes
  <2>2. ASSUME NEW a \in Agents, Help(a)
        PROVE  /\ KeyOf[a] \in Machines /\ AllowRebind(KeyOf[a])
               /\ UNCHANGED <<writerVars, scenario, agent, lost, speakers, left>>
               /\ upset' = upset \cup {KeyOf[a]} /\ reopened' = reopened \cup {KeyOf[a]}
    BY <2>2, PushAssumption DEF Help, Interferes
  <2> QED
    BY <2>1, <2>2
<1>2. Tables' /\ requests' = requests
  BY <1>1, AdministratorStep DEF IInv
<1>3. WriterOK' /\ Written' = Written /\ Losses' = Losses
  BY <1>1, WriterKept, LossesKept DEF IInv
<1>4. Settled \subseteq Settled'
  BY <1>3 DEF Settled
<1>5. left' \in Nat
  BY <1>1, MishapStep DEF IInv, Observers
<1>6. Observers'
  BY <1>1, <1>5 DEF IInv, Observers, Sample
<1> QED
  BY <1>1, <1>2, <1>3, <1>4, <1>6, QuietStep

LEMMA WriterStep ==
  ASSUME IInv, Writer \/ VictoriaFails
  PROVE  IInv'
<1>1. /\ WriterReceives \/ WriterTicks \/ WriteSucceeds \/ WriteFails
      /\ UNCHANGED <<enrolmentVars, scenario, agent, lost, speakers, upset, reopened>>
      /\ left' = left \/ Mishap
  BY DEF Writer, VictoriaFails, pushVars
<1>2. WriterOK' /\ Written \subseteq Written'
  BY <1>1, WriterReceivesStep, WriterTicksStep, WriteSucceedsStep, WriteFailsStep DEF IInv
<1>3. Losses' = Losses
  BY <1>1, LossesKept
<1>4. Settled \subseteq Settled'
  BY <1>2, <1>3 DEF Settled
<1>5. left' \in Nat
  BY <1>1, MishapStep DEF IInv, Observers
<1>6. Observers'
  BY <1>1, <1>5 DEF IInv, Observers, Sample
<1>7. Tables' /\ requests' = requests /\ agent' = agent
  BY <1>1, TablesKept DEF IInv, enrolmentVars
<1> QED
  BY <1>2, <1>4, <1>6, <1>7, QuietStep

-----------------------------------------------------------------------------
(* The theorems.                                                           *)

LEMMA NewAgentGood ==
  ASSUME NEW supported \in BOOLEAN
  PROVE  LET x == NewAgent(supported)
         IN Good(x) /\ x.batch = <<>> /\ x.secret = NoSecret /\ x.file = NoSecret /\ x.collected = 0
<1> DEFINE x == NewAgent(supported)
<1>1. /\ x.batch = <<>> /\ x.buffer = <<>> /\ x.secret = NoSecret /\ x.file = NoSecret
      /\ x.collected = 0 /\ x \in AgentState
  BY DEF NewAgent, AgentState, NoSecret
<1> HIDE DEF x
<1>2. Line(x) = <<>>
  BY <1>1, Joined DEF Line
<1>3. Orderly(<<>>, x.collected)
  BY LimitType, EmptyRange DEF Orderly
<1>4. Good(x)
  BY <1>1, <1>2, <1>3 DEF Good
<1> QED
  BY <1>1, <1>4 DEF x

LEMMA InitIInv == Init => IInv
<1> SUFFICES ASSUME Init
             PROVE  IInv
  OBVIOUS
<1>1. Tables
  <2>1. scenario.token \in Tokens
    BY ScenarioType DEF Init
  <2>2. tokens \in [Tokens -> [uses : Nat, revoked : BOOLEAN, expired : BOOLEAN]]
    BY DEF Init, EnrolmentInit, NewToken
  <2>3. target \in [Machines -> Nat] /\ issued \in Nat
    BY DEF Init, EnrolmentInit, NoTarget
  <2> DEFINE row == [target |-> 1, secret |-> NoSecret, token |-> scenario.token,
                     rebind_open |-> FALSE]
  <2>4. row \in Host /\ row.target = 1
    BY <2>1 DEF Host, NoSecret, NoTarget
  <2>5. host = [m \in Machines |-> IF m \in scenario.legacy THEN row ELSE NoHost]
    BY DEF Init, EnrolmentInit
  <2> HIDE DEF row
  <2>6. host \in [Machines -> Host \cup {NoHost}]
    BY <2>4, <2>5
  <2>7. \A m \in Machines : host[m] # NoHost => host[m].target = target[m]
    BY <2>4, <2>5 DEF Init, EnrolmentInit
  <2> QED
    BY <2>2, <2>3, <2>6, <2>7 DEF Tables
<1>2. \A a \in Agents : /\ Good(agent[a]) /\ agent[a].batch = <<>> /\ agent[a].collected = 0
                        /\ agent[a] \in AgentState
  <2> TAKE a \in Agents
  <2>1. agent[a] = NewAgent(a \notin scenario.outdated)
    BY DEF Init
  <2> QED
    BY <2>1, NewAgentGood DEF Good
<1>3. AgentsOK
  <2>1. agent = [a \in Agents |-> NewAgent(a \notin scenario.outdated)]
    BY DEF Init
  <2>2. agent \in [Agents -> AgentState]
    BY <1>2, <2>1
  <2> QED
    BY <1>2, <2>2 DEF AgentsOK
<1>4. requests = {}
  BY DEF Init, EnrolmentInit
<1>5. ExchangeOf(requests, agent)
  BY <1>2, <1>4, ExchangeEmpty
<1>6. Deliveries
  BY <1>4 DEF Deliveries
<1>7. Traces
  BY <1>2 DEF Traces, Traced
<1>8. WriterOK
  <2>1. <<>> \in Seq(Seq(Sample)) /\ <<>> \in Seq(Sample) /\ Len(<<>>) <= PendingBound
    BY EmptyRange, BoundType
  <2> QED
    BY <2>1 DEF Init, WriterInit, WriterOK
<1>9. Observers
  BY ScenarioType DEF Init, Observers, Causes
<1> QED
  BY <1>1, <1>3, <1>5, <1>6, <1>7, <1>8, <1>9 DEF IInv

LEMMA NextIInv == IInv /\ [Next]_vars => IInv'
<1> SUFFICES ASSUME IInv, [Next]_vars
             PROVE  IInv'
  OBVIOUS
<1>1. ASSUME NEW a \in Agents, Collect(a) \/ Loop(a) \/ GiveUp(a) \/ Restart(a) \/ Help(a)
      PROVE  IInv'
  <2>1. CASE Loop(a)
    <3>1. CASE Send(a)
      BY <3>1, SendStep
    <3>2. ASSUME NEW r \in requests, Acknowledged(r) \/ Refused(r)
          PROVE  IInv'
      BY <3>2, AcknowledgedStep, RefusedStep
    <3> QED
      BY <2>1, <3>1, <3>2 DEF Loop
  <2>2. CASE Help(a)
    BY <2>2, AdministrationStep
  <2> QED
    BY <1>1, <2>1, <2>2, CollectStep, GiveUpStep, RestartStep
<1>2. ASSUME NEW r \in requests, Handle(r) \/ Fault(r)
      PROVE  IInv'
  BY <1>2, HandleStep, FaultStep
<1>3. CASE Crash
  BY <1>3, CrashStep
<1>4. CASE Administer
  BY <1>4, AdministrationStep
<1>5. CASE Writer \/ VictoriaFails
  BY <1>5, WriterStep
<1>6. CASE UNCHANGED vars
  <2>1. UNCHANGED <<enrolmentVars, writerVars, pushVars>>
    BY <1>6 DEF vars
  <2>2. WriterOK' /\ Written' = Written /\ Losses' = Losses /\ Tables'
    BY <2>1, WriterKept, LossesKept, TablesKept DEF IInv, pushVars, enrolmentVars
  <2>3. Settled \subseteq Settled'
    BY <2>2 DEF Settled
  <2>4. Observers'
    BY <2>1 DEF IInv, Observers, pushVars, Sample
  <2> QED
    BY <2>1, <2>2, <2>3, <2>4, QuietStep DEF pushVars, enrolmentVars
<1> QED
  BY <1>1, <1>2, <1>3, <1>4, <1>5, <1>6 DEF Next

THEOREM Invariance == Spec => []IInv
  BY InitIInv, NextIInv, PTL DEF Spec

\* Every variable has its type, and requests and agents agree on who waits for
\* what: an agent that sends waits for exactly one request, nobody else is
\* answered, and no number is given twice, whatever times out or dies.
THEOREM TypeCorrect == Spec => []TypeOK
<1>1. IInv => TypeOK
  <2> SUFFICES ASSUME IInv
               PROVE  TypeOK
    OBVIOUS
  <2>1. requests \subseteq Request /\ \A r \in requests : r.stage = "answered" => r.awaited
    BY DEF IInv, ExchangeOf, Valid
  <2>2. \A a \in Agents : Sending(a) <=> \E r \in requests : r.from = a /\ r.awaited
    BY DEF IInv, ExchangeOf, Sending
  <2>3. /\ \A r, q \in requests : r.no = q.no => r = q
        /\ \A r, q \in requests : r.from = q.from /\ r.awaited /\ q.awaited => r = q
    BY DEF IInv, ExchangeOf
  <2>4. agent \in [Agents -> [buffer : Seq(Sample), batch : Seq(Sample), secret : Nat,
                              file : Nat, supported : BOOLEAN, collected : Nat]]
    BY DEF IInv, AgentsOK, AgentState
  <2> QED
    BY <2>1, <2>2, <2>3, <2>4 DEF IInv, Tables, WriterOK, Observers, TypeOK
<1> QED
  BY <1>1, Invariance, PTL

\* What an agent still has to send is in the order in which it was collected
\* and fits its buffer, so that a failed batch always finds its place again;
\* the writer's memory is bounded while VictoriaMetrics is away.
THEOREM QueuesBounded == Spec => []QueuesFit
<1>1. IInv => QueuesFit
  <2> SUFFICES ASSUME IInv
               PROVE  QueuesFit
    OBVIOUS
  <2>1. ASSUME NEW a \in Agents
        PROVE  LET s == agent[a].batch \o agent[a].buffer
               IN /\ Len(s) <= Limit
                  /\ \A i, j \in DOMAIN s : i < j => s[i][2] < s[j][2]
    <3> DEFINE s == agent[a].batch \o agent[a].buffer
    <3>1. Orderly(s, agent[a].collected)
      BY DEF IInv, AgentsOK, Good, Line
    <3> HIDE DEF s
    <3>2. s \in Seq(Sample) /\ Len(s) <= Limit /\ DOMAIN s = 1..Len(s)
      BY <3>1, LenProperties DEF Orderly
    <3> QED
      BY <3>1, <3>2 DEF Orderly, s
  <2>2. ~writing => Len(pending) <= PendingBound
    BY DEF IInv, WriterOK
  <2> QED
    BY <2>1, <2>2 DEF QueuesFit, PendingBound
<1> QED
  BY <1>1, Invariance, PTL

\* No sample disappears without a trace: one that was collected waits in the
\* agent or in the writer, is stored, or was given up where the code counts or
\* logs it, for any number of lost answers, restarts and crashes.
THEOREM SamplesTraced == Spec => []NoSilentLoss
<1>1. IInv => NoSilentLoss
  <2> SUFFICES ASSUME IInv, NEW a \in Agents, NEW n \in 1..agent[a].collected
               PROVE  <<a, n>> \in Held \cup InWriter \cup stored \cup GivenUp
    BY DEF NoSilentLoss, Collected
  <2>1. <<a, n>> \in Range(agent[a].batch) \cup Range(agent[a].buffer) \cup Settled
    BY DEF IInv, Traces, Traced
  <2>2. Range(agent[a].batch) \cup Range(agent[a].buffer) \subseteq Held
    BY DEF Held
  <2>3. Settled \subseteq InWriter \cup stored \cup GivenUp
    BY DEF Settled, Written, GivenUp, Losses
  <2> QED
    BY <2>1, <2>2, <2>3
<1> QED
  BY <1>1, Invariance, PTL
=============================================================================
